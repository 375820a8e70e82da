# Huginn: a TLA+ verification project

Huginn is a local server that runs teams of language-model agents: a lead agent delegates
work to other agents in *threads*, users chat with agents in *sessions* that browser tabs follow over
a WebSocket, and define *workflows* that a scheduler runs; what agents learn is copied between their
memory vaults, and results leave the machine as notifications, webhooks and mails. It is written in Go; the
parts below share one process and talk through method calls, callbacks, goroutines, channels
and SQLite tables. This directory holds TLA+ models of the parts where goroutines race, the TLC
configurations that check them, and TLAPS proofs of what matters most.

Contents: 1 the system · 2 the plan · 3 threads · 4 the delivery queue · 5 workflow runs ·
6 chat turns · 7 the event stream · 8 memory replication · 9 runs, bounds and mutants ·
10 the proofs · 11 what the models show the code not to do · 12 not modelled · 13 running it.

Paths without a prefix are relative to the repository root.

## 1. The system

### 1.1 Components, their state and their operations

| component | state it keeps | operations that change it | talks to | what is hard |
|---|---|---|---|---|
| **threadmgr** `internal/threadmgr` | `tm.threads` (status, dependencies, cancel func) under `tm.mu`; `fileLocks` under `leaseMu` | `Create`, `ResolveDependencies`, `AcquireLeases`, `Start`/`SpawnThread`, `runOnce`, `Complete`, `Cancel`, `EvaluateDAG`, `watchdogScan`, `CleanupSession` | called by tools and handlers; status hooks call the checkpoint ledger after the lock is released | every goroutine may end, start or cancel any other's thread; hooks, contexts and leases follow a status change outside its lock |
| **delegation entry points** `main.go`, `internal/server/handlers_threads.go` | none of their own | `delegate_to_agent`, `spawn_specialist`, `POST /sessions/{id}/threads`, @mentions | threadmgr, preview gate | a delegation is five calls, any of which may fail after the thread exists |
| **preview gate** `internal/threadmgr/preview.go` | pending acknowledgements | `Approve`, `Ack`, timeout | browser, delegation | a late answer races the timeout |
| **delivery queue** `internal/scheduler/delivery_queue*.go` | tables `delivery_queue`, `endpoint_health` | `Enqueue`, `RunOnce`/`attemptDelivery`, `ForceRetry`, `Dismiss` | workflow runner, HTTP API, inbox | two sweeps work on copies without a lock; each attempt is a read, a minutes-long call and three writes |
| **workflow runs** `internal/scheduler/scheduler.go`, `workflow_runner.go` | `workflowRunning`, `workflowCancels`, the semaphore, run store | cron closure, `TriggerWorkflow`, `CancelWorkflow`, runner, `RunWorkflowSyncWithInputs`, chain hook | agents, delivery queue, inbox, HTTP API | two admission paths with different orders, panics, cancellation against deadline, sub-workflows on the same goroutine |
| **chat turns** `internal/server/ws.go`, `internal/agent/session.go`, `agent_dispatcher.go`, `chat_engine.go`, `orchestrator.go` | `chatRunCancels`, `chatQueueDepth`, the map of sessions, each `Session`'s run slot and history, the transcript store | `reserveChatRun`, `awaitChatTurn`, `cancelChatRun`, `ChatWithAgent`, `compactHistory`, `evictIdleSessions`, `persistAccumulated` | browser, REST clients, finished threads (follow-ups), model backends | two queues behind each other, the second without order; compaction and eviction work on what they read earlier |
| **event stream** `internal/server/ws.go`, `web/src/composables/useHuginnWS.ts` | sequence numbers and a replay ring per session, a send queue per client; in the tab the last number, a buffer, a timer | `stampAndRecord`, `broadcast`, `trySendOrEvict`, `resume`; `deliverOrBuffer`, gap recovery | every goroutine that reports something, browser tabs | stamped under one lock and sent under another; drops, eviction, reconnects, restarts |
| **workflow registry** `workflows_watcher.go`, `workflow_loader.go`, `handlers_workflows.go` | files on disk, cron entries, `known` | poll, debounce, `sync`, `RegisterWorkflow`, `RemoveWorkflow`, HTTP save and delete | scheduler | a sync registers definitions read before a concurrent save |
| **model backends** `internal/backend` | circuit breaker per provider | `ChatCompletion`, `Allow`, `RecordSuccess`, `RecordFailure` | agent loop, threads | outcomes nobody records; concurrent callers around a probe |
| **memory replication** `internal/agent/memory_replicator.go` | table `memory_replication_queue` | `Intercept`, fan-out, two drain loops, purge | agents' vaults over MCP | no row is marked as taken; a vault may have written what its answer denies |
| **permissions** `internal/permissions`, `server/permission_prompts.go` | session grants, pending prompts | `Check`, prompt, answer, expiry | tools, browser | three time limits race one answer |
| **relay** `internal/relay` | connection, write channel, breaker, outbox | `Send`, read/write/ping loops, `reconnect`, `Close` | HuginnCloud | loops of an old connection outlive it |
| **swarm** `internal/swarm` | agents, semaphore, event channel | `Run`, `CancelAll` | orchestrator | close against late events |
| **checkpoint** `internal/checkpoint`, `init_checkpoint.go` | run ledger, shadow git | `BeginRun`, `EndRun`, restore | threadmgr hooks | order of hooks |
| everything else | tables, files, caches | see `components` in `PROJECT.json` | | I/O, text and user interface |

`PROJECT.json` lists every part of the repository, the ones that are not modelled with the
reason.

### 1.2 How the modelled parts interact

```
 browser tab <===== SessionStream <------ every report of a turn, thread or workflow
      | chat, resume                              ^
      v                                           |
   ChatRuns --- a tool call of a turn --> ThreadManager ---- hooks --> ledger
      ^ ^                                 | leases, DAG
      | +---- follow-up of a thread ------+-- goroutine per thread
      |
   REST                        cron, users, webhooks, chain hook --> WorkflowRuns
                                                                        | failed deliveries
   a memory tool of a turn --> MemoryReplication --> vaults             v
                                                                   DeliveryQueue --> inbox
```

They meet at narrow interfaces: a turn calls a tool (in `ChatRuns` part of the model's answer), a
finished thread asks for a follow-up (a turn at any moment), everything is reported on the stream (a
broadcast at any moment in `SessionStream`), a workflow step calls an agent (in `WorkflowRuns` a call
that answers, fails, panics or is cancelled), a run hands a failed delivery to the queue (`Enqueue`, at
any moment in `DeliveryQueue`), a memory tool call succeeds (`Intercept`, at any moment). No state is
shared beyond that, so each module stands alone; composing them would multiply states without a
property that needs both.

### 1.3 What makes each part correct

* **Threads.** A thread is started once; whatever is shown as active has a goroutine behind it;
  a result is never overwritten; no tool runs before its thread's snapshot was tried (a failing one stops
  nothing); leases are all or nothing; a queued thread is not forgotten; a cancelled one stops.
* **Delivery queue.** An entry ends; it ends delivered once, or failed with a notification; a
  circuit is open exactly when the failures on record say so.
* **Workflow runs.** One run per workflow, at most `Slots` runs, nothing leaks on any way out;
  cancel reaches the right run; the stored status tells what happened to the steps; a run's
  notification has its record, a step's has one or its run is under way or was cut short; every run ends.
* **Chat turns.** Turns run in the order they were asked for unless a cancel or a ceiling breaks the
  chain; one turn at a time works on a history and none that was concluded falls out of it; what the
  client is told is in the store by then; every turn ends.
* **Event stream.** The tab gets each message once and in order; it passes a hole only where it warns, and
  in silence only within ten seconds of a warning shown before; a replay is exactly what was missed or
  says that it is not; no hole keeps the timeline waiting.
* **Memory replication.** What was queued leaves the queue when the vault has it, when it has been dead for
  a week, or on an answer of the vault that the code takes for success; a vault gets one copy; the retry
  budget is kept; every row settles.

The `hazards` of `PROJECT.json` are the forty places in the code where one of these is most likely to go
wrong without a test noticing, each with the properties that would catch it; the rest, and what the code
does not promise, is in section 11.

## 2. The plan

Order of work, most important behaviour first:

1. **Done.** `ThreadManager` and its promise `ThreadLifecycle`; proofs of the invariants and of
   the implementation.
2. **Done.** `DeliveryQueue`; proofs of the circuit and of single-worker delivery.
3. **Done.** `WorkflowRuns`; proofs of admission, slots, cancellation and record-before-inbox.
4. **Done.** `ChatRuns`, `SessionStream`, `MemoryReplication`, checked by TLC.
5. **Done.** Proofs of every safety property of `ChatRuns`, `SessionStream` and `MemoryReplication`.
6. **Done.** Proofs of the safety properties of the older modules that were only model-checked:
   `AttemptBudget`, `FailedIsEscalated`, `StatusTellsTheSteps`, `NestingIsSimple`, `RunsUnderItsLeases`.
7. `WorkflowRegistry`: definitions on disk, cron entries, the watcher's hash/debounce/sync, HTTP save
   and delete. Properties: entries converge to what is on disk when the disk is quiet; a deleted
   workflow does not come back; a disabled one does not fire (the code: section 11).
8. `BackendBreaker`: concurrent `ChatCompletion` calls around the breaker, with every outcome the
   code records and does not record. Property: a breaker whose provider has recovered closes again.
9. `PermissionGate`, with the preview gate: one answer, several time limits, cancellation. Property:
   what is allowed was allowed by an answer to that request in time. Then `RelayHub` and `Swarm`.
10. Abstract specifications worth stating: a semaphore with holders for admission (refined by
   `WorkflowRuns`), a queue of at-least-once deliveries (refined by `DeliveryQueue`), a lossy channel
   with announced losses (refined by `SessionStream`).

The number of runs is kept to a dozen and of checked properties to forty, one for each question; when a
module joins, the least informative claim makes room: four statements that earlier runs refuted are now only
told of in section 11.

## 3. Threads: `ThreadManager`, `ThreadLifecycle`

One session. A step is one critical section of `tm.mu` or `tm.leaseMu` with the local computation
around it; everything a call does after unlocking is a later step, so other goroutines come in
between.

| variable | in the code |
|---|---|
| `status`, `hints`, `deps` | `Thread.Status`, `DependsOnHints`, `DependsOn`; `"none"` before `Create`, `"gone"` after deletion from `tm.threads` |
| `call` | how far the delegation (or request) that created the thread has got |
| `runner`, `turn`, `todo` | the thread's goroutine: place in `SpawnThread`/`runOnce`/`EvaluateDAG`, loop counter, copies of queued threads still to visit |
| `ctxDone` | the context stored by `Start` is cancelled |
| `leases` | `tm.fileLocks` |
| `tail` | calls that changed a status under the lock and have not yet run the part after it |
| `run` | the thread's run in the checkpoint ledger: active, completed, failed (a capture failed and the ledger says so), or unrecorded (only the log says so) |

| actions | code |
|---|---|
| `Delegate`, `RequestThread` | `Create` called from the tool and from the handler |
| `ResolveDependencies`, `AcquireLeases`, `LeaseConflict`, `Approved`, `Rejected` | the rest of a delegation in the order of `main.go:2985-3123` |
| `CallStarts`, `CallLosesStart`, `CallLaunches` | `SpawnThread`: `Start` under the lock, the thinking hook, the goroutine |
| `Turn…`, `Chat…`, `ToolsReturn`, `Finish`, `Fails`, `RequestHelp`, `InputArrives`, `WaitCancelled` | `runOnce` and the wait for help |
| `CompleteFinishes` | `Complete` after its lock: hook, leases, dagFn |
| `Dag…` | `EvaluateDAG`, one critical section each |
| `UserCancels`, `FinishCancel`, `WatchdogScan`, `FinishTimeout`, `CleanupSession`, `FinishCleanup` | as named, in two steps each |

Abstractions. A model call is an answer, tool calls, an error or a cancellation; a tool call is an interval.
Token budgets, the length of the context and the turn limit all end in `Complete`, so one bound, `MaxTurns`,
stands for them. The watchdog's clock is the order of creation: whoever is past an age limit, every older
thread in the same position is too. Map iteration in `ResolveDependencies` is nondeterministic, as in Go.
The hooks call the ledger best effort: `Begins` and `Ends` are what `BeginRun` and `EndRun` may leave
behind, their failures being the fault `capture` (`checkpoint/manager.go:113-139`, `159-221`;
`init_checkpoint.go:109-111`), and the thread goes on whatever they return. `FinishCancel` joins context,
hook and leases because no code reads two of them together.

`ThreadLifecycle` is the promise: bounded active threads, queued to running once, ended for good,
forgotten only while live. `KeepsLifecycle` is `ThreadManager` implementing it with `thinking`,
`tooling` and `blocked` mapped to `running`. It holds without help requests and before the
watchdog's limits, and does not hold with them: `setBlocked` and a goroutine that outlives the
watchdog bring a thread back (section 11).

Fairness (`FairSpec`): weak, for the creating call, for the goroutine's own steps and for the
unlocked tails. The Go scheduler runs every runnable goroutine; model calls, tools and the preview
gate have time limits. `InputArrives`, users, the watchdog and clean-up owe nothing.

## 4. The delivery queue: `DeliveryQueue`

A step is one SQL statement (or one transaction) or the call to the deliverer; nothing is locked
between two steps. `row` and `health` are the two tables, `sweep` is what each sweep (the ticker's, and
one for each `ForceRetry`) has read and where it is, `inbox` the escalations, `crashes` the
bounded restarts. `cut` says that the context of a forced sweep, the HTTP request's, is over.

| actions | code |
|---|---|
| `Enqueue`, `Dismiss` | one transaction; one DELETE |
| `ForceGets`, `ForceResets`, `ForceInspects`, `ForceCloses`, `RequestEnds` | `ForceRetry`, and the handler returning |
| `ListsDue`, `Skips`, `Takes`, `SweepEnds`, `Ticks` | `RunOnce` and the worker's ticker |
| `DeliverySucceeds`, `DeliveryFails`, `MarksDelivered`, `HealsEndpoint`, `RecordsFailure`, `Reschedules`, `Exhausts`, `Escalates` | `attemptDelivery`, statement by statement |
| `RetryComesDue`, `ProbeWindowPasses` | time |
| `Restart` | tables stay, sweeps are gone, the worker begins with a sweep |

Time is two facts: `next_retry_at` has come, and the last probe is older than its window. The
backoff table and the window's length only say when; that nothing else about them matters is why
two Booleans suffice. `LIMIT 50`, the order of `ListDue` and database errors are left out.

Fairness: sweeps run on, the ticker fires, time passes.

## 5. Workflow runs: `WorkflowRuns`

Variables carry the scheduler's names: `workflowRunning`, `workflowCancels` (the run whose func is
stored), `sem`. `pc` is where each goroutine is, `stack` the invocations of the runner on it, since
a sub-workflow runs on its caller's goroutine without slot, mark or cancel func. `ctx` is the
context's state with the cause that ended it. `runStore` and `inbox` survive a restart. A notification names its
run and the step it is about, 0 for the run itself, and what it says; the code's step notifications carry the
step's session instead, which the run's record lists.

| actions | code |
|---|---|
| `CronFires`, `CronAdmitted`, `CronSkips` | the closure of `RegisterWorkflow`: mark first, slot second |
| `UserTriggers`, `Chains` | `TriggerWorkflow`: check, slot and mark under one lock |
| `EntersRunner` | context, cancel func stored, runner entered |
| `ReleasesSlot`, `Unmarks` | the deferred calls; cron returns its slot before it unmarks, a triggered run after |
| `CancelWorkflow`, `TimesOut` | the two causes |
| `SkipsStep`, `RefusesStep`, `GateRefuses`, `BeginsStep`, `CallsAgent`, `TryAbandoned`, `AgentAnswers`, `AgentFails`, `AgentPanics` | one step of the loop, with `executeStepWithRetry`; the outcome of a prompt is put into the inbox at once if the step's `notify` block wants it (`Announces`) |
| `CallsSubWorkflow`, `SubWorkflowCycle` | `RunWorkflowSyncWithInputs` behind the cycle check |
| `SettlesStatus`, `PersistsRun`, `StoresNotification`, `ChainEnds`, `ChainOutOfBound` | the end of an invocation, in the code's order |
| `Restart` | the process dies |

`CancelWorkflow` reads the func under the lock and calls it after; the call changes something only
while the context is live, and then the func is still stored, so one action is exact.
`Rests` lets a finished behaviour stutter, so that TLC's deadlock check means something: no
reachable state is stuck before every goroutine has ended.

Fairness: weak for each goroutine. Agent calls return because their context has a deadline
(`workflowTimeout` is always set).

## 6. Chat turns: `ChatRuns`

One session. A turn is asked for by a WebSocket frame, by `POST /sessions/{id}/messages` or by a thread that
has finished (`FollowUpFn` of `main.go`). The first two stand in the server's queue, where each run
waits for the `done` channel of its predecessor; all three then ask for the run slot of the `Session`
object, where nobody keeps an order.

| variable | in the code |
|---|---|
| `reg`, `depth`, `waitOn`, `ctx`, `late` | `chatRunCancels`, `chatQueueDepth`, the predecessor's `done` channel, the run's context, runs that gave up waiting at the ceiling |
| `live`, `obj`, `holder`, `idleOn` | the object in `Orchestrator.sessions`, the one a run found there, `Session.running`, the `idleCh` a waiter holds |
| `history`, `seen`, `compaction`, `compactMu`, `compSnap` | `Session.history`, a turn's snapshot, the goroutine of `compactHistoryAsync`, its lock and its snapshot |
| `stored`, `lastAsk`, `out` | rows of the transcript, the newest user row, the terminal event |
| `idleLong`, `evictee`, `evictions` | the two halves of `evictIdleSessions` |
| `raced` | history variable: runs whose append or snapshot met a compaction |

| actions | code |
|---|---|
| `FrameArrives`, `PostArrives`, `FollowUpStarts` (`Arrive`) | admission; a frame reserves on the read pump, a post stores its ask first, a follow-up does neither |
| `Accept`, `AwaitChatTurn`, `ChatCancel`, `EndChatRun` | the goroutine of a run around its turn; `cancelChatRun`; `endChatRun` |
| `FollowUpSettles`, `Lookup`, `TryBeginRun`, `SlotTaken`, `WaitForIdle`, `QueueBusy`, `EndRun` | `WaitForSessionIdle`, `ChatWithAgent` up to the slot, `beginExclusiveRun`, what callers do about `ErrQueueWaitTimeout` |
| `FastAnswer`, `SnapshotHistory`, `ModelAnswers`, `TurnFails` | the turn; `Concludes` appends to the history and schedules a compaction |
| `CompactionStarts`, `CompactionEnds` | `compactHistory` before and after the strategy |
| `PersistAccumulated`, `EmitDone` | the end of `runWSChat` and of the two other callers |
| `GrowsIdle`, `EvictionPicks`, `EvictionDeletes` | time, and the sweep before and under the lock |

A turn has a kind, which is how it will be answered: a trivial ask that gets a fixed "Pong." (`ping`),
an answer after a tool call (`tool`) or without (`chat`), the answer of an agent that keeps no tools
(`plain`), an answer that the memory gate holds back from the history (`held`). A message of the history
is its kind and the turns it tells of; a summary tells of all it replaced. What the code does to the text
on the way (speech filters, leftovers of earlier turns) is reduced to whether a row is written; answers
are assumed to have something left. `QueueBusy` stands for the backoff of `runWSChat`, which waits for the
session again before it asks again. `NewMessages` counts as the code counts, the left-out "Pong."s
included, and `Overtaken` is the guard of `BindPersistToThisTurn`.

Fairness: every run's own steps and the end of a summary, since model calls and summaries have time
limits; cancels, ceilings and the start of anything owe nothing. A WebSocket run that finds the slot
taken retries for ever, so `EveryTurnEnds` needs that every holder releases it.

## 7. The event stream: `SessionStream`

One session and one browser tab, from `stampAndRecord` to the handlers of the tab. A message is its number
and its epoch (the random `serverEpoch` of a process, here a counter).

| actions | code |
|---|---|
| `Stamp`, `Send`, `DropAtHub` | a broadcast: numbered and recorded under `seqMu`, later queued under the hub's lock; dropped when the broadcast channel is full |
| `Disconnect`, `EvictSlow`, `Restart`, `Connect` | the ways a connection ends (`ConnectionLost`: queue gone, timer stopped, buffer kept), `onopen` |
| `HandleResume`, `ReplayNext` | the `resume` frame: one read of the ring under `seqMu`, then one blocking send per message, with live messages in between, and `resume_ok` |
| `Deliver` (`NewEpoch`, `InTurn`, `TooEarly`, `Resumed`), `GapTimer` | `deliverOrBuffer`, the handler of `resume_ok`, `scheduleGapRecovery` |

`ring` is the code's ring with its slots, next index and wrap flag, so that `ReplayIsExact` is about the
index arithmetic. `dispatched`, `told`, `hushed`, `anchor` and `asked` are history variables of the
properties: what the handlers got, what the user was warned about or fetched again, what was skipped without
a word, the first message of the epoch, the request being answered. `Warn` is `dispatchOrderingWarning`: it
shows a warning or, once one has been shown (`warned`), may keep silent, since the last one may be less than
ten seconds old. How old it is stays open, so a silent skip is allowed more often than the code's clock
allows it, never before the first warning. The client's send channel and the wire are one queue. Close code
4002 is not among the tab's permanent ones, so an evicted tab reconnects like any other.

Fairness: goroutines that have something to send, the eviction, the tab's event loop and timers, and
its reconnects. Nothing has to be broadcast or to break.

## 8. Memory replication: `MemoryReplication`

`row` is the table, keyed by vault and concept; `vault` counts the copies a vault holds; `fan` is where each
fan-out goroutine is, `drain` what each drain loop has read and where it is. `main.go` starts two
replicators (3743 and 3784), hence a set of drain loops. A step is one SQL statement or one MCP call.

| actions | code |
|---|---|
| `Intercept`, `EnqueueMember` | the tool call, then one upsert for each member; after the last the fan-out starts |
| `FanFinds`, `FanHasNoClient`, `FanWrites`, `FanDequeues`, `FanExpires`, `FanRequeues` | `fanOut` and `replicateTo` |
| `SelectBatch`, `DrainFinds`, `DrainHasNoClient`, `DrainWrites`, `DrainDequeues`, `RecordFailure`, `Purge` | `drainBatch` and `purgeDeadEntries` |
| `FallsDue`, `GrowsOld` | time |
| `Crash`, `Restart` | `Stop` (or a crash) and `Start` |

A vault's write may fail, succeed, or succeed with its answer lost, any number of times; failed SQL
statements and failed look-ups are bounded by `MaxFaults`. A vault may also answer with a text that the code
takes for success: `CallTool` returns no error for a result with `isError` (`mcp/client.go:340-344`), and
`replicateTo` looks at the error and at whether a look-up answered with any content
(`memory_replicator.go:361`, `369-380`). The goroutine is then `misled` and removes the row although nothing
was written. Ids are given out as SQLite does for an
`INTEGER PRIMARY KEY` without `AUTOINCREMENT`: the largest in the table plus one, so the id of a deleted row
comes back, and `RecordFailure` writes by id. What a memory says is left out; what that hides is in section
11. `raced` is a history variable: keys that two goroutines were about to write at once, or that were
written after a failed look-up.

Fairness: goroutines run, the clock runs, a stopped process is started again.

## 9. Runs, bounds and mutants

| run | bounds | checks | size |
|---|---|---|---|
| `ThreadsDisturbed` | 2 threads, both creators, overlapping intents on 2 paths, all hints, every fault but a failing capture | `TypeOK`, `ActiveHasGoroutine`, `DoneIsFinal` | 4.0 M states |
| `ThreadsLive` | 2 threads, 2 turns, cancel and help, `FairSpec` | `StartedOnce`, `NoLostWakeup`, `CancelStopsGoroutine` | 147 k |
| `ThreadsLifecycle` | 2 threads, 2 turns, cancel, clean-up, errors, failing captures | `RunsUnderItsLeases`, `CaptureBeforeTools`, `KeepsLifecycle` | 1.1 M |
| `QueueForced` | 2 entries to one endpoint, 1 forced retry, 2 attempts, threshold 2 | `TypeOK`, `CircuitMatchesFailures`, `AttemptBudget`, `FailedIsEscalated` | 4.7 M |
| `QueueSingle` | 3 entries, 2 endpoints, 1 crash, `FairSpec` | `NoResend`, `Settles` | 168 k |
| `WorkflowAdmission` | 2 workflows, 3 goroutines, 1 slot, cron and users, cancel, panic, refusal, 1 crash, a chain | `TypeOK`, `OneRunPerWorkflow`, `SlotsAccounted`, `Cancellable` | 4.3 M |
| `WorkflowNesting` | 2 workflows calling each other, notifying steps, retries, `continue`, chain, cancel, timeout, panic, 1 crash, `FairSpec` | `StatusTellsTheSteps`, `NoOrphanNotification`, `NestingIsSimple`, `RunsEnd` | 382 k |
| `ChatTurns` | 3 turns in 9 scenarios: three mixes of frame, post and follow-up, each with one or two of cancel, ceiling, error, failed write, compaction, eviction; `FairSpec` | `TypeOK`, `FifoUnlessDisturbed`, `QueueAccounted`, `AnswersItsHistory`, `TurnsKept`, `StoredBeforeTold`, `EveryTurnEnds` | 374 k |
| `StreamFaults` | 2 senders, 4 messages per epoch, ring 2, queue 2, eviction at 2 drops, tab buffer 1, 1 disconnect, 1 restart, `FairSpec` | `TypeOK`, `ReplayIsExact`, `SkipsAreWarned`, `DispatchedInOrder`, `ResumeCatchesUp`, `GapsHeal` | 870 k |
| `MemoryReplicated` | 1 vault, 1 concept, 2 memories, 2 drain loops, 2 attempts, 1 slot, 1 fault, 1 crash, `FairSpec` | `TypeOK`, `OneCopyUnlessRaced`, `LeavesAnsweredOrExpired`, `RowsSettle` | 448 k |
| `Claim…` | the smallest that shows it | one statement of the repository each; TLC refutes it | small |

Why the bounds are enough. For safety they need not be: the proofs of section 10 remove the bound of every
invariant and every action property that a passing run checks (three of them under an assumption, named
there); the runs show that the interesting states are reached. For liveness they count. Two threads are
enough for every race over one thread: the owner and one other evaluator, plus a dependency between them,
plus users, watchdog and clean-up. Three threads were explored without faults (1.3 M states) and gave
nothing new. Two entries and a forced sweep beside the ticker's are two concurrent read-modify-writes of one
health record; two attempts and threshold 2 put both limits one step away from each other. Three goroutines
on one slot give a holder, a waiter that is skipped, and a successor whose cancel func an earlier run could
delete. Two workflows that call each other are the shortest indirect cycle.

Three turns are one that is answered, one that waits and one that overtakes: a chain broken in the
middle needs all three. The scenarios keep the state space small by not combining faults that touch
different parts (a compaction and the queue's ceiling, say); every fault appears with every mix of
sources it can disturb. A ring of two wraps twice within four numbers; a queue of two, two drops to the
eviction and a tab buffer of one put every limit within reach, and two senders suffice to overtake. One
vault and one concept are one row, which is what goroutines race for; rows meet only in a batch and
in the reuse of ids, and two concepts (or a larger batch) do not finish in five minutes.

The `Threads…`, chat, stream and replication configurations and the two claims turn the deadlock check
off: a bounded session ends when all its threads or turns were created and are over, a stream when its
numbers and faults are used up.

Mutants: each property of each passing run has a mutated form of one definition, written in the module
just before the definition it replaces (`Mutated form: …`), under which TLC finds the property
violated: a `Complete` that overwrites, a lease loop that keeps what it got, a start that does not
check, a wait that does not listen, a last attempt that is rescheduled, a health record with an
empty state, a slot returned twice, a notification stored first, a slot that the error path keeps, a resume that
does not compare epochs, a failed attempt that is not counted, and so on. None of them is part
of `Next`.

## 10. The proofs

Every invariant and every action property of the passing runs is stated by a theorem, for every value of
the constants allowed by the `ASSUME` of its module (finite naturals for bounds, typed functions for
intents, keys, steps and chains). Nothing else is assumed, with three exceptions that are hypotheses of the
theorem itself: `KeepsLifecycleThm` (no help requests, no watchdog), `WorksUnderLeases` (`LeasedOnly`: no
HTTP requests, no watchdog) and `SingleWorkerNeverResends` (no forced retries). Each excludes behaviours
that break the property, because the code does not keep it there; sections 3 and 11 say how. A run of the
property has the same restriction.

| module | theorems | of |
|---|---|---|
| `ThreadManagerProofs` | `TypeCorrect`, `GoroutineDrives`, `LeasesAtomic`, `CaptureFirst`, `LaunchedOnce`, `ResultsAreKept`, `WorksUnderLeases`, `KeepsLifecycleThm` | `ThreadManager` |
| `DeliveryQueueProofs` | `QueueTypeCorrect`, `CircuitIsSound`, `SingleWorkerNeverResends`, `FailuresReachTheInbox`, `AttemptsBounded` | `DeliveryQueue` |
| `WorkflowRunsProofs` | `RunsTypeCorrect`, `NoOverlap`, `NoSlotLeaks`, `CancelFindsItsRun`, `RecordBeforeInbox`, `StatusIsTruthful`, `SubWorkflowsNest` | `WorkflowRuns` |
| `ChatRunsProofs` | `ChatTyped`, `QueueCounted`, `TurnsInOrder`, `AnswerMatchesHistory`, `ConcludedTurnsKept`, `StoredFirst` | `ChatRuns` |
| `SessionStreamProofs` | `StreamTyped`, `ReplayExact`, `SkipsWarned`, `EachOnceInOrder`, `ResumeComplete` | `SessionStream` |
| `MemoryReplicationProofs` | `ReplicationTyped`, `ReplicatedOnce`, `RowsLeaveAnswered` | `MemoryReplication` |
| `NumberLemmas` | facts on naturals and finite sets that the last three need | |

What follows says for each why the property is not inductive and what the invariant adds.

**`ThreadManagerProofs`.** `TypeOK` is not inductive: `turn` stays within `MaxTurns` only because a
goroutine inside a turn is below it (`TurnBound`). `ActiveHasGoroutine` is not inductive either: a
queued thread might be started while an old goroutine is still winding down, a thread might be
made `blocked` from outside. The invariant `IInv` adds

* `Launching`: a thread not yet started has no goroutine, and a goroutine at `launch` has exactly one
  launcher (its creating call or one evaluator, at the head of that evaluator's list);
* `StatusTells`: a done thread's goroutine is past its loop, a blocked one's is waiting;
* `Snapshots`: the first turn is turn 0, and past it `BeginRun` was called;
* `LeasesAllOrNothing`, which no run checks any more: it is proved.

Each part is a group of lemmas, one for the creating call, one for the loop, one for the DAG
walk and one for the rest; `ThreadStepIInv` and `SessionStepIInv` put them together, `IInvHolds` is
the result. From it follow `TypeCorrect`, `GoroutineDrives`, `LeasesAtomic`, `CaptureFirst`, and
the action properties `LaunchedOnce` and `ResultsAreKept`. `KeepsLifecycleThm` shows the
implementation of `ThreadLifecycle`, assuming `Faults` contains neither help nor the watchdog: with
`NeverBlocked` and `ErrorIsOver` every status change is one of a few moves (`StatusMoves`), and each move
is a step of the promise (`MoveIsLifecycleStep`, `CleanupIsForget`).
`WorksUnderLeases` is about a delegated thread between its start and the moment it is told to stop. Its leases
are released in the tail of a status change, several steps after it, and a goroutine writes a status back
without looking. So `LeaseInv` has two parts: `HoldsItsLeases`, that a delegation past `AcquireLeases` whose
thread is live and not told to stop (`Covered`) has all its leases, queued threads included; and `Stopping`,
that a live status cannot come back: a failed thread's goroutine is past its loop, whoever still has to end a
thread found it in the session, and the goroutine of a cancelled one gets to know. `LeasedOnly` leaves out
requests over HTTP, which spawn without leases (`handlers_threads.go:546`), and the watchdog: a user's
cancel of a thread that it has failed frees the leases and cancels nothing, and the goroutine goes on.

**`DeliveryQueueProofs`.** `CircuitMatchesFailures` speaks of the table, but what is written comes
from a copy read earlier: `CircuitInv` says the same of every copy. That suffices, whatever
interleaves, because a write is computed from one sound copy (`CircuitInvHolds`, `QueueTypeCorrect`,
`CircuitIsSound`). `SingleWorkerNeverResends`: without forced retries, an entry on the worker's
list or in its hands has not been delivered (`ListInv`). `FailuresReachTheInbox` is inductive beside typing:
only the sweep that exhausted a row leaves `escalate`, and only into the inbox. `AttemptsBounded` is
not, because counts are written back from copies and a forced retry makes an exhausted row wait again:
`BudgetInv` bounds every copy by the same allowance (`MaxAttempts` and one for each forced retry asked
for), strictly where an attempt is still to come.

**`WorkflowRunsProofs`.** `IInv` is `TypeOK`, `OneRunPerWorkflow`, `SlotsAccounted`, `Cancellable` and
`Placed`, which ties a goroutine's place to its kind, its workflow and its stack (a goroutine in the
runner has a non-empty one). Three groups of lemmas carry it: cardinality (a slot taken or
returned changes the number of holders by one), marks taken and returned pointwise, and typing of
stack operations. Results: `RunsInvariant`, `RunsTypeCorrect`, `NoOverlap`, `NoSlotLeaks`,
`CancelFindsItsRun`. The stacks have an invariant of their own, `StepsInv`: the caller of a
sub-workflow has a step left and an unbroken record up to it, the invocation on top is as far as its
goroutine (`Fits`), no workflow is on a stack twice, a context that is over has a cause, and every stored
record agrees with the cause of its run (`Tells`), for which a cause must never change
(`CauseStays`). `StatusIsTruthful` and `SubWorkflowsNest` follow.

`RecordBeforeInbox` is about two kinds of notification. A run's comes after its record, so it is enough that
a goroutine about to notify has stored it (`RunsFiled`). A step's comes before it, when nothing is filed
yet: it agrees with the invocation still on the stack, and the induction follows that invocation. A step of
the system lets it grow at its depth, files it with the results it has, or drops it with a goroutine that
has no record and never will (`Keeps`; the last needs that only a goroutine near its end has one,
`OwnFiled`). `FiledInv` is the conjunction of these, and `Passes`, one lemma for each kind of action,
carries it.

**`ChatRunsProofs`.** `Base` is typing by parts and `Placed` (a run before its arrival is beyond
`admitted`, one with a slot has an object, one that summarises has concluded). On it stand five
invariants:

* `QueueAccounted` is inductive on `Base` and gives, with it, `ChatTyped`.
* `SlotInv`: a run inside a turn owns the slot of the object it found, which need not be the live one
  (`AnswerMatchesHistory`).
* `KeptInv`: the lock of an object names its summary and the other way round, and a summary's snapshot
  tells of every turn that concluded on the object, or the turn raced (`ConcludedTurnsKept`).
* `FifoInv`: a waiting run waits for the newest chat run before it, and behind a run that is past the
  queue everything is over or undone by a cancel or a ceiling somewhere in between (`Clear`); while nobody is
  registered the same holds for the run to come. The induction is along the chain: the predecessor is
  over, and what was before it is clear for it (`ClearLater`). `TurnsInOrder` follows.
* `StoredInv`: what is told agrees with the rows (`Told`), and the newest user row is the ask of a chat run
  (`StoredFirst`).

**`SessionStreamProofs`.** `StreamInv` has three parts. `HubInv`: the ring's slots are the last numbers in
order, with `next` and `full` telling where they begin (`RingHolds`); `ReplayExact` is then arithmetic
modulo the ring's size, done with `NumberLemmas` (`KthOfInterval`: the k-th member of an interval).
`ConnInv`: frames under way are of the running process, and a resume is answered before anything is
replayed. `TabInv`: what the handlers got is not ahead of the tab, the buffer is ahead of a hole, and
between anchor and last number nothing is missing that was neither told of nor hushed; a lemma for each way
`deliverOrBuffer` can go carries it, and `SkipsWarned` and `EachOnceInOrder` follow. `ResumeComplete` needs
one more, `Closing`: a `resume_ok` without a gap stands, in the queue and the replay behind it, after every
number the tab has not had (`Ahead`), although live messages come in between and frames are dropped. Both
theorems name what was hushed, and `SkipsWarned` that nothing is hushed before the first warning.

**`MemoryReplicationProofs`.** `TypeOK` contains the retry budget and is not inductive: a loop writes back a
count from its snapshot, by id. `TableInv` adds that a snapshot's rows have an attempt left (`Sound`), that
the table's ids have an upper bound (the next one is the largest plus one, of any set of keys) and that only
memories that were written are enqueued or fanned out (`Begun`). `CopyInv` adds `Delivered` (whoever is
about to dequeue, and was not misled, has a copy in the vault) and `WriteFinds` (of a key nobody raced for
there is at most one copy, and none while somebody is about to write it); `ReplicatedOnce` and
`RowsLeaveAnswered` follow.

**Only model-checked.** Liveness (`NoLostWakeup`, `CancelStopsGoroutine`, `Settles`, `RunsEnd`, `EveryTurnEnds`,
`GapsHeal`, `RowsSettle`): temporal reasoning under fairness and `ENABLED` are beyond the prover. What
recursive data computes for every input would need induction, which the installed backends
cannot instantiate; the models contain no recursion (`Since` of `SessionStream` picks the k-th kept message
instead of looping, and is proved).

## 11. What the models show the code not to do

Two statements of the repository are refuted by a run each (`findings` in `PROJECT.json` quotes
them):

* `ClaimNotBeforeApproval`: a delegation runs while its preview is waiting, because another thread's
  `EvaluateDAG` finds it queued and ready (`dag.go:27` against `main.go:3079`).
* `ClaimHistoryKeepsAsks`: the history keeps the answer of an agent turn and not the ask, and behind an
  answered ping the call of a tool is cut off too (`agent_dispatcher.go:824`, `memory_gates.go:811-813`
  against `docs/features/sessions.md:45`).

Four more were refuted by runs that have made room for other questions; the behaviours are in the
models:

* `setBlocked` overwrites `cancelled` (`spawn.go:878` against `manager.go:918`).
* An entry superseded during its delivery is set back to `retrying`, beside its successor
  (`delivery_queue.go:223` against the queue's design document).
* The sweep of `ForceRetry` runs under the request's context and stops when the handler returns
  (`delivery_queue.go:123`).
* A failed sub-workflow is a successful step (`workflow_runner.go:866`, `main.go:2825-2832` against
  `docs/features/workflows.md:313`).

Further disagreements met while reading and modelling, without a run of their own:

* Threads. A `BeginRun` that fails is only logged, and the thread runs its tools with no snapshot before
  them (`init_checkpoint.go:109-111`; a capture that fails is in the ledger as such, a ledger that fails is
  nowhere). Status hooks run after the lock is released, so reports may arrive in another order. `Cancel`
  frees leases while the cancelled goroutine's tool may still write (`manager.go:903`,
  `docs/architecture/multi-agent.md:132`). A rejected preview, a lease conflict and a user's cancel do not
  evaluate the DAG, so dependents of the cancelled thread wait for the watchdog (`main.go:3082`,
  `manager.go:1518`). The HTTP path ignores `depends_on` when it spawns (`handlers_threads.go:546`). Leases
  acquired after an early start and end of the thread stay; the watchdog never releases any, and a cancel of
  a thread it has failed frees them without stopping the goroutine, whose next tool call runs without them
  (`manager.go:864`, `903`). `CleanupSession` spares a thread that is tooling (`manager.go:1207`). A cancel
  between `Start` and its hook leaves the ledger's run active (`manager.go:850`). Two delegations that hint
  at each other wait for each other. `Prune` is never started; `Thread.Timeout` is never set.
* Delivery queue. The endpoint key of a mail ignores the recipient (`delivery_queue_types.go:61`).
  `ForceRetry` resets any status, delivered and superseded included, and sends no badge. A crash
  between `failed` and the escalation loses the notification. Two sweeps may send one entry twice.
  Rows migrated from the dead-letter files have an empty payload and cannot succeed.
* Workflows. A cancel between the mark and the stored cancel func answers "not running"; one after the
  status is settled answers "cancelled" although the run completes (`workflow_runner.go:732`). A
  sub-workflow skips the one-run gate and may overlap a run of its own. A chain is triggered while
  the parent still holds its slot and mark, so it is dropped when slots are full and a workflow cannot chain to
  itself. `RemoveWorkflow` leaves a running workflow running. `RegisterWorkflow` of a disabled workflow
  returns before it removes the existing entry (`scheduler.go:186` against its comment). A step's
  notification is in the inbox before its run has a record (`workflow_runner.go:678`): a crash or a panic leaves
  it without one, the inconsistency that the comment at `workflow_runner.go:809-814` says the order of a run's
  own two writes avoids. A step that the company gate refuses notifies, one that is
  refused for its form does not (`workflow_runner.go:570-577`, `319-344`).
* Chat turns. `chat_cancel` reaches the newest run, with a backlog not the one being answered
  (`ws.go:1721`), and takes it out of the chain: the next one waits for nobody and may overtake those
  still queued. A cancelled ping that is still queued is answered all the same. A ping that was answered
  while a newer ask had been stored is told `done` and its "Pong." is not stored (`leftover_persist.go:400`;
  the comment at `ws.go:2402-2408` has only earlier turns in mind). A ping without a configured model is
  stored as answered while the client is told of an error. An eviction that picked its session before a
  turn began drops the object under it: two turns of one session then run at once. A message appended by
  a trivial ask during a compaction is lost. The retry of a follow-up looks for "already running"
  (`main.go:3601`), which `ChatWithAgent` no longer says. A post that gives up on a busy session answers
  500 with its ask stored.
* Event stream. A tab that has seen nothing of an epoch takes the first message as its anchor; older ones
  that arrive behind it, replayed or overtaken, are dropped as duplicates, although `resume_ok` said there
  was no gap (`useHuginnWS.ts:270-281` against `ws.go:1788-1793`). A message dropped at the end of a
  burst is noticed only with the next one or the next resume. The gap timer gives up on a hole after 3 s and a
  warning is shown at most every 10 s (`useHuginnWS.ts:182-192`): a second hole inside the ten seconds is
  passed in silence. `DeleteSessionSeq` begins a session's
  numbers again within an epoch.
* Memory replication. Two drain loops work on one table (`main.go:3743`, `3784`). An old attempt's failure
  is written by id and can kill a row that was revived since (against `memory_replicator.go:426-427`), or
  count against another row that got the id. `dequeue` deletes by key, a newer payload with it; the look-up
  skips a concept the vault has, so changed content never replaces the first copy; an older payload whose
  fan-out fails late overwrites a newer one. An answer with `isError` comes back without an error
  (`mcp/client.go:340-344`): a refused `muninn_remember` is dequeued as delivered with nothing written
  (`memory_replicator.go:369-380`), and a look-up answered with an error text, or with any text that says
  there is nothing, counts as found and dequeues too (line 361). A look-up whose call failed counts as not
  found. The look-up takes no account of the space. `ReplicateFinishSummary` has no caller.
* Backends. A half-open breaker whose probe ends in a 4xx or in cancellation records nothing and
  admits nobody (`anthropic.go:169`).
* Permissions. The gate gives up after 30 s and the prompt's entry lives 40 s: an answer in between resolves a
  request that was denied already (`permission_prompts.go:75`).
* Relay. Nothing outside the tests writes the outbox; a message whose write failed is lost.

## 12. Not modelled

Of the 128 000 lines, most hold nothing that a model checker or a prover would say more about than a
test: user interfaces (`web`, `tui`, `tray`), tool implementations and clients of external services
(`tools`, `connections`, `mcp`, `relay/shell`), text filters and prompt assembly (`backend/residual_speech.go`,
`agent/context*.go`), indexing and ranking, tables with single-statement operations behind HTTP handlers,
configuration. The parts with state that several actors race for are in the models or in the plan.

Within the modelled components:

* Threads. What `RunsUnderItsLeases` does not say: dependents go ahead although a delegation before them
  failed to get its leases, and leases taken after the end of an early-started thread stay (section 11). The
  watchdog is not in the run of `KeepsLifecycle`. Durable thread records and the restart of the server with
  threads in flight, the audit log, the specialist registry, vetting of results, `WaitForThreads`. Several
  sessions: threads of different sessions share only `fileLocks`, and the cap, the DAG and clean-up are per
  session.
* Workflows. Prompt text, outputs, placeholders, step deliveries and events; errors of the run and
  notification stores, which the code logs and ignores; registration of cron entries. `RunsEnd` is checked without
  cron and with a slot for each of its two goroutines: a trigger or a chain that finds no slot is refused, never
  waits, so slots cannot hold a run up; admission under scarcity is `WorkflowAdmission`.
* Chat turns. `AnswersItsHistory` is about one object: two turns on two objects of one session, after an
  eviction, each own their slot. `TurnsKept` excludes, by `raced`, the turn that is lost to a compaction it met
  (section 11). `ChatForSession` and `ChatForSessionWithAgent`, which use the history without the slot; the
  trim of a history at a hundred messages; the loop over tools inside a turn and routing between agents;
  failures of the store other than at acceptance; fixed answers other than to a ping, which take the same
  path and are not left out of later requests. The cascade of `sessionStore.Delete` is not wired in the server.
* Event stream. Several tabs (each has its own queue and state; they share only the ring, which is read),
  messages without a session, registration while the hub shuts down, heartbeats, the tab's own outbox. A
  `resume` frame that the rate limit drops (`ws.go:683-695`) and close codes after which the tab does not
  reconnect (`useHuginnWS.ts:347`): `GapsHeal` is about a tab whose resumes are answered and that comes back,
  which is what its fairness says. The age of the last warning (section 7).
* Memory replication. Several rows: the run has one, so only the proofs exercise the reuse of ids. Payloads,
  the client pool and its locks, the order of a batch, the length of backoffs.
* The other components of `PROJECT.json`, each with its reason.

## 13. Running it

```
tlc -config ThreadsDisturbed.cfg MCThreadManager      # likewise Threads*, ClaimNotBeforeApproval
tlc -config QueueForced.cfg MCDeliveryQueue
tlc -config WorkflowAdmission.cfg MCWorkflowRuns
tlc -config ChatTurns.cfg MCChatRuns                  # likewise ClaimHistoryKeepsAsks
tlc -config StreamFaults.cfg MCSessionStream
tlc -config MemoryReplicated.cfg MCMemoryReplication
tlapm ThreadManagerProofs.tla                         # likewise the other modules of section 10
```

`map` in `PROJECT.json` gives, for every definition that models code, the file, the lines and the
symbol.
