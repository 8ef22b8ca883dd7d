# A TLA+ model of NCode

NCode is a terminal coding agent written in TypeScript. This directory holds TLA+
specifications of its concurrent core, the TLC configurations that check them on small
instances, and TLAPS proofs of the properties that matter most. All paths below are
relative to the repository root; most code lives under `src/`.

NCode is one JavaScript process with one thread. What makes it hard is not parallel
execution but *suspension*: almost every handler awaits something (the model's stream, a
tool, a file lock, the user), and while it is suspended every other handler may run and
change what it has read. Several processes share files as well: teammates of a swarm share a
task list and mailboxes, and a server on the other side of a network stores what a session
reports. An action of these modules is therefore a stretch of code between
two awaits, and the interleavings of such stretches are what TLC explores.

## The system

| Component | State it keeps | Operations | What is hard |
|---|---|---|---|
| Streaming tool executor (`services/tools/StreamingToolExecutor.ts`, driven by `query.ts`) | the array of tracked tools, `hasErrored`, `discarded`, sibling abort controller | `addTool`, `processQueue`, `executeTool`, `getCompletedResults`, `getRemainingResults`, `discard` | several queue sweeps suspended at once; aborts, sibling errors and fallbacks racing with results |
| Turn guard, command queue, submission (`utils/QueryGuard.ts`, `utils/messageQueueManager.ts`, `utils/handlePromptSubmit.ts`, `session/repl*.ts`) | guard status and generation, `commandQueue`, the REPL's abort controller | submit, enqueue, queue effect, `executeUserInput`, `onQuery`, cancel, mid-turn drain | a cancelled turn runs on beside its successors, and its `finally` blocks act on their state |
| Shared task list (`utils/tasks.ts`) | one JSON file per task, a high-water mark, lock files | create, update, delete, block, claim, reset, unassign | several processes, two kinds of lock, readers without a lock |
| Teammate mailbox (`utils/teammateMailbox.ts`, `hooks/useInboxPoller.ts`, `utils/attachments.ts`, `utils/swarm/inProcessRunner.ts`) | inbox files with a lock, `AppState.inbox` | write, poll, attach, wait, mark as read | a look without the lock and a mark under it; polls overlap turns |
| Swarm lifecycle (`utils/swarm/`) | team file, runner state | spawn, reconnect, shut down | not modelled |
| Permission race (`hooks/toolPermission/`) | claim flag of a request, confirm queue, what is shown | answers of user, hook, classifier, web, channel, recheck; aborts | seven racers, one answer; a screen that is a render late |
| Query loop (`query.ts`, `services/api/withRetry.ts`, compaction, stop hooks) | messages, recovery counters | retries, fallbacks, compaction, continuation | recovery paths that feed each other |
| Batch tool orchestration (`services/tools/toolOrchestration.ts`, `utils/generators.ts`) | batches, bounded concurrency | `runTools`, `all` | order of results and of context changes |
| Event uploader and transport writes (`cli/transports/SerialBatchEventUploader.ts`, `HybridTransport.ts`, `ccrClient.ts`, `bridge/replBridgeTransport.ts`) | pending events, resolvers, stream event buffer and timer | write, enqueue, drain, retry, flush, close | writes nobody awaits, backpressure, failed batches put back, late requests |
| Bridge sessions, reading transports (`bridge/`, `cli/transports/`) | flush gate, epochs, sequence numbers | connect, rebuild, forward | order and loss across reconnects; not modelled |
| Background tasks (`tasks/`, `utils/task/`) | task table, output files | spawn, stop, notify, evict | notify once, write order of output |
| Scheduled tasks, consolidation lock (`utils/cron*.ts`, `services/autoDream/`) | lock files with a PID, `scheduled_tasks.json` | acquire, steal, release, fire | crashed owners, two sessions stealing |
| Account runtime (`auth/`) | credentials, leases, limits | refresh, lease, fall back | refreshes at the same time |
| Remote sessions, direct server, MCP connections | sockets, pending requests | connect, reconnect, forward | reconnection |
| Goals, autoresearch, file history, caches, settings and memory sync | files, small maps | | mostly sequential |
| Terminal UI, commands, single tools, native ports | | | input/output; not modelled |

How they interact: a prompt enters through `handlePromptSubmit`, which either runs it
(`executeUserInput` -> `onQuery` -> `query`) or queues it; the queue effect, notifications of
background tasks and cron prompts feed the same queue, and `query` drains it between two
requests. `query` hands the tool calls of a response to a `StreamingToolExecutor`, whose tools
may ask for permission, spawn background tasks or teammates, and use the task list. What is
said in a turn is also written to the transport of a remote session. The
cancel key reaches all of it through the REPL's abort controller and `QueryGuard.forceEnd`.

What makes each component correct is stated under its module below, or in the plan.

## StreamingToolExecutor

`StreamingToolExecutor.tla` models one model turn: the executor, the tool generators it consumes and
the part of `query.ts` that feeds it. A *streaming fallback* discards the executor and makes
another, so a turn has several **attempts**; the tools of a discarded one run on.

| Model | Code |
|---|---|
| `status[t]`, `progress[t]`, `answers[t]` | `TrackedTool.status`, `pendingProgress` (non-empty), kinds of `tool_result` in `results` |
| `body[t]` | the call behind the generator: it outlives a loop that broke off |
| `sweep[s]` | every suspended `processQueue` loop with its index: one per `addTool`, one per finished tool, one of the drain |
| `cursor`, `suspended` | a running `getCompletedResults` |
| `pc` | `query.ts`: streaming, draining (`sweep`, `scan`, `wait`), done |
| `aborted`, `interruptible` | the turn's abort reason; what the REPL was last told about interruptible tools |
| `AddTool`, `SweepStarts`/`SweepEnds`, `Start*` | `addTool`, one leg of `processQueue`, `executeTool` up to its first await |
| `ToolProgress`, `ToolResult`, `ToolCutAfterResult`, `ToolEnds` | the loop of `collectResults` and its end |
| `AbortTurn`, `PermissionRejected`, `Discard` | ESC or interrupt-on-submit, a rejected dialog, a fallback |
| `ScanBegins`..`StreamEnds` | `getCompletedResults` and `getRemainingResults` |

Microtasks run before I/O: `Idle` says that nothing is runnable, and only then is I/O (the user,
a tool's progress or result) heard. The query loop does not wait for it: it calls `addTool` for all
blocks of a message in one synchronous loop and scans right behind it, so several loops of
`processQueue` may be suspended when the next tool is added, a scan begins, the stream ends or the
executor is discarded. A loop that has just been called runs synchronously up to its first start
(`Called`). What a tool
does is a choice of outcomes over a catalogue of kinds of tool (`MCStreamingToolExecutor`): read-only,
writing, Bash with a read-only or another command, interruptible, unknown to the executor.

Runs:

- `exec_siblings` (3 tools, 1 attempt; a safe Bash command, a writer, an unknown name; 1,103,205
  states): `TypeOK`,
  `ExclusiveCalls` (no call beside one that is not concurrency safe), `NothingLeftStartable`
  (when the event loop goes idle no startable tool is left in the queue), `StartsInOrder`.
  Three tools are the least for which a suspended sweep, a tool it passed and a tool that frees
  it are different tools.
- `exec_fallback` (2 tools, 2 attempts; safe and other Bash commands, an interruptible tool; 373,796
  states): `OwnErrorNotDoubled`, `EveryBlockAnswered`, and the liveness properties `QueuedNotRun` (a
  tool still queued in a discarded, aborted or failed executor is answered with a synthetic error and
  never runs, though nobody drains a discarded executor) and `TurnFinishes`. Two attempts let the tools of a discarded executor run beside those of its
  successor. Unknown names are left out because of `exec_spin`.
- `exec_spin` is a violation; see *Findings*.

Fairness: runnable code is run (weak fairness on sweeps and on the drain); the stream delivers
finitely many messages and a call finitely many updates, so the end of the stream and a result
are strongly fair. Nothing is assumed of the user.

## ReplTurn

`ReplTurn.tla` models the life of turns in the REPL. A **turn** is one `executeUserInput` (or an
`onQuery` called directly for an incoming message); after ESC it goes on to its end beside the
turns that follow, which is where the hazards are.

| Model | Code |
|---|---|
| `status`, `generation` | `QueryGuard._status`, `_generation` |
| `age[c]` | position in `commandQueue`: number of enqueues since, 0 if absent |
| `phase[a]` | where the turn is suspended: `input` (processUserInput), `query`, `draining`/`attached` (mid-turn drain), `skipped` (a turn that queries nothing), `finalizing` (onTurnComplete), `leaving` (before the `finally` of `executeUserInput`) |
| `held[a]` | `thisGeneration` of its `onQuery` |
| `controller`, `aborted` | the REPL's `abortController` and each controller's reason |
| `recast` | commands the lost race for the guard has enqueued again as plain prompts |
| `submitted`, `handled`, `dropped` | history: what was submitted, reached the conversation, was given back or cleared |
| `SubmitRuns`, `SubmitWaits`, `Notify`, `Incoming` | `handlePromptSubmit`, `enqueuePendingNotification`, `dispatchReplIncomingPrompt` |
| `QueueEffect` | `useQueueProcessor` with `processQueueIfReady` |
| `InputQueries`, `InputSkips`, `InputRequeues`, `InputSilent`, `InputThrows` | what follows `processUserInput`: `tryStart` succeeds, with `shouldQuery` or without (`handleSkippedLocalQueryTurn` clears the REPL's controller), returns null, no message, an exception |
| `DrainBegins`, `DrainAttaches`, `DrainRemoves` | the snapshot, its attachments and its removal in `query.ts` |
| `QueryEnds`, `Finalizes`, `Leaves` | the `finally` of `onQuery` with `end()`, the rest of `finalizeLocalQueryTurn`, the `finally` of `executeUserInput` |
| `Cancel`, `Pop`, `KillAgents` | ESC with a live controller, ESC without one, `chat:killAgents` |

Commands are of four sorts: prompts, *solos* (slash and bash commands, taken one at a time),
*notes* (task notifications, priority `later`) and *hidden* prompts (cron and goals: priority
`later`, `isMeta`). React is modelled by what its scheduling guarantees: a change of the guard or
the queue re-renders in a microtask and flushes the effect, so the effect sees the guard as it
is, while other continuations may run before it.

Abstracted: commands addressed to subagents, priority `now`, remote mode, local-JSX commands,
`nextInput` chaining, the restore of a cancelled prompt (it writes only the transcript and the
input box), dialogs other than the running query, and the initial message (like `Incoming`). Turn
slots are reused, so `MaxTurns` bounds turns alive at the same time, not turns; a run is finite
because every command is submitted once. The system may stop when all is done (`Quiet`), so
deadlock is checked.

Runs:

- `turn_served` (a prompt, a slash command, a notification, 2 turns alive at once; 207,046 states):
  `TypeOK`, `GuardHeld` (a taken guard has somebody who will release it), `OwnEnd` (a stale `end`
  never ends a successor), `NoCommandLost`, `UserFirst`, and `CommandServed`: every queued command
  leaves the queue, under weak fairness of the effect and of every await. A cancel does not starve
  the queue because each needs a live controller. Two turns are a cancelled one and the one
  that replaced it; the proofs lift the bound for the safety properties.
- `turn_cancel` is a violation; see *Findings*.

## TaskList

`TaskList.tla` models `utils/tasks.ts` and its callers: a directory with one JSON file per task, a
high-water mark, one lock for the list and one for each task. Agents are mostly separate processes, so an
action is **one access to the disk**; each is awaited, and any other agent may come in between.

| Model | Code |
|---|---|
| `file[t]`, `data[t]` | the task's file (absent, whole, or in the middle of a `writeFile`) and what was last written to it whole |
| `mark`, `markWhole` | `.highwatermark` |
| `listLock`, `taskLock[t]` | the proper-lockfile locks on `.lock` and on the task's file |
| `at[p]` | where agent `p` is in the call it makes, with the local variables of that call |
| `assigned` | history: the ids `createTask` has given out |
| `Checks`, `TakesTaskLock`, `LockFails`, `Rereads`, `Truncates`, `Writes` | `updateTask` with `updateTaskUnsafe`; the second half of `claimTask` is the same code |
| `Judges`, `Reads`, `ClaimJudgesBlockers` | `claimTask` under its lock; `Reads` is one `getTask` of a `listTasks` |
| `JobTurnsToUpdates` with `UpdateWants`, `BlockWants`, `DeleteWants`, `UnassignWants` | what `TaskUpdateTool`, `blockTask`, `deleteTask` and `unassignTeammateTasks` decide to write from what they have read |
| `Create*`, `Reset*`, `ComparesMark`, `Mark*`, `DeleteUnlinks` | `createTask`, `resetTaskList`, `deleteTask` |
| `HideDecides` | the hide timer of `useTasksV2.ts` |
| `Crash` | the process dies: files stay as they are, its locks go stale |

A task is its owner, status and the two sets of edges. `writeFile` truncates and then writes; a reader
in between gets null (for the mark: 0). Which task an agent claims is a choice: the watchers pick from a
list that may be stale, so any claim may be made. A crash frees the agent's locks at once, which is
the earliest a stale lock can be taken over; a lock that is taken from a slow but living holder is not
modelled. Every call ends by itself and nothing is promised of waiting agents beyond `LockFails` (30
retries), so the module has no liveness property.

Runs:

- `list_calls` (2 agents, 2 calls each, 2 tasks with an edge, crashes, every kind of call but `reset`):
  `TypeOK`, `ClaimsUncontested`, `NoLockLeft`, `FieldsKept`, while files vanish and come back under
  the calls. Two agents suffice for a call of one inside a call of the other; the proofs lift the
  bound for the invariants.
- `list_ids` (2 agents, 3 calls each, crashes, creates, resets and the hide timer, no deletes): `IdsUnique`.
  Three calls allow a crash in the middle of the mark, a reset and a create after it.

Two things the comments promise do not hold, and are known from the model rather than from runs of
their own. The hide timer may delete a task created after it verified that all are completed. And an
id that a concurrent `deleteTask` has just freed may be given out again (hence no deletes in
`list_ids`): `deleteTask` takes no lock of the list, and if it raises the
mark after `createTask` has read that, and unlinks the highest file before `createTask` reads the
directory, neither read shows the id. With a
third agent this reaches `FieldsKept`: an update that has read the deleted task under its lock writes
it over the new task of the same id. `list_calls` has two agents and does not get there.

## PermissionRace

`PermissionRace.tla` models the requests for permission open in one session and everybody who may
answer one: the user's keys, hooks, the classifier, the web (CCR), a channel, a second look at the
rules when the permission context changes, and aborts. Requests of the main agent share the turn's
abort controller; a teammate in process has its own and puts its dialog in the same queue.

| Model | Code |
|---|---|
| `stage[r]` | where `canUseTool` is: rules, awaited checks (`handleCoordinatorPermission`), checks, dialog, over |
| `winner[r]`, `answer[r]` | the claim of `createResolveOnce`, and what its promise was resolved with |
| `pending[r]`, `verdict[r]` | callbacks still to come; what `runHooks` returned before its caller looks at the claim |
| `saved[r]`, `prompts` | whose permission updates were applied and written; prompts on the web not yet dismissed |
| `queued`, `ahead`, `shown` | `toolUseConfirmQueue` with its order, and the dialog React last rendered |
| `RulesAnswer`..`Opens` | `useCanUseTool` and `createInProcessCanUseTool` up to the dialog |
| `UserAllows`, `SaveEnds`, `UserRejects`, `CancelKey` | `onAllow` to its await and after it, `onReject`, `dispatchReplCancel`; each with the `onDone` of REPL.tsx that drops the head of the queue |
| `HookReturns`, `HookClaims`, `ClassifierReturns`, `CheckmarkEnds`, `BridgeResponds`, `ChannelResponds`, `RecheckReturns` | the callbacks of `handleInteractivePermission` |
| `TurnAborts`, `TeammateAborts` | the signals |

`OneAnswer.tla` is what `createResolveOnce` promises the caller: the first claim wins and is never
taken over, and the promise is resolved once with an answer the winner can give.

- `race_answers` (a request of the main agent with all racers, one of a teammate): `TypeOK`,
  `RemotesDismissed`, `DialogGone`, `SavedByWinner`, `KilledAnswered`, the refinement
  `PromiseKept` (`OneAnswer!Spec`, with its fairness) and `DialogAnswered` (liveness). Two requests
  suffice for a dialog behind another one and a key that comes a render late.
- `race_floor` (two requests of the main agent) is a violation; see *Findings*.

Fairness: the code that asks runs on, React renders, a save ends, timers fire, and the user answers
a dialog that stays on the screen or comes back to it. No helper has to answer.

## TeammateMailbox

`TeammateMailbox.tla` models one inbox file, the agents that write to it and its readers: the
polls of `useInboxPoller.ts` and the attachments of turns in a session, the waiting loop of
`inProcessRunner.ts` and attachments for a teammate in process. The `CONSTANT` `Setups` says which
readers a kind of inbox has.

| Model | Code |
|---|---|
| `file`, `text` | the JSON file: missing, not parsing (created or truncated, not yet written), whole; its letters and `read` flags |
| `lock`, `step[c]`, `buffer[c]` | the proper-lockfile lock, where each call of `writeToMailbox` or of a mark function is, what it is about to write |
| `found[r]`, `place[r]`, `glimpsed[r]` | what a reader has read without the lock: unread letters, the chosen index, `AppState.inbox` as a turn saw it |
| `inbox`, `delivered`, `twice` | letters pending in `AppState.inbox`, given to the model or a handler, given again |
| `Creates`, `CreateEnds` | the `wx` creation of the file, which shows an empty file first |
| `Locks`..`Releases`, `LockFails` | the locked read, truncation and write; ten tries for the lock |
| `Polls`, `Routes`, `InboxServed` | a poll's look and its routing; the idle session submits what is pending |
| `TurnStarts`, `Attaches`, `Waits`, `Chosen`, `Ends`, `Marked` | attachments; the loop and its priorities; what follows a mark; what each mark marks |
| `Dies`, `LockExpires` | a sender's process dies; its lock goes stale |

- `mail_inbox` (a peer whose process may die and the leader write one letter each; an inbox with two
  overlapping polls and a turn, or one with a waiting loop; 187,588 states): `TypeOK`, `KeptInFile`,
  `LostOnlyIfOvertaken`, `RunnerOnce`, and `LetterServed` (liveness). Two letters are what a lost
  update, a mark of the wrong letter and an overtaking take; the proofs lift the bound.

`LostOnlyIfOvertaken` states the one way to lose a letter: the mark of a poll or of a turn reads
the file again and marks what was written since the look. The comment at `useInboxPoller.ts:860`
("mark messages as read only after they have been successfully delivered or reliably queued")
promises that this does not happen; the history variable `overtaken` names the letters it
happens to.

Fairness: calls go on, timers poll, an idle session serves its inbox, a teammate in process comes
back from every prompt to its waiting loop. A turn need not start.

## EventUploader and TransportWrites

`EventUploader.tla` models `SerialBatchEventUploader.ts`, `TransportWrites.tla` the write paths of
the two transports over it, and `OrderedDelivery.tla` is what an uploader promises: events are
accepted into a log, and the events that are settled (received by the server, or given up) grow
along that log.

The program runs on one thread, and what overtakes what depends on the order of promise
continuations. `jobs` is that queue: the continuations that are due, first in, first out. I/O and
timers come when it is empty (`Quiet`), and code that nobody scheduled (a new call of the
transport) may run between any two jobs.

| Model | Code |
|---|---|
| `pending`, `draining`, `closed` | the fields of the same name |
| `loops` | the activations of `drain()`: sending a batch, asleep, or woken by `close()`; `failures` is their local |
| `blocked`, `flushers` | `backpressureResolvers`, `flushResolvers` |
| `ops` | every call of `enqueue()` and `flush()`; a waiting one is named by its place here |
| `late`, `arrived`, `given` | the server: POSTs that timed out and may still land, events stored, events of batches dropped or refused |
| `pushed`, `waited` | history: the order in which events were queued; whose `enqueue()` had to wait |
| `Enqueue`, `Recheck`, `Flush`, `Close`, `Drain`, `NextRound`, `BatchDone` | the methods, up to the next await |
| `Deliver`, `Refuse`, `Drop`, `Retry`, `Superseded` | what `send()` does: success, 4xx or no token, failure with the budget spent or not, a 409 that closes the uploader from inside |
| `Calls` | the most general caller; `UploaderSpec` is the uploader under it |
| `buffer`, `timer` | `streamEventBuffer`, `streamEventTimer` |
| `calls` | the calls of `write()`, `writeBatch()` and `close()`, each at its await |
| `HybridWrite` | v1: stream events and messages in one `enqueue()`, then `flush()` |
| `StartWrite`, `Tick`, `Resumed` | v2: `writeEvent()` enqueues the stream events, awaits, enqueues its message; `writeBatch()` does so message by message |
| `CloseTransport`, `GraceOver`, `Overtaken` | `close()` with the grace period of v1; a 409 |

Abstracted: batching by bytes, un-serializable items, `pendingAtClose`, the text of snapshots (that
deltas are merged into the first of their block is kept: `folded`), the length of pauses.
`HybridTransport.flush()` and `CCRClient.flush()` are called by nobody and are left out.

- `write_calls` (3 events, 2 calls, a queue of one; v1 with batches of two and a budget of two
  failures, v2 with batches of one that are retried for ever; one late POST at a time; 345,896
  states): `TypeOK`, `OneInFlight`, `NobodyStranded`, `QueueBounded`, `SettledOnReturn`,
  `EventsAccounted`, `QueuedInOrder`, the refinement `DeliversInOrder` (`OrderedDelivery`), and
  `CallsReturn` (liveness). Three events are one in flight, one queued and one that waits for room;
  a write of two asks for more than the queue holds. The sizes of the code (500 or 100 a batch,
  100,000 queued) are parameters of the proofs. The system may stop when nothing is left to write, so
  deadlock is not checked.
- `write_order` (v2, room for all) is a violation; see *Findings*.

Fairness: due jobs run, every POST is answered or times out, pauses and the grace period end.
Success is not assumed: `CallsReturn` asks it only of calls that a bounded number of failures or a
`close()` must free.

## What is proved

The proof modules prove, for any values of the constants and from the named assumptions on them only:

- `StreamingToolExecutorProofs!TypeCorrect`; `ExclusiveAccess` (`ExclusiveCalls`); `InOrder`
  (`StartsInOrder`). `ExclusiveCalls` is not inductive: a call may run on after its tool is
  completed. The strengthening says that a running call belongs to an executing tool or was cut
  loose for a reason (abort, sibling error, discard) that refuses every later start of its
  executor, and that an executing exclusive tool is alone. `OneErrorEach` (`OwnErrorNotDoubled`) is
  inductive only with `AnswerInv`, which says what answers a tool has by how far it has come, and
  `NoBlockUnanswered` (`EveryBlockAnswered`) needs `TurnInv` on top: in which phase of the driver
  what is suspended, and that the executor it holds is not discarded. `StartsInOrder` needs what a
  suspended loop knows of the array it has passed (`SweptClean`): nothing there is queued any more.
  Since tools are added and executors discarded while loops are suspended, it also needs that a
  loop stands at most one behind the last tool received (`LoopsInPlace`), so a new tool lies in front
  of every loop, and, from `TurnInv`, that while the response streams no drain is under way, so no
  loop changes its executor.
  `NoneLeftBehind` (`NothingLeftStartable`) adds to that, in `QueueInv`, that an executor with a
  startable tool has a loop under way: whatever makes a tool startable sets one going.
- `ReplTurnProofs!TypeCorrect`; `GuardNeverLeaks` (`GuardHeld`) and `StaleEndIsHarmless` (`OwnEnd`),
  both from `GuardInv`, which adds that no generation held by a turn exceeds the guard's and that
  two live queries never hold the same; `CommandsKept` (`NoCommandLost`), from `FateInv`, which adds
  that what a drain is about to remove is already in the conversation; `InputBeforeNotes`
  (`UserFirst`).
- `TaskListProofs!TypeCorrect`; `LocksReturned` (`NoLockLeft`), from `LockInv`: an agent holds a task's lock
  exactly while it is between `lock()` and the `finally`, likewise for the list, so holders and locks
  correspond one to one. `ClaimsNeverSteal` (`ClaimsUncontested`) rests on it: from its check under the
  lock to its write, a claim finds the owner it saw, because whoever writes that task then either
  holds the same lock or is `createTask`, whose task nobody owns.
- `TaskListIdProofs`: `IdsGivenOnce` (`IdsUnique`), under the assumption `NoDeletes` on the calls
  made, which `list_ids` meets; with deletes it is false. `NumberInv` says what bounds the ids given
  out at each place of a create or a reset: some file, the mark if it is readable, or what the agent
  has read of them. `NoUpdateLost` is `Spec /\ []IdsUnique => FieldsKept`, deletes included: `FieldInv`
  says that between its read under the lock and its write an update has in hand what the file last
  held, because only `createTask` writes without the lock of the task, and its id is new. The
  condition is needed: without it FieldsKept has a counterexample with three agents (see the module's
  section); `NoUpdateLostUndeleted` puts the two together for calls without deletes.
- `PermissionRaceProofs!TypeCorrect`; `NoRemoteLeft`, `AnsweredDialogGone`, `OnlyWinnerSaves` and
  `KilledTeammateAnswered` (`RemotesDismissed`, `DialogGone`, `SavedByWinner`, `KilledAnswered`), and
  `AnsweredOnce`, the safety part of `PromiseKept`. The inductive invariant (`RaceInv`, request by
  request) adds that nothing is pending for a request without a dialog, that between a claim and
  its answer there is only the user's `onAllow`, and that the dialog on the screen is the head of the
  queue while it is in it: without the last, `onDone` could remove another dialog than the one
  answered, which is what happens when it is no longer in the queue (`race_floor`).
- `TeammateMailboxProofs!TypeCorrect`; `FileKeepsLetters` (`KeptInFile`), because whoever is past
  `lock()` has the lock and what it carries has all that was written; `OnlyOvertakenLost`
  (`LostOnlyIfOvertaken`), which adds what each reader has seen to (`Window`) and that the letter a
  waiting loop has found stays at its index until it is marked (`Pinned`): indexes chosen without
  the lock are safe because letters are only appended. `RunnerGetsOnce` (`RunnerOnce`) adds, for a
  lone reader whose marks succeed (`OnceInv`), that what it has delivered is marked in the file before
  it looks again.
- `EventUploaderProofs`: `OnePost` (`OneInFlight`), `NoLostWakeUp` (`NobodyStranded`), `BoundedQueue`
  (`QueueBounded`), `FlushIsKept` (`SettledOnReturn`), and `OrderedDelivered`, the refinement
  `UploaderSpec => DeliversInOrder`. The inductive invariant has two parts. `QueueInv`: one loop
  and the flag that says so, a queue that is never left without a loop, and `Split`: what was ever
  queued is a settled part, then the batch of the loop, then the queue, in the order of queueing,
  so a batch that is put back, dropped or delivered late moves the border and no event. `CallInv`:
  every waiting call is in exactly the list that will wake it, and a `flush()` not yet returned
  still covers what it promised.
- `TransportWritesProofs`: `TransportTypeCorrect`; `TransportsAreCallers`, every step of either
  transport is a step of `UploaderSpec` or leaves the uploader alone, by an invariant of the
  transports (a deferred step of a call names that call, a call that is to enqueue has something
  left, the timer runs only with a full buffer); and `TransportsDeliverInOrder`, which composes it
  with the theorems above. `NothingMissing` (`EventsAccounted`) and `KeepsOrder` (`QueuedInOrder`)
  come from one more invariant, `PlaceInv`: the calls that wait for room or look for it again are all
  different and hold different events, none of them queued (`TakenOnce`); the buffer is rising and
  behind all that has left it (`BufferLast`); a call sends its own messages, one after another, and
  shares none with another call (`Batches`); and together they have everything (`Covered`). Order
  needs the places and the places need the order: that a stream event is not queued behind a message
  rests on `BufferLast`, which a timer or a call that takes the buffer keeps because nothing newer is
  ahead of it.

Only model-checked: liveness (`QueuedNotRun`, `TurnFinishes`, `CommandServed`, `DialogAnswered`, `LetterServed`,
`CallsReturn`, and the fairness in `PromiseKept`), which is out of reach of TLAPS. Every other property
of a passing run is stated by a theorem (of `PromiseKept`, the safety part); that the four properties of the violation runs fail is
shown by TLC's counterexamples. `IdsUnique` holds in the model, and is proved, without deletes only.

## Findings

- `exec_spin`: `getRemainingResults` never waits when an unknown tool has completed behind an executing
  exclusive tool; it spins in microtasks and the tool's I/O is never heard.
- `turn_cancel`: the end of a finished turn clears the abort controller of the next one, which ESC can
  then not interrupt.
- `race_floor`: a key that reaches the dialog of a request already answered removes the dialog behind
  it from the queue; that request is then open with nobody left to answer it.
- `write_order`: writes that are not awaited overtake one another on the v2 transport, because
  `writeEvent()` awaits between the stream events and the message.

Seen in the models as well, and kept as hazards or here rather than as runs:

- executor: results of safe tools are yielded out of order; after a fallback an exclusive tool of the
  discarded executor may run beside one of the fresh executor; a context modifier that throws adds an
  error result beside the tool's own; blocks that arrive after an abort get no answer;
- turns: ESC during `processUserInput` releases the reservation, and the next submit starts a second
  `executeUserInput`; the `finally` of a finished turn may release the reservation of the next;
  prompts are batched past an earlier slash or bash command; a cancel during the mid-turn drain runs
  the attached commands again;
- task list: ids freed by a delete are reused and the hide timer deletes new tasks (see above); of
  two concurrent `blockTask` calls one may lose half of its edge; a blocker whose file is being
  rewritten does not block a claim; `unassignTeammateTasks` may take a task from the agent that has
  claimed it meanwhile; a claim whose file vanishes succeeds without a task; watchers of one list
  claim under one name;
- permissions: a hook saves its updates, or aborts the turn, before it claims;
- mailbox: a letter written between a look and its mark is lost; a sender is not told that its write
  failed;
- uploader: a `flush()` called after a 409 closed the uploader and before its pause ends never
  returns (SerialBatchEventUploader.ts:197); refused batches are not counted in `droppedBatchCount`,
  by which the bridge tells whether its history arrived; a write larger than the queue waits for
  ever (HybridTransport.ts:81 says so).

## Not modelled, and what would come next

The modules cover the parts in which several actors meet on shared state. The bulk of the repository
is sequential (message formatting, hooks and session files, the Bash parser, the terminal UI, single
tools, ported libraries) and is not modelled; its components are listed in `PROJECT.json`. In order
of what they would add:

1. `RemoteBridge` over `TransportWrites`: the flush gate between history and live messages
   (`flushGate.ts`, `remoteBridgeCore.ts`), rebuilds of the transport and epochs. To be looked at:
   history after live messages once a transport is rebuilt, and the window before the gate is up.
   `WorkerStateUploader` and the reading transports with their sequence numbers belong to it.
2. `CronLock`: ownership of the scheduler's lock across sessions that crash, at-most-once firing.
3. `BackgroundTask`: status transitions, notify-once, eviction, the write queue of an output file.
4. `QueryLoop`: recovery counters and transitions of `query.ts`, composed with the executor's promise
   that every block is answered; `runTools` for the path without streaming execution.
5. The lifecycle of a swarm: spawning, reconnection, permission requests of tmux workers through the
   mailbox, composed with `TeammateMailbox` and `TaskList`.
6. Theorems about the calls that deletes spoil: what `IdsUnique` still promises when `deleteTask` joins
   in, and the cases in which `SequentialEnqueueKeepsOrder` holds (one call under way at a time).
