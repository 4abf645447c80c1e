# Verification of the agent's control logic

The program is a Telegram agent: it receives messages through a user or bot
bridge, decides which of them to answer, runs an LLM turn with tools for each,
and sends the answers, with scheduled tasks, gifts, plugins, TON transfers and
supervised child processes around it. It is one Node.js process: what can go
wrong is what happens between two awaits.

This directory holds TLA+ models of the parts where that matters, TLC runs on
small instances, and TLAPS proofs for all instances. Paths below are relative
to `src/src/`.

## 1. Inventory

| Component | State | Operations | Hard behaviours | What makes it correct |
|---|---|---|---|---|
| Outgoing tracker: `telegram/outgoing-tracker.ts`, driven by `telegram/bridges/user.ts`, `flood-retry.ts`, `send-result.ts` | records by random id, index by (chat, message id), in-flight flags, time stamps, in memory | reserve, begin/markSending/end, acknowledge, observe, classify with a bounded wait, definite and ambiguous failure, cleanup, clear | update before acknowledgement, acknowledgement before result, retries with the same random id, cleanup during a send, disconnect during a send | exact classification; no correlation lost while its send is active; none kept for ever |
| Turn coordinator: `agent/turn-coordinator.ts` | promise chain per session, slot queue, two counters | run, acquireSlot, releaseSlot, waiter timers, drain | handover against timeout, end of a chain against a new turn, drain snapshot | serial sessions, exact counters, no lost wakeup, every turn settles |
| Agent lifecycle: `agent/lifecycle.ts` | state, promise of the start and of the stop in progress | start, stop | concurrent callers, failing start, stop during a start | one callback at a time, truthful state, stop returns when down or a callback failed |
| Message pipeline: `telegram/debounce.ts`, `telegram/handlers.ts`, `telegram/offset-store.ts`, `memory/pending-history.ts`, shutdown in `index.ts` | buffers, recent ids, pending history, chain per chat, slots, offsets in memory and on disk | enqueue, flush, handleMessage, chat queue, writeOffset, stopAgent | duplicates, reordering, restart, failure after the reply, shutdown under load | no second answer, one turn per chat, every delivery ends, drain before disconnect |
| Agent loop and tools: `agent/runtime.ts`, `agent/client.ts`, `agent/loop/*`, `agent/provider-fallback.ts`, `agent/tools/registry.ts`, `memory/action-executions.ts` | iteration and recovery counters, active provider, rows of action executions | LLM request, recovery, fallback, tool batch, reserve and complete an action | retries that must not consume or extend the budget; crash inside an action | termination; each action of an inbound message executed once |
| Scheduled tasks: `scheduled-tasks.ts`, `telegram/task-executor.ts`, `telegram/task-dependency-resolver.ts`, `memory/agent/tasks.ts` | task rows with status and dependencies | execute, complete, fail, cascade, cancel | duplicate triggers, cancel during execution, diamonds | a task runs once, after its parents; none waits without a cause |
| Gift ledger: `domain/commerce/gift-ledger.ts` | expectations, reviews, processed events, credits | expectGift, processGift, applyReview | duplicate events, late reviews | a gift is credited once |
| Supervision: `gocoon/supervisor.ts`, `gocoon/lifecycle.ts`, `ton-proxy/manager.ts` | child, flags, failures, backoff | start, stop, exit, restart | stop during a restart | no orphan, no child after stop |
| Plugins: `agent/tools/plugin-watcher.ts`, `agent/tools/plugin-loader.ts`, `plugin-orchestrator.ts`, `sdk/hooks/*`, `webui/services/marketplace.ts` | modules, registered tools and hooks, database handles, reload queue | reload, roll back, stop; install and uninstall | failure half way, edits during a reload, stop during a reload, a late stop | tools, hooks and database belong to the running module; every edit is tried; stop is final |
| Sessions: `session/*`, `memory/compaction.ts`, `heartbeat.ts` | session rows, transcripts, write queues | open, reset, append, compact, archive | reset or compaction during a turn, crash with queued writes | tool calls meet their results; cleared history stays away |
| TON: `ton/*`, `sdk/ton-highload.ts`, `telegram/stars.ts` | transaction lock, query ids, used transactions | transfer, batch, verify a payment | two transfers, crash after the broadcast, wrap of the ids | one seqno or query id per transfer; a payment counts once |
| Bot mode, web UI, management API, storage and search, remote tools, CLI, configuration | mostly none of their own | request handlers, queries, wrappers | | as callers they are the environment of the models |

How they interact: the bridge emits events into the pipeline
(`onNewMessage`, after the tracker has classified outgoing ones); a task of the
chat queue calls the runtime, whose turns go through the turn coordinator;
tools and the pipeline send through the bridge, which registers each send with
the tracker; the lifecycle starts and stops all of it, and on the way down
stops admission, flushes the debouncer, drains the chat queue, then the
coordinator, and disconnects the bridge, which clears the tracker.
Heartbeat, scheduled tasks and the bot enter the coordinator beside the
pipeline.

`PROJECT.json` lists under `hazards` what in this code is hard to test, line by
line, with the properties that watch it.

## 2. Modules

| Module | Role |
|---|---|
| `OutgoingClassifier` | abstract: what an observer may be told about an outgoing message |
| `OutgoingTracker` | the tracker, the tracked sends, flood retries, events, cleanup; Telegram as environment |
| `MCOutgoingTracker` | the instance for TLC |
| `OutgoingTrackerProofs` | theorems about `OutgoingTracker` |
| `TurnGate` | abstract: bounded admission, bounded running, serial sessions |
| `TurnCoordinator` | chains, slots, timers, drain |
| `TurnCoordinatorProofs` | theorems about `TurnCoordinator` |
| `AgentLifecycle` | start and stop with shared promises |
| `AgentLifecycleProofs` | theorems about `AgentLifecycle` |
| `Inbox` | abstract: one turn per chat, only for messages beyond the mark of the chat |
| `MessagePipeline` | debouncer, deduplication, pending history, chat queue, offsets, shutdown, restart |
| `MCMessagePipeline` | the instance for TLC |
| `MessagePipelineProofs` | theorems about `MessagePipeline` |
| `ActionOnce` | abstract: a key is executed once and its outcome is told truthfully |
| `Transcript` | the transcript as a sequence: sanitize, clean cut, compaction |
| `AgentTurn` | turns of one session: loop, recovery, fallback, tool batches, action ledger, transcript, /clear, crash |
| `MCAgentTurn` | the instance for TLC |
| `TranscriptProofs` | lemmas about the operators of `Transcript`, for logs of any length |
| `AgentTurnProofs` | theorems about `AgentTurn`, from those lemmas |
| `ScheduledTasks` | tasks and their dependencies: creation, execution, completion, cascade, trigger, web UI, crash |
| `ScheduledTasksProofs` | theorems about `ScheduledTasks` |
| `PluginReload` | the plugin watcher: queue, reload, rollback, stop |
| `MCPluginReload` | the instance for TLC |
| `PluginReloadProofs` | theorems about `PluginReload` |

An action is one synchronous segment of the event loop. Where the code awaits
something, the model stops and anything may come in between.

### OutgoingTracker

`byRandomId` and `byMessageKey` are the two maps of the store; a record carries
its state, its message id, the in-flight flag and an age (ticks since
`stateUpdatedAt`, saturating beyond the longest window). `pc`, `target`,
`attempt` describe the calls of send methods; `wire`, `origin` the network and
the servers; `polling` and `verdict` the classifications under way and the last
answer for each message.

`StartSend` is `resolveTransportRandomId` with the head of `runTrackedSend`,
`AbandonSend` the throw of `buildInlineMarkup` after the reservation; `Request`,
`RpcOk`, `RpcFloodWait`, `RpcRejected`, `RpcAmbiguous` the outcomes of
`withFloodRetry`, each with the `catch` and `finally` parts; `RawAck` the raw
`UpdateMessageID` stream; `OutgoingEvent`, `PollFinds`, `PollGivesUp` are
`classifyOutgoing`; `CleanupStale` and `Tick` the sweep and the clock;
`Disconnect` and `Connect` the bridge. Telegram (`ServerAccepts`) makes one
message per random id, may accept a request whose caller has given up, and may
repeat acknowledgements. A rejection (definite error) means that this request
made no message, which is what `send-result.ts` says of its error classes.

Abstracted: message contents, the numbers of milliseconds (windows keep their
order only), the duration of the flood gate's cooldown (`waiting` may last any
time), the chat-mismatch branch of `acknowledge`, which only a caller that
confuses chats could reach.

### TurnCoordinator

`pc[t]` is where turn `t` is in `run`: chained behind the previous turn of its
session, queued for a slot, running, settling (its `.finally` callback is due),
done. Turns are numbered in the order of the calls. A waiter that timed out
stays in `slotWaiters` and is remembered in `cancelled`, as in the code, until a
release throws it away. `owed` is a history variable: the turns inside when
`drain` began.

### AgentLifecycle

`pc[c]` is what a call of `start` or `stop` is doing, `on[c]` the call whose
promise it shares. Promise reactions come before other events, so every other
action waits until no resumption is pending (`Quiet`). `agent` is what the
callbacks did: nothing, something, everything. A stop callback may fail, after
a failed start (`CleanupBreaks`) as in a stop (`StopBreaks`): the code logs it
and the state is `stopped` all the same. `remains` says that parts may be up
that such a callback did not take down; a later one may reach them or not.
`stopAgent` has a wait and a call outside of any `try` (`index.ts:1018`, `:1075`)
and only logs what else does not stop (`:1076-1100`), so that this can happen.
`ManyStops` says whether two `stop` calls may wait for the same start.

### MessagePipeline

A delivery is one event of the client for one message; the same message may be
delivered several times. `pc[d]` follows it through `buffered` (debounce
buffer), `blocked` (found the buffer full), `batched` (later message of a
batch), `storing` (awaiting the feed), `chained`, `waiting`, `started`, `turn`
(chat queue) to `dropped`, `answered` or `failed`; `after[d]` is the delivery
it awaits. `lost` is the fate of messages whose buffer `Rebuffer` overwrites,
`gone` that of whatever a restart finds unfinished or not on disk. Ids of
different chats are distinct, and grow with the time stamps by which a batch is
sorted.

Messages are those that reach `handleMessage` from a bridge that needs offsets
(user mode). `analyzeMessage` decides for each event whether the agent may
answer it, from the text of the event and the policies of the moment. Messages
every event of which is for the agent are the constant `Addressed`, those that
an edit or a changed policy decides differently from event to event are
`Fickle`: any of their events may be answered or ignored (`MayAnswer`,
`MayIgnore`). Rate limits (`Turned`) may refuse any. The reply, its feed entry,
the clearing of the pending history and the offset are one step; that is sound
for the properties because the chat's chain keeps the other turns of the chat
out, and a crash between them is the restart in the `turn` state.

### AgentTurn, Transcript and ActionOnce

`pc` and `run` are the attempt in progress and its local variables: the turn
coordinator lets one turn of a session run at a time. `cache` and `file` are the
transcript of the session in the database, in memory and on disk, `flushed` how
much of it is certainly on disk; `status` and `executions` the rows of
`action_executions` and what really happened, `told` what the model was told.
A turn is named by its inbound message (`telegram:chat:message`); a restart may
bring the message again, which is a further attempt at the same turn.

`Begin` and `BeginAfterReset` are `buildTurnContext` up to the load of the
transcript, `AppendUser`, `StartCompaction` and `EndCompaction` the rest of it;
`OutOfTime`, `CallModel`, `ModelReplies` and `ModelAsks` the body of
`runAgenticLoop`; `Retry`, `ContextOverflows`, `RestartSession`, `FallBack` and
`TurnFails` are `recoverLlmError` and `resolveProviderFallback`; `MayStart` is
the schedule of `executeToolBatch`, and `Refuse`, `StartRead`, `EndRead`,
`StartAction`, `EndAction` what `ToolRegistry.execute` does with a call;
`RecordResults` is `recordToolResults` with the end of the loop's body,
`ToolPhaseFails` what throws before a tool runs or between two results and ends
the turn in a process that goes on (`structuredClone` of arguments or
`JSON.stringify` of a result, `tool-batch.ts:66-77`, `:179-223`; missing tools,
`runtime.ts:842`). `torn` is a history variable: the calls whose batch is not
whole in the transcript, because a silent response was not logged or the tool
phase failed. `Clear` is `/clear`, which does not go through the coordinator. A
turn keeps the session id it has read: `run.current` says whether that is still
the session's. A crash keeps a prefix of the queued writes, or all but one whose
write failed.

Abstracted: message texts; the delay of a retry; token counts (compaction and
overflow may come whenever they can); the id of a call is the attempt, the
iteration and the position (the code takes the ids that the provider gives and,
like the model, assumes that they are unique). Two calls of a tool with the same
arguments are the same key, as in the ledger.

### ScheduledTasks

`status`, `parents` and `keep` are the rows of `tasks` and `task_dependencies`;
`wire` counts the deliveries of `[TASK:id]` messages still to come, `at` and
`todo` the executions of a task (several, if its message comes twice) and what
they have still to trigger. A task names only earlier tasks as parents: ids are
random and returned by the creation. `Complete` is one step with the collection
of `onTaskComplete`, because nothing is awaited between them; likewise `Fail`
with its whole cascade (its recursion awaits only itself and database calls are
synchronous). `Trigger` comes later, task by task. `missed` and `tainted` are
history variables: tasks whose message or cancellation nobody owes any more, and
tasks triggered by one that may have run twice.

### PluginReload

A step lasts from one await of `reloadPlugin` to the next: `Fire` to the
installation of dependencies, `Read` to the import, `Validate` to the stop of
the old plugin, `Replace` to the start of the new one, `Started` to the end;
`Restore`, `Restored`, `Disable` are the `catch` block, `Withdraw` its `else`
branch, `Finish` the `finally` block. A module is the directory, the number of
the attempt that read it and the name in its manifest. `db` is the handle a
module holds, `open` those not closed; `adaptPlugin`'s stop takes the handle
away at once and closes it when the plugin's own stop ends, which may be after
the watcher gave up on it (`late`). `sdk` is the cached SDK of a module with the
handle it was made for, 0 if there was no database yet: `getSdk` makes it when
it is first asked for, by a module that makes its tools by a function
(`Factories`) in `Validate`, before `Migrate`. `overdue` are modules of the first
load whose start timed out when a rollback put them back: it goes on and may
register hooks, once at a time, with the registry in use (`LateStart`). The hooks
of a start of a reloaded module that timed out go to its candidate registry, which
nobody reads any more.

Abstracted: a module whose tools are an array asks for its SDK in its start (one
without a start never has an SDK to ask for); the SDK of a module goes when the
module does.

## 3. Runs

| Run | Instance | Shows |
|---|---|---|
| `outgoing` | 2 random ids in 2 chats, 1 message id per chat, 2 calls, 1 flood retry, windows 0/0/1 ticks, retries on, 1 disconnect (332k states) | all properties of the tracker and the refinement |
| `turns` | 4 turns, 3 sessions, 1 slot, 3 admitted, queue wait of 1 tick (255k states) | all properties of the coordinator and the refinement |
| `lifecycle` | 4 callers, `ManyStops = FALSE`, with failing starts, cleanups and stops (396 states) | all properties of the lifecycle |
| `lifecycle_double_stop` | 3 callers, `ManyStops = TRUE` | finding: two stop callbacks at once |
| `pipeline` | 3 deliveries of 3 messages, in a group one for the agent and one that is fickle, one in a private chat, buffer 2, 1 recent id, history 1, 1 slot, 2 admitted, 1 restart (214k states) | all properties of the pipeline and the refinement |
| `pipeline_drain` | the same with buffer 1, 2 recent ids and no restart | finding: disconnect before the queue is empty |
| `pipeline_retry` | as `pipeline_drain` | finding: a failed message is dropped as a duplicate |
| `agent_turn` | 2 turns, 2 attempts, 2 iterations, 1 rate-limit retry, 1 fallback, a read with an action and a blocked silent action, 2 entries kept by a compaction (658k states) | all properties of the agent turn and the refinement |
| `agent_turn_silent` | the same | finding: results without their calls in the context |
| `scheduled_tasks` | 3 tasks, 2 dependents each, 2 runs, 1 duplicate, 1 edit, 1 crash (245k states) | all properties of the scheduled tasks |
| `plugin_reload` | 2 directories, one of which may take the name of the other, 3 edits modules of a first change make tools by a function (895k states) | all properties of the watcher |
| `plugin_reload_sdk` | the same | finding: an SDK without a database |

The properties are stated, with the behaviour of the code they are about, at
the end of each module. In short:

* tracker: `IndexesAgree`, `ExactClassification`, `IdleSendingIsBound`,
  `ActiveSendNeverExpired`, `FirstRejectionMeansNeverSent`,
  `AbandonedRecordsExpire` (liveness), `ImplementsClassifier`;
* coordinator: `OneTurnPerSession`, `CountersExact`, `NoIdleSlot`,
  `DrainCoversAll`, `EveryTurnSettles` (liveness), `ImplementsGate`;
* lifecycle: `OneCallback`, `StateTruthful`, `StopReturnsWhenDown`,
  `EveryCallReturns` (liveness);
* pipeline: `QueueExact`, `OneTaskPerChat`, `PromptIsNotContext`,
  `NoSecondTurn`, `EveryDeliveryEnds` (liveness), `ImplementsInbox`;
* agent turn: `ContextSound` (in every call of the model the tool calls of whole
  batches have their results right behind them, and nothing cleared is there),
  `RestartRepairs` (what is read from the disk is well formed without exception),
  `NoFallbackAfterAction`, `HangsOnlyInActions` (liveness),
  `ImplementsActionOnce`;
* scheduled tasks: `OneRunInOrder` (one message and one run per task, after its
  parents), `EveryoneElseRuns` (liveness: only a task with a cause waits);
* plugins: `RestIsConsistent`, `StopIsFinal`, `EveryEditIsTried` (liveness).

For every property `PROJECT.json` names a mutant, a plausible bug in the code
(the definition next to the one it replaces), that makes it fail.

**Why the bounds suffice.** Two chats with one message id make the keys of
different chats meet; two calls are a send and its retry, or two sends. Four
turns let one turn run, a second wait behind it in its session and two more
time out in the queue around it. Four callers are a start, a stop and two that
share. In the pipeline a recent-id set of one forgets at once what the real set
of bounded size forgets later, so that a duplicate can be in the queue beside
its original, and that a fickle message comes back as a prompt; one slot and two
chats exercise the handover; three deliveries of one chat exercise the chain
entry. `Rebuffer` can only *lose* somebody's
message with one more delivery or a buffer of one (`pipeline_drain`'s
instance).

In `agent_turn` two attempts are a turn and its replay after a crash, or two
turns that share a transcript; two iterations let a batch be followed by a call
of the model that sees it, and a recovery come before or after; the two kinds of
response exercise the order of a read before an action, a veto, a response
that is not logged, and a batch of two of whose results one is recorded. Two kept entries make compaction cut inside a batch. Three
tasks are a chain, a fork or a join (two parents that complete together); a
diamond needs four, but each of its tasks sees one of these three shapes. Two
runs of a task are its own and a duplicate's. Three edits let one start a
reload, a second come during it and a third during the queue's timer; the
handles (one more than edits) never run out, which `TypeOK` says and is proved.

**Deadlock** is checked for the lifecycle. The other models stop by design when
the bounded calls or deliveries are used up; there the liveness properties say
that nothing is stuck.

**Fairness.** Weak fairness of the steps the event loop takes by itself: timers
(`Tick`, `CleanupStale`, `FlushTimer`), promise reactions, and the end of
awaited work (a turn's task, feed writes, callbacks). The last is justified by
bounds in the code: the agentic loop bounds its iterations and its requests
time out, Telegram calls have retries and timeouts. Nothing forces a caller to
call, Telegram to deliver, a `stop`, a disconnect or a restart to happen, and
the tracker's own calls are not assumed to end: `AbandonedRecordsExpire`
speaks of records without an active call.

`AgentTurn` assumes that everything a turn awaits settles but an action: the
provider's requests and reads are cut off by timers, transcript writes and
compaction by their own, and only actions are, on purpose, never raced against
a timeout (`registry.ts:369`). `ScheduledTasks` assumes that messages arrive and
turns and requests settle (an action that hangs is outside). `PluginReload`
assumes that timers fire and that stop and start settle or time out after 30 s,
as in the code; `npm ci` has a timeout of its own, the evaluation of a plugin's
file has none and is assumed to end. A plugin's own stop that timed out is not
assumed to end, nor does anybody have to edit a file or call stop().

## 4. Proofs

All for every value of the constants, from the assumptions of the modules only.

**OutgoingTracker.** The inductive invariant of the classification is `Core`:
an absent record has no binding (`BlankRecords`), the two indexes describe the
same bindings (`IndexesAgree`), a record is bound to a message its random id
made (`BindingsTrue`), and only such messages are indexed or classified
programmatic (`ExactClassification`). None of them is inductive alone: an entry
of the index stays right because the record is, the record because messages are
never rewritten, and both because every removal goes through both maps. The
actions fall into three kinds, which have a lemma each: those that leave all
bindings alone, those that bind one record, those that remove records. The
other properties add `CallsConsistent` (what a call may have on the wire),
`InFlightMarked` (the record of an active call is in flight, and no other call
uses it, which needs `~Overlap`), `MessagesHaveRequests` (a message of the agent
was requested by a call that is not rejected) and, for the refinement,
`PolledExist`. `TrackerImplementsClassifier` maps every step to a step of
`OutgoingClassifier` or a stutter.

**TurnCoordinator.** `Types`, `Queue` (the waiters of `slotWaiters` are exactly
the queued turns, each once, and the cancelled ones; nobody waits for a free
slot), `CountersExact`, `Chain` (each live turn that is not the oldest of its
session is chained behind an older one of it, the links never branch, the chain
entry is the youngest) and `Drain` (what is owed is behind something awaited).
Serial sessions follow from `Chain`: everything but the oldest turn of a session
waits behind a turn that is not done. The refinement uses `CountersExact` to
turn the counters into the cardinalities of the gate.

**AgentLifecycle.** The inductive invariant is a disjunction, `Phases`: in each
state of the machine at most one call runs a callback and everybody else is idle
or waits for exactly that call, and a stopped agent is down but for what a stop
callback failed on. `CallbacksExclusive`,
`StateIsTruthful` and `StopsReturnWhenDown` follow, all under `~ManyStops`:
without it they are false, which is the finding.

**MessagePipeline.** `Sound` gives the types and says that what lies in a buffer is
a buffered delivery of its chat; that a buffer keeps within its limit is
inductive with the types. `Slots` says that the
line of waiting tasks holds each waiting delivery once and that the counters
count. The chain of a chat is `Chained`: there is a rank for the deliveries in
the queue such that the entry of the chat's chain has the highest of its chat,
and every delivery that is not the lowest is chained behind one that ranks
between. The number of a delivery would not do as its rank, because a delivery
that waits for a full buffer or for its feed entry is overtaken. `OneTaskPerChat`
and the refinement follow from it. `Answers` says that the cached offset of a
chat is at or beyond every answered message and below the turn under way, from
which `NoSecondTurn` follows, restarts included. `PromptIsNotContext` is
inductive with these: a message of `Addressed` is ignored only because it was
answered.

**Transcript.** `Sanitize`, `Compact` and `Without` are folds and cuts of a
sequence of any length, so the lemmas about them need induction. The library's
induction theorems take a predicate as a parameter and cannot be used here.
`TranscriptProofs` states induction about a *set* of numbers (`Induction`, from
the well-foundedness of the naturals) and of sequences (`SeqInduction`, along
`Append`), and each proof gives the set of those for which its claim holds;
`FoldExists` shows that the recursive function a fold chooses exists. `SanitizeSound` (what a restart reads is well
formed, holds only what was on disk, and nothing that was not logged),
`CutSound` (a lost tail or entry), `CompactSound` (a clean cut with a summary in
front of it) and `WithoutConcat` are what the rest uses. The key to the first is
`Sifted`: in the scan, what is kept is well formed, and the open batch is a message
with calls, followed by the results of exactly those of its calls that are not
open. The key to the third is `WellFormedSuffix`: a suffix of a well-formed log
without orphaned results is well formed, if no call is made twice.

**AgentTurn.** `Types` has the type of every local variable of a turn; an
iteration is given back only where the model was called (`pc` is `model` or
`archiving`), so that it is not zero. `NoFallbackAfterAction` needs that `acted`
implies `attempted` outside a batch, and inside it implies that some call of the
batch acts and was not blocked (`ActsKnowingly`). `ImplementsActionOnce` needs
the schedule: nothing runs before the calls in front of it were looked at, an
action runs alone, and its row is open (`BatchRuns`); so the row that
`EndAction` finishes is the one that its start opened, and `executions` is one
exactly for the keys that have a row (`OneExecution`). `ContextSound` has the
invariant `LogsSound`: both transcripts, and the context of a turn that may
still be compacted, have no call twice and only calls that are logged
(`Stored`); they are well formed, together with the results that are still to be
recorded, without the calls in `torn` (`Shown`), which a failing tool phase
extends by its whole batch; every id belongs to an earlier
attempt or an iteration in which the model has answered (`Used`), so that a new
batch is new to all of them, although a recovery gives its iteration back; and
what was cleared is in none of them unless revived (`Forgotten`). `RestartRepairs`
needs no exception: `SanitizeSound` holds for anything on the disk.

**ScheduledTasks.** A task is collected for a message when its last parent
completes. `Order` says that a task has run only if its parents are over, and
that a task that is done has an execution that reached its end behind it. `Calls`
says that a message was sent for a task, or is still to be, only if all its
parents have such an execution, that one execution at most still has to send it
and none once it was sent, and that a task runs as often as messages for it
arrived, but for messages that came twice (`again`) and what they trigger
(`tainted`). `OneRunInOrder` follows.

**PluginReload.** `Queues` counts the reads of a directory against its changes
and orders the end: after `stop` no timers, then no change to report, then no
reload. `Plugins` says, phase by phase, what a reload has taken down and put up
(`Reloading`), and what SDK each module has; between reloads that is `AtRest`,
which is `RestIsConsistent`. The hooks of late starts lie on top of the others, so
that every statement about hooks speaks of those that are not of `overdue`
modules.
`HandlesFew` bounds the open handles of a module by the reloads of its directory,
so that a reload always finds a handle to open.

**Model-checked only.** Liveness (`AbandonedRecordsExpire`, `EveryTurnSettles`,
`EveryCallReturns`, `EveryDeliveryEnds`, `HangsOnlyInActions`,
`EveryoneElseRuns`, `EveryEditIsTried`), which is out of the prover's reach.
Every other property of a passing run is a theorem.

## 5. Findings

1. `lifecycle_double_stop`: two `stop` calls that wait for the same start both
   run the stop callback, against `lifecycle.ts:103`. The model assumes in the
   passing run that this does not happen; the mode switch of the web UI and the
   process shutdown can do it.
2. `pipeline_drain`: the shutdown waits for the queue but not for messages
   between debouncer and queue, against `index.ts:1040`.
3. `pipeline_retry`: a message whose turn failed is dropped when it is delivered
   again, against the name of the test at `telegram/__tests__/handlers.test.ts:771`.
4. `agent_turn_silent`: a response whose text is a silent reply is not written
   to the transcript, with the tool calls it makes, but the results of those
   calls are (`agent/client.ts:81`, `agent/loop/tool-batch.ts:251`). The next
   turn reads them from memory, where nothing sanitizes them, against the comment
   at `session/transcript.ts:99`.
5. `plugin_reload_sdk`: the watcher asks a candidate for its tools
   (`plugin-watcher.ts:244`) before it migrates it (`:275`), so that a plugin whose
   tools come from a function keeps an SDK with `db` and `storage` null
   (`plugin-loader.ts:210-224`, `sdk/index.ts:113`, `:119`), against
   `packages/sdk/README.md:68-69` and unlike the first load
   (`plugin-orchestrator.ts:52-53`). The databases of the start context and of the
   tools' context are right; a rollback of such a plugin makes a new SDK.

Three more are exceptions that properties of the passing runs name, without a run
of their own:

* A record stays in `SENDING` and is never removed after a raw acknowledgement, an
  ambiguous failure, an allowed retry and its success (`outgoing-tracker.ts:157`),
  against the comment at `outgoing-tracker.ts:285`. `IdleSendingAlwaysBound` proves
  that this is the only way it happens. It takes a server that answers the retry
  with success, and no production caller passes `transportRandomId` yet.
* A stop callback that throws, or fails to stop a part, is logged and the state is
  `stopped` (`lifecycle.ts:84-86`, `:135-136`), also for a `stop` call that waited
  for a failed start and is told nothing (`lifecycle.ts:125`: "agent is already
  stopped"). As `stop` does nothing in the state `stopped`, it cannot be tried
  again. `StateTruthful` and `StopReturnsWhenDown` except what it left up
  (`remains`).
* A tool phase that fails in the running process leaves the calls of its batch in
  the transcript without all their results (arguments of a hook that cannot be
  copied, a result that cannot be serialized, missing tools: `tool-batch.ts:66-77`,
  `:179-223`, `runtime.ts:842`), and the next turn shows them to the model.
  `ContextSound` says that of the behaviours modelled only this and finding 4
  break the promise of `session/transcript.ts:99`, and only for their own batches
  (`torn`); `RestartRepairs` says that a restart mends it.

Seen on the way and not claimed by any run: a message whose buffer is
overwritten while it was being flushed is lost (`debounce.ts:66`); group
messages that arrive during a turn are dropped from the pending history
(`handlers.ts:713`); a message that was ignored, and so is in the pending history,
becomes a prompt too when an edit or a changed policy makes it one for the agent
after its id was forgotten (`handlers.ts:448`, `index.ts:695-701`; `Fickle`); an
answer is repeated when the process ends between the reply and its offset; a
message overtaken by a later one of its chat counts as
already processed (`handlers.ts:515`); a batch is handled message by message
although `docs/telegram-setup.md` speaks of a single processing cycle
(`index.ts:673`).

In the agent turn: after a compaction the user message is in the transcript
twice (`runtime.ts:626-636`, the compacted transcript holds it already); a
`/clear` while a compaction runs is undone, the compacted history becomes that
of the session (`runtime.ts:628`; the model marks it in `revived`, the one
exception of `ClearedIsForgotten`).

In scheduled tasks: a task with `skipOnParentFailure: false` is not cancelled
when its parent fails, but never runs either, as `canExecute` wants every parent
done (`create-scheduled-task.ts:83-85` says otherwise); a task created after its
parents were done is never triggered, one created after a parent failed is never
cancelled; a trigger that cannot be sent fails the task but not what waits for
it (`task-dependency-resolver.ts:206`); a message that comes twice runs a task
twice, also after a cancellation, which it overwrites.

In plugins: a candidate whose start fails is never stopped, its database stays
open (`plugin-watcher.ts:343-348` speaks of "no partial runtime state"); a
plugin disabled after a failed rollback keeps running with its database open;
an import that never settles blocks every reload and stop(); a plugin of the first
load whose start times out in a rollback may register hooks after it was disabled
(`plugin-watcher.ts:323-331`; `overdue` is the exception that `RestIsConsistent` and
`StopIsFinal` name). The watcher finds
a module by directory or by name, so that a manifest with the name of another
directory would be reloaded in its place: `PluginAssumption` excludes it. The
index of the module is taken before the awaits and used after them
(`plugin-watcher.ts:195`, `:304`; `marketplace.ts:359` likewise), which is right
only while nobody else removes one.

In supervision: `TonProxyManager.stop()` during a restart lets a child be
spawned afterwards.

## 6. Plan

Done, in this order: tracker, coordinator, lifecycle, pipeline, agent turn,
scheduled tasks, plugin reload; and the proofs of all their safety properties
and refinements. What would say more in proofs:

1. Exact statements of the findings: which mix of calls is needed for two stop
   callbacks, and that a message can be lost only where `Rebuffer` overwrites a
   buffer.
2. That `Sanitize` loses no complete batch (it is sound now, not complete), and
   that `Compact` keeps at least the given number of entries.
3. Causes instead of liveness: that a task waits only with a cause
   (`EveryoneElseRuns`) has a safety half, that every pending task which is not
   stranded has somebody who owes it a message.

And the parts still to be modelled, if a sitting carries them: GiftLedger
(credited once, a review applied once), RunnerSupervisor and TonProxyManager (no
child after stop), FloodGate (its comment at `flood-retry.ts:78` and its code
differ), installation from the marketplace beside the watcher, the TON
transaction lock and query ids.

## 7. Not modelled

See the components of `PROJECT.json`. Storage, search, schema and the tools are
data or remote I/O; the web UI, the API and the CLI hold no state of their own;
bot mode leaves deduplication to its library. In the modelled parts: admin
commands, gifts, anonymous-bot subscribers and the paused state, which leave the
pipeline before its queue (scheduled tasks do too, and have a module of their
own); a second start of the agent
in the same process; the expiry of the pending history by age; plugin hooks but their veto of a tool call; in the agent turn streaming,
traces, masking and truncation of results, tool discovery, and the deletion of
ledger rows after 30 days; in scheduled tasks rows without their creator, the
triggers of bot mode and of an account that does not know its own id, the kinds of payload and cleaning in bulk; in plugins the
first load, the marketplace and clashes between names of tools.
