# Verification of agent-threads: journals, streams, turns, schedules, updates and what survives a failure

agent-threads runs coding agents ("threads") from an Obsidian/Geode plugin. A thread may run on a
*daemon*: the agent session then lives in the daemon, which journals every event of it; the plugin
follows the journal over a WebSocket and keeps its own transcript. Either side may crash, the
connection may drop at any point, and a thread is expected to carry on as if nothing had happened.
A thread may also run beside the plugin, in a process that fails and is restarted under it. Work may be scheduled for later,
across reloads of the plugin, and the daemon replaces its own bundle.
Those promises are where the system is hard to test, and they are what these TLA+ modules are about.

## 1. Inventory

| Part (source) | State it keeps | Operations | Talks to |
|---|---|---|---|
| In-memory journal (`src/protocol/journal.ts`, `journalPolicy.ts`) | entries, `lastSeq`, `lowWater`, `ackedSeq`, folded checkpoint | append, replay, checkpoint, ack, compact, restore | disk journal |
| Disk journal (`daemon/diskJournal.ts`) | line buffer, flush timer, log, sidecar index, epoch chain | append, flush, rewrite, ack, compact, close, recover, rewindFor | thread host, connection |
| Thread host and drivers (`daemon/threadHost.ts`, `claudeDriver.ts`) | driver per thread, session recipe, accepted message ids, generation | open, send, interrupt, resolve, close, reap, recover | journal, host tools, harness |
| Connection (`daemon/connection.ts`) | subscriptions, control queue, auth | hello, attach, ack, commands, live delivery | host, control registry, command cache |
| Control seat (`daemon/controlRegistry.ts`) | seat owner per thread | claim, release, releaseAll | connection, host tools |
| Command cache (`daemon/cmdCache.ts`) | replies and running commands by id | get, set, track, sweep | connection |
| Host tools (`daemon/hostTools.ts`, `src/remote/hostToolExecutor.ts`) | open calls with timers, manifests and owners; on the plugin, calls run and remembered | call, resolve, cancel, time out, set manifest, run, reopen | control seat, journal, remote session |
| Daemon client (`src/remote/DaemonClient.ts`) | socket, commands in flight, subscription with cursor, epoch, ack target | connect, command, attach, rewind, ack | connection, remote session |
| Remote session (`src/remote/RemoteHarnessSession.ts`) | mirrored state, queued sends, open requests, persisted cursor | start, follow, send, events, rewind, resync, detach, close | daemon client, thread manager |
| Saving (`src/main.ts` `saveSettings`, `src/remote/persistAck.ts`) | save generations, `data.json` | request a save, save loop, ack afterwards | thread manager |
| Thread manager (`src/ThreadManager.ts`) | threads, sessions, queues, session generation | send, events of a session, interrupt, rebuild, delete, archive, resume remote turns | all session kinds |
| Local session (`src/ThreadSession.ts`) | Query with its input channel, turn flag, last turn, retry budgets, pending compaction | start, send, prepare, interrupt, restart, close, and the pump of the agent's output | agent process, thread manager |
| Scheduler (`src/Scheduler.ts`, `ScheduleCoordinator.ts`) | scheduled items with revisions and claims, timers, the coordinator's queue and registrations | create, update, delete, replace all, fire, claim, authorize, abandon, finalize | thread manager, `data.json` |
| Daemon update (`daemon/update/`, `daemon/cmd/update.ts`) | bundle and saved bundles, `update.json` (marker, rollback, held release), request file, lock | check, stage, mark, swap, boot guard, health watch, rollback, restart when idle | process supervisor, shell |
| Plugin persistence (`src/PersistenceWriterFence.ts`, `VaultPersistence.ts`, ...) | owner of `data.json`, write queues | claim, admit, drain, write | files |
| Skills, MCP sync, secrets, OAuth, relay, local-daemon management, browser pool, other local harnesses, views | own files, sockets, processes | see `PROJECT.json` | external programs |

What makes it hard, and where the hazard list of `PROJECT.json` points:

* *crashes between two writes* of the daemon (log line, fsync, rename, sidecar index) and a numbering
  that must never reuse what a client or an ack relies on;
* *two folds of one history*: entries may be evicted or compacted away while the checkpoint
  must still represent them, in memory and after a restart;
* *cursors that outlive the history they were taken in*: subscription cursor, persisted cursor and
  ack target, each moved by events, rewinds and resyncs, and saved with a transcript that must agree;
* *timers against answers*, *reconnection against stale connections*, *retries against restarts*
  (host tools, control seat, sends, schedules, updates);
* *two generations of one plugin*: a reload starts a new one while awaited continuations of the old one are
  still running, and both share a coordinator, a fence and a file;
* *awaits in a send*: a local turn is a chain of questions to a process that may answer, fail or be stopped at each of
  them, while other sends, results and retries share its session, its flag and its channel;
* *two updaters of one bundle* (daemon and shell) and a guard that is itself part of what it guards.

What makes each part correct: the journal keeps *one* history and says so when it cannot replay all
of it; a stream delivers that history once, in order, and completely; an ack covers only what is on
the other side's disk; a send runs once, or ends with an error the user sees; a host tool call ends and is answered by who holds the
seat; a schedule fires once for each time it is due and is not forgotten; an update that does not start is
left again.

## 2. Modules

### `Journal.tla` — the journal as operators

Entries are records `[seq, role, req, by]`: the sequence number, what `classifyWireEvent` makes of
the event, the request it opens or closes, and the daemon process that produced it. The two
`session.state` values the daemon tells apart are the roles `busy` and `idle`. `DropFinishedAckedTokens`,
`Fold`/`Live` (the checkpoint as the set of entries it would carry), `RecordEpoch` and
`RewindPoints` translate `dropFinishedAckedTokens`, `fold`, `recordEpoch` and `rewindFor`.
`Live(es)` is the declarative reading of the checkpoint of a history; `Fold` computes it one event at
a time, as the code does, and `CheckpointIsLive` relates the two after evictions and restarts.

### `DiskJournal.tla` — one thread's journal through crashes

State: the in-memory journal, the writer (buffer, timer, `needsRewrite`, the low-water marks last
written, the epoch chain), and the disk (`file` = whole records of the log, `durable` = those a
power loss cannot take, `idx` = the sidecar). JavaScript runs each operation to its end, so only a crash can
come between two writes: `pc` names the write an operation has reached (`flush`, `index`), `resume`
where it continues, and every operation is followed by `WriteFile` and `WriteIdx` before the next may
start.

| Action | Code |
|---|---|
| `AppendEvent`, `Notify` | `DiskJournal.append`: number, enforce bounds, fold, buffer, flush or arm the timer; then the listeners |
| `FlushTimer`, `Ack`, `Compact`, `Close` | the operations of the same names |
| `WriteFile` | `flush`: rewrite (temporary file, fsync, rename) or append the buffer, with fsync if asked |
| `WriteIdx` | `writeIdx` |
| `WriteFails` | a write throws; `ClaudeDriver.emit` catches it and the daemon goes on |
| `Crash(k)`, `PowerLoss(k)` | the process or the machine dies; the first whole lines of a write in progress may stay, unsynced lines may go |
| `Open` | `recover`: read index and log, restore, extend the epoch chain, persist it before serving |

History variables: `timeline` (every event no crash took back, evicted or not), `shown` (every
event a listener got), `shed` (evicted events the log has let go of).

Abstractions: how many bytes or days of events there are is not modelled; each append and each
compaction may evict any prefix. A damaged line in the middle of the log, a damaged sidecar, and a write
that throws after part of it reached the file are not modelled: `WriteFails` happens before its file changes.

### `RemoteStream.tla` — the stream, end to end

The daemon as its clients see it (log, checkpoint, epoch chain, the session that emits), the connection
(frames to the plugin as one FIFO, commands served in order), the plugin's subscription, session,
transcript and half-streamed text, and the plugin's disk.

| Action | Code |
|---|---|
| `Send`, `Emit` | `ThreadHost.send` with cold resume; `ClaudeDriver`: output, the end of the turn, then in a later callback the idle state |
| `Compact`, `Restart` | retention; a daemon that dies together with the next one's `recover` (a cut-off turn is closed out) |
| `Connect`, `Drop` | a welcomed socket re-attaches every subscription; a lost one loses both directions |
| `ServeAttach`, `ServeOpen` | `Connection.attach`: rewind, then replay or checkpoint, then live; `session.open` |
| `Receive` | `ReceiveOpened`, `ReceiveAttached`, `ReceiveEvent`, `ReceiveResync`: `ensureOpen`, the attach reply with its rewind, `onEvent`, `onResync` |
| `Start`, `Detach`, `Quit` | the session's life; a plugin that ends starts from what it saved and follows a pending turn at once |
| `BeginSave`, `FinishSave`, `SendAck` | `saveThenAck`, `notifyPersisted`, the debounced ack |

Abstractions: control frames may overtake buffered events in the code and do not here; a lost
`session.open` is asked for again on the next connection and `send` is one step with its arrival; requests
and host tools are left out; `onError` + `onInterrupted` of a recovered turn are one `turn_end`; a
daemon's death and the next one's recovery are one step, because a client cannot tell a dead daemon
from a slow one. An event is handled in one step: a save that a callback asks for is written after the handler has returned, so it contains
all of the event or none of it. The attach reply sets the epoch of the subscription and of the session together; an attach that is refused
or times out is left out (the next connection attaches again). Half-written journal states are `DiskJournal`'s subject.

### `HostToolBroker.tla`, `HostTools.tla` — tools of the plugin, called by the agent

An agent on the daemon may call a tool that only the plugin has. `HostToolBroker` translates
`daemon/hostTools.ts` as operators on a record: what each call has come to (`waiting` for a client, `issued`,
`done`), whether a client is attached, and the calls whose grace or answer timer is armed. `HostTools` is the
system around it: the seat (`seat`), the connection whose manifest stands (`owner`), connections the
daemon holds open, the journal of calls and their closing events, two installs of the plugin with their
sockets, unanswered commands and unread frames, what each session believes (`controller`, `opened`), its
cursor, deferred calls, and the executor.

| Action | Code |
|---|---|
| `CallTool`, `TimerFires`, `AbortCall` | `HostToolBroker.call`, `fail`, `cancel` |
| `CleanUp(n)` | `Connection.cleanup`: the daemon notices a dead connection and releases its seat |
| `Crash` | the daemon dies; `recover` expires the journal's open requests |
| `ServeAttach`, `ServeOpen`, `ServeControl`, `ServeManifest`, `ServeResult` | `Connection.onCommand` and the handlers; `ServeOpen` answers a command it served before from the command cache |
| `Connect`, `Drop`, `CommandTimesOut` | `DaemonClient.onWelcome` (attach, then commands without a reply again), `dropSocket`, the command timer |
| `Start`, `Control`, `Quit` | `RemoteHarnessSession.start`, a user's command (after `ensureOpen`), a plugin that ends and starts again |
| `Receive`, `Tell` | a frame is handled; later the promise of the reply it carried continues (`onAttached`, `ensureOpen`) |
| `Decide`, `Return`, `FlushDeferred` | `HostToolExecutor.run` at its two awaits; the settle timer of replayed calls |

`Receive` and `Tell` are two actions because the desktop socket hands over all frames of a chunk before any promise
continues. A socket may be dead for one side long before the other notices: `Drop` and `CleanUp` are independent.

Abstractions: a manifest is identified with the connection that sent it; gates, approval card and refusal
are the two outcomes of `Decide`; the manifest is sent in the step that connects (the code awaits `tools.manifest()` first); a
dead socket's unread commands are gone with it (the daemon may still read what it had buffered); commands other than `session.open` are not cached (serving a
manifest, a setting or an answer twice changes nothing the properties see); a command is given up
only once its connection is gone; the thread exists on the daemon from the start and its session ends only
with a crash (no close, reaping or detach); a failing journal append inside `issue` is left out.

### `Schedules.tla` — scheduled items through reloads and crashes

One item, the generations of the plugin (a reload makes a new one), and what they share: the coordinator (`item`, `regs`,
`adapter`, `queue`), the writer fence, the save loop (`pass`) and `data.json` (`disk`). Each generation has its settings, its own copy
of the item (`local`), a timer (`wake`) and a `fire()` in progress (`fire`). Time is a slot number: an item is due
at a slot, on time in it and a stale miss after it.

| Action | Code |
|---|---|
| `Wake`, `WakeSkips`, `WakeWhileFiring`, `Missed` | a timer or calendar task calls `fire()`; outside the active hours or on top of a run; under the firing guard; `execution:missed` |
| `BeginOp` with `Claim`, `Authorize`, `Abandon`, `Finalize`, `Update`; `BeginReplaceAll` | an operation of `ScheduleCoordinator` up to its save |
| `WriteDone`, `WriteFails`, `OtherSave` | `runSaveLoop`: a write of `data.json` ends and tells its waiters |
| `Claimed` ... `FinalizeFails` | `fire()` after each of its awaits: claim, gate, authorize, send, abandon, finalize |
| `Edit`, `Delete`, `Create`, `Detach` and `Edited`, `Deleted`, `Created`, `Detached` | the cron tools and `detachProject`, each with its continuation |
| `Unload`, `ClaimFence`, `Start`, `Crash`, `Tick` | the life of a generation; time |

What runs in the microtask queue runs before any other event (`Quiet`). `mishaps` records what went wrong so far, so
that a property can say exactly which disturbances it excepts; an edit before the end of an earlier operation, which will arm the item as that
operation left it, is one of them (`Overtakes`).

Abstractions: calendars, intervals and active hours are reduced to "the next slot"; a busy target thread only delays
`Wake`; several items share the coordinator's queue and nothing else, so one is enough; the optional
`claimFire` hook is not set by the plugin. A one-shot outside its active hours moves to their opening, a later slot; one that is
"busy" with its own earlier run keeps its time, and needs an edit during that run to come due at all (`"edited"`).

### `DaemonUpdate.tla` — the daemon replaces its own bundle

State: the bundle on disk and the saved ones (`prev[v]` is the version whose bytes are in `prev-<v>`), `update.json`
(`marker`, `paused`, `held`), the request file, the process (`proc`, `run`, `watch`, `pending`), and what each of
the two updaters is doing (`job`).

| Action | Code |
|---|---|
| `Stage`, `Mark`, `Swap`, `SwapFails`, `HeldBack`, `StageFails` | `applyUpdate`, by the daemon or by the shell: keep the old bundle, write the marker, rename |
| `Invoke`, `Apply`, `Interrupted` | `agent-threads update --apply` |
| `ConsumeRequest`, `Check`, `Restart` | the parts of `AutoUpdater`'s tick |
| `BootUnguarded`, `BootCounted`, `BootRestores`, `Restored`, `BootGivesUp` | `evaluateBoot`: count the start, or put the saved bundle back and record it |
| `Listening`, `Healthy`, `Wedged`, `Dies` | `startDaemon`, `watchHealth` at its deadline, the end of the process |
| `Publish`, `Quieter` | a release appears; the idle gate |

Abstractions: a download with its checksum and `--version` check is inside `Stage`; a lock whose owner died is
free; back-off and the status file are left out; a release starts always or never.

### `Sends.tla` — a message on its way to a turn

The client's queue and attempts (`queued`, `awaiting`, `known`, `opening`, `retries`), the commands of `DaemonClient` without a
reply, the socket in both directions, and the daemon's side: the turn, the accepted ids, the command cache.

| Action | Code |
|---|---|
| `Send`, `Stop` | `RemoteHarnessSession.send`, `interrupt` |
| `Opened`, `RetryTimer`, `Reply`, `Silence` | an attempt becomes a command; retry after a refusal; the reply; 30 s without one |
| `OnEvent` | `onState` and what ends a turn, the queue it releases, `settleSendFlag` |
| `OnCommand` | `Connection.onCommand`: command cache, then `ThreadHost.send` or `interrupt` |
| `TurnEnds`, `SayIdle` | `ClaudeDriver`: the end of a turn and, in a later callback, the idle state |
| `ConnectionLost`, `Reconnected`, `CacheExpires`, `DaemonRestarts` | the socket and the daemon |

Abstractions: the thread's events arrive in order and once (that is `RemoteStream`'s result); the client keeps its
seat; of an event only what it says of the turn is kept; the refusals that cannot be retried (too many sessions, a spec that is no longer
valid, nothing to resume) are all `"conflict"`; an interrupt and the end of the turn it stops are one step; `told` counts the queued messages that a
failed turn drops under its one error.

### `LocalTurns.tla` — turns of an agent beside the plugin

A message is the number of its `sendMessage()`, and `send` says at which await that call is and which session object it holds.
`ses` are the `ThreadSession` objects with their agent processes: what was pushed and not read (`pipe`), what is worked on
(`work`), and the fields of the class. A thread has `shown` messages, `pending` ones and a conversation to resume (`id`).

| Action | Code |
|---|---|
| `SendMessage`, `Probed`, `Synced`, `Usage`, `Push` | `ThreadManager.sendMessage` up to each of its awaits: the MCP probe of an idle session, rebuild or reuse, `setModel` and `setPermissionMode`, `prepareForSend` with its `/compact`, `send` |
| `Reads`, `Stops`, `TurnFails`, `Exits` | the agent process: reads its input, hears a stop, ends a turn with an error, goes when its input has ended |
| `Answers`, `Fails` | `case 'result'` of the pump with `onDone`, `onInterrupted`, `onError` |
| `StoppedByFailure`, `AuthRetried`, `ResumeRetried`, `RateLimited`, `StreamClosed`, `Breaks` | the pump's `catch`, one action for each way out |
| `BackoffEnds`, `Replay` | after the wait of a rate limit; the turn that is sent again |
| `Finalise` | the `finally` of a pump whose Query was closed |
| `Interrupt`, `RequestSessionRestart`, `DeleteThread` | the operations of the same names |

Continuations run before any other event (`Quiet`). A result ends the turn of the oldest input, or of everything the agent has read
when it took several messages for one turn; `held` are messages that a restart left in the resumed conversation. `odd` records
what went wrong so far, so that a property can say what it excepts: a second compaction took the first one's resolver (`"overwritten"`), a replaced
session was opened again (`"revived"`), a failure of the plugin's own turn repeats an answered message (`"again"`), a stop during a
backoff (`"stuck"`), a second failure in one pump says nothing (`"silent"`), a result and a message crossed (`"crossed"`), another turn's
result ended a compaction (`"swallowed"`), a stop ended a compaction and not the send that waits for it (`"abandoned"`), a result with more
queued named only its own message (`"unnamed"`). What a resumed conversation still holds (`held`) is worked on with the next input; `Resumed`
is what is left of it after a result.

Abstractions: the agent answers control requests in any order, or they fail with it; the API refuses a request only while the agent works; one
rate-limit wait at a time for each session; a closed Query ends without an error. Left out: a `start` that fails, working-directory changes,
plan and goal gates, the queue of a busy thread, a sign-in followed by a resend, managed policies, remote sends, and what a turn says.

### `EventHistory.tla` — what a journal promises

The abstract specification of one thread's history: it grows at its end, a subscriber is shown its newest event, an
acknowledgement covers only numbers that are never given out again, and a loss takes the end of it without
anything a subscriber was shown that ends or blocks a turn. `DiskJournal` implements it with `known <- timeline` and
`acked <- idx.ackedSeq`, and its own `shown`.

### `Subsequences.tla` — what a filter keeps

`Picked(s, positions)`: the elements of a sequence at the given positions, in their order, which is what `Array.prototype.filter` returns. `HostToolBroker` and
`HostTools` (entries of several calls, replayed calls, commands without an attach), `RemoteStream` (what `replay` sends) and `Sends` (commands without a
reply, what a lost connection leaves of the frames) use it in the place of
`SelectSeq`, which takes an operator, so that nothing could be proved about it.

The modules named `MC...` hold the constants' values for TLC; those named `..._proofs` hold the theorems of section 4.

## 3. What TLC checks

| Run | Question | Result |
|---|---|---|
| `disk_journal` | what does a thread's journal retain through appends, acks, evictions, a crash and a restart? | 4 properties hold |
| `disk_journal_crashes` | does it keep one history through any mixture of evictions, failed writes, crashes and power losses, and implement `EventHistory`? | 5 properties hold |
| `remote_stream` | do events reach transcript, disk and ack in order and once? | 4 properties hold |
| `remote_stream_live` | is nothing skipped over more daemon processes than the chain remembers, and does a followed thread catch up once failures stop? | 2 properties hold |
| `host_tools` | do seat, sessions, running tools and journal agree with two installs on one thread? | 4 properties hold |
| `host_tools_restart` | does every call end, and reach the controller, across a crash, a restart and a reconnection? | 2 properties hold |
| `schedules` | does an item run once per due time, under a durable claim, and is it never forgotten? | 5 properties hold |
| `daemon_update` | is a new bundle guarded until confirmed, a confirmed one kept, a bad one left? | 4 properties hold |
| `sends` | does each message run once, in order, or is the user told? | 5 properties hold |
| `local_turns` | is every message to a local agent answered or reported, through stops, compactions, failures, retries and rebuilds? | 5 properties hold |
| `schedule_orphan_claim`, `update_previous` | statements of docs and comments that the code contradicts | violated, see section 5 |

**Journal properties.** `OneHistory`: no two surviving events share a seq and nothing retained was taken back.
`NoHoleAboveShed`: above `lowWater` only tokens of finished turns are missing, or events the log itself
let go of in a crash window. `ShownBoundarySurvives`: a turn's outcome a client saw is never lost, power
loss included. `RewindReachesReuse`: whoever was shown an event whose seq is now another's is sent back
behind it. `CheckpointIsLive` and `CheckpointOutlivesEviction`: the checkpoint carries only live facts, all retained
ones, and never loses one to eviction. `AckedSeqIsFinal`: a recorded ack never covers a seq given out later.
`ImplementsHistory`: the journal is a refinement of `EventHistory`.

**Stream properties.** `InOrderOnce`: no message twice, none before an older one. `NothingSkippedWhenRewound`:
caught up means everything at or below the cursor was applied, as long as `session.open` did not replace an epoch
the daemon would have rewound (section 5, no. 6) and the client was not away for more daemon processes than the epoch chain
remembers (`Forgotten`: a cursor of an epoch the chain has let go of is not sent back, and its seqs may have been given out again). `SavedCursorCovered`: the saved cursor never runs ahead of the
saved transcript. `AckedIsSaved`: an ack never covers a message that no save contains. `StreamedOnce`:
the half-streamed text repeats nothing, and lacks nothing until the plugin restarts.

**Host tool properties.** `NeverHangs`: an open call always has the timer that ends it, whichever way seat, manifest and
answers move. `JournalAgrees`: the requests clients see open are those the daemon waits for, and each is
closed once. `ControllerHasSeat`: a session that has handled everything it was sent and takes itself for the controller
has the seat, unless a cached reply told it so (no. 8). `OnlySeatHolderRuns`: nobody else starts a tool.
`CanceledIsAborted`: a controller is not at work on a canceled call. `NothingIssuedIsLost`: it is at work on,
or has answered, every issued call it did not ignore (no. 9).

**Schedule properties.** `RunsOncePerSlot`: the work due at a slot is dispatched once, and a one-shot once in all, whatever
reloads, crashes, skips and failed writes come between and however many schedulers are awake. `DurableBeforeDispatch`: when it is dispatched, `data.json`
holds the claim. `NothingRunsWhenOff`: after a confirmed disable or deletion nothing is dispatched, not by a `fire()` that waits
for its gate, not by the next generation. `SavedMeansWritten`: an operation is told that it is saved by a write that
holds its result. `NotForgotten`: an enabled item at rest is armed for the time the coordinator has, and carries
no claim nobody works on. Each excepts the mishaps it names.

**Update properties.** `Guarded`: a bundle an apply installed has the marker until it is confirmed. `ConfirmedIsKept`: a
confirmed release is not taken away. `PausedAfterRollback`: the daemon does not install by itself what the guard took away.
`LeavesBadRelease` (liveness): a release that does not start is left in the end.

**Send properties.** `RunsOnce`: a message has one turn for the life of a daemon. `InOrder`: turns run in the order of
sending. `TakenBack`: a message taken back, or reported as failed, does not run later. `AtRest`: with nothing in
flight, client and daemon agree on the turn and nothing waits in the queue. `Settled` (liveness): every message runs
or the user is told.

**Local turn properties.** `NothingForgotten`: when nothing is going on, every message in the transcript was answered, is followed by
an error, or was in a channel that a retry or a rebuild emptied (section 5). `RunningIsReal`: the running flag is set while the agent has something to do, and only while an agent or a
timer is going to clear it. `ReplayedIsUnanswered`: a retry never repeats an answered message. `OnlyStopPops`: messages leave the
transcript only by a stop or a deletion, and never after their answer. `EverySendEnds` (liveness): every `sendMessage()` reaches
an agent or gives its caller an error. Each excepts the entries of `odd` it names.

**Bounds.** `disk_journal`: three seqs, two daemon processes, token/message/request opened and closed, a
checkpoint of one message: an entry evicted, one compacted and one retained around a crash.
`disk_journal_crashes`: two seqs, three daemon processes, an epoch chain of three links, one failed write,
token/message/request events: two crashes with a reused seq, an evicted and a compacted entry.
`remote_stream`: four seqs (a cold start's `idle`, `busy`, and two events of a turn), two
daemon processes, one drop, quit or detach. `remote_stream_live`: three seqs, since liveness checking
costs more, and three daemon processes with a chain of two, so that an epoch is forgotten; with four seqs (14.6 million states) `NothingSkippedWhenRewound` holds too. `host_tools`: two symmetric installs, one call, two connections, one command of a user. `host_tools_restart`: one
install, two calls, two connections, one crash, one restart. `schedules`: a one-shot and a calendar item (an interval takes
the calendar's steps without `Missed`), two generations, two slots (on time, then stale), one cron tool call, one failed or foreign save:
an old `fire()` beside a new scheduler, with an edit or a failure between any two awaits; `LateTools` is off (with it the exception `"late"` hides what it adds). `daemon_update`: four releases, the third of another protocol, the others good or bad in every
combination, two failed starts, two mishaps: a rollback followed by a newer release and a second update, with a crash in each.
`sends`: three messages (one running, two queued), one stop, two attempts, two remembered ids (one fewer than messages), two faults.
`local_turns`: two messages (one at work or being retried, one anywhere in its send), one stop, one failure, one reason to rebuild, two compactions, one
deletion, retry budgets of one; so the exhausted budgets and `"silent"`, which need a second failure, are not reached. With two failures and two
compactions (1.8 million states) the same four safety properties hold.
Each mutant in `PROJECT.json` is found inside its run's bounds. `MaxSeq`, `MaxEpoch`, `MaxFailures`, `MaxLeaves`, `MaxCalls`, `MaxConn`, `MaxCrashes`,
`MaxQuits`, `MaxControls`, `MaxGen`, `MaxSlot`, `MaxEdits`, `MaxUpsets`, `MaxRev`, `MaxMishaps`, `MaxSends`, `MaxStops`, `MaxFaults`,
`MaxRebuilds`, `MaxCompacts`, `MaxDeletes` bound counters in guards
only; `MaxChain` is the code's `MAX_EPOCH_HISTORY` (16), `SeenKept` its `SEEN_SENDS_KEPT` (64), `PrevRetained` and `MaxFailedBoots` the constants
of the same names, `RateRetries` (5), `StreamRetries` (1) and `AuthRetries` (1) the budgets of `LocalTurns`. Deadlock is not checked: every model stops when its bounds are used up.

**Fairness.** `RemoteStream`: weak fairness of `Connect` (reconnect timers re-arm until a socket opens), `ServeAttach`,
`ServeOpen` and `Receive` (the event loops serve frames that arrived); nothing obliges the agent to continue, the user to
start a thread, or a save to happen. `DaemonUpdate`: weak fairness of `Boot` (the supervisor starts a daemon that exited and the guard finishes what it
began), `Listening` and `Wedged` (the health deadline is a timer); no apply, request, publication or quiet moment has to happen.
`Sends`: weak fairness of `Opened`, `RetryTimer`, `Reply`, `OnEvent`, `OnCommand`, `SayIdle`, `Reconnected` (timers and event loops) and of
`TurnEnds` (an agent's turn ends); the user need not act and no fault has to occur.
`LocalTurns`: weak fairness of the continuations (`Probed`, `Synced`, `Usage`, `Push`: a control request is answered, times out or fails with its process), of
the agent (`Reads`, `Answers`, `Stops`) and of `Settling` (timers fire, closed Queries end); no failure, stop or rebuild has to occur.

## 4. What TLAPS proves

For every value of the constants (any number of events, processes, crashes, clients, calls, messages, stops, failures, releases):

**The journal.** `DiskJournal_proofs`:

* `TypeCorrect`: `Spec => []TypeOK`.
* `HistoryIsOne`: `Spec => []OneHistory`. `OneHistory` is not inductive: a crash decides which events
  survive from what is in the log, in the buffer and in the sidecar, so the invariant (`HistoryInv`) also says
  where each surviving event is recorded and that every source of the next numbering (`idx.lastSeq`, the
  log's tail, the memory) lies at or above every surviving seq it must not repeat.
* `AckedIsFinal`: `Spec => AckedSeqIsFinal`, from `HistoryInv` and `AckInv` (the recorded ack never exceeds the
  recorded `lastSeq`, and memory never falls behind the record).
* `BoundarySurvives`: `Spec => []ShownBoundarySurvives`, from `BoundaryInv`: a boundary event is durable, or
  evicted below a durable mark, or not shown yet because its operation is still between its writes.
* `RewindReaches`: `Spec => []RewindReachesReuse`. `RewindInv` says it of both epoch chains, the recorded one and
  the running process's, which differ between a recovery and its first write of the sidecar: whatever was shown and reused lies above the start of the link after its
  producer's, for as long as that producer is remembered. `ProducersInv`: a running process has lost nothing it produced itself.
* `Refines`: `Spec => ImplementsHistory`. Beyond the invariants above it needs `SuffixInv`: what a
  crash or a power loss can take (the buffer, and lines without an fsync) is always the end of the history. Each action then
  maps to `Happens`, `Shows`, `Acknowledges`, `Loses` or a stutter.
* `NothingElseMissing`: `Spec => []NoHoleAboveShed`. `RetentionInv` says why each missing event is missing in memory,
  and on disk; the lemma `GapsExplained` shows that evicting and compacting in one step leaves no gap without a reason.
* `CheckpointAgrees` and `CheckpointOutlives`: `Spec => []CheckpointIsLive` and `Spec => CheckpointOutlivesEviction`. The
  checkpoint is folded one event at a time and rebuilt from what is retained after a restart; `CheckpointInv` relates it to the whole surviving history.
  `LiveInPart` (what is live in a history is live in any part that holds it) carries it over evictions and restarts, and `ShedInv` keeps out
  what the log has let go of.

**The stream.** `RemoteStream_proofs`: `NeverTwice`, `NeverSkipped`, `TextStreamedOnce`, that is `Spec => []InOrderOnce`,
`[]NothingSkippedWhenRewound`, `[]StreamedOnce`. Both sides' numbers mean something only together with the process they were taken in, so the
invariant has five parts. *The history* (`HistoryInv`, `TokensInv`, `ChainInv`): it is numbered upwards by processes that succeed each other, and the
chain's starts tell apart what they recorded. *The session* (`SessionInv`): the persisted cursor never passes the
subscription's. *The transcript* (`StoryInv`): a message it has is at or below the cursor, or older than everything the daemon may still
send; this holds of the saved transcript and of a save in flight, too, from which a plugin starts again. *What was applied* (`WholeInv`): all up
to the cursor, of its process and before. *The wire* (`WireInv`): the answer to an attach comes first, a resync is not behind what was applied, and
every event is on the wire or will have been passed. `StreamInv` adds the half-streamed text. There is one step for each action and each kind of frame.

**Host tools.** `HostTools_proofs`:

* `CallsNeverHang`: `Spec => []NeverHangs`. The invariant (`BrokerInv`) adds the broker's type; one lemma for each operation of the broker shows that
  it keeps the timers, and `ReconciledSound` that every change of seat or manifest leaves the broker counting a client as attached
  exactly when the owner of the manifest has the seat.
* `ControllersHaveSeat`: `Spec => []ControllerHasSeat`. `SeatStands` accounts for what is on its way: a reply that granted the seat stands for as long as
  the daemon holds the connection, and a session that is the controller while no attach is open has the seat.
* `OnlySeatHoldersRun`: `Spec => OnlySeatHolderRuns`, from `SeatStands` and `AskingControls` (a call that waits for its approval belongs to a
  controller, or is aborted).
* `JournalsAgree`: `Spec => []JournalAgrees`. `Journaled` relates the open requests of the journal to the broker's issued calls, one entry at a time;
  closing several at once (a crash, a thread that ends) needs the order of the entries, which `Picked` keeps.
* `CanceledStops`: `Spec => []CanceledIsAborted`. `Follow` says what a session has been told: the frames on their way to it skip no event, a session
  that follows the thread has had or is being sent all of them, and a call that is reopened is closed only by an event that comes after its frame.
  `Work` says what it does with that: a call kept for later was not closed by any event it has applied, and one it is at work on, and has not aborted, belongs to a
  controller and was not canceled by any of them. Starting a reopened or a deferred call keeps `Work` only because of `Follow` and of `OnceEach` (a call is closed
  once, after it was made).
* `TypesHold`: `Spec => []TypeOK`.

**Local turns.** `LocalTurns_proofs`: `InvHolds` and, from it, `NoMessageForgotten`, `RunningTold`, `RetriesUnanswered`, `StopPops`, that is `Spec => []NothingForgotten`,
`[]RunningIsReal`, `[]ReplayedIsUnanswered` and `Spec => OnlyStopPops`. The invariant says of each session that its fields fit its Query (`Tidy`), that a replaced one is gone and the
running flag true (`Orderly`), that nothing answered is left in it (`Unanswered`); of all of them that a message is in one session only (`Owned`); and
that a message which is shown and not settled is on its way or in the thread's own session (`Remembered`), each with
the exceptions it needs. Most of the actions change one session and its queue, so what such a change owes the invariant is stated once
(`SoundChange`, `KeepingChange`, `Delivers`), and each way out of the pump is shown to be one.

**Sends.** `Sends_proofs`:

* `SendsInOrder`, `ClientKnowsAtRest` and `TakenBackNeverRuns`: `Spec => []InOrder`, `Spec => []AtRest`, `Spec => TakenBack`, each for `MaxFaults <= SeenKept`: no
  more connections are lost than the daemon remembers accepted ids (64), and without that a message may run again. The invariant `Good` holds as
  long as no send was given up and the daemon did not restart, and says where a message is. `Phase`: the client is idle, has asked for a turn, or knows of
  one, and in each of these the turn, the events on their way and the daemon's next emission are what is left of one turn's life. `OnePending`,
  `Numbered`, `Ordered`: one attempt of one message at a time, and what is queued is newer than all that was let go of. `Delivered`, `Replied`, `Cached`: a command
  without a reply is on its way, or its reply is, or the connection is down; a reply tells the truth about its message, also when it comes from the
  cache. `Owed` is where `MaxFaults` comes in: a message that ran and whose reply the client lacks has no more successors than connections were lost
  since, because the client asks for a turn only when it knows how the last one ended. So the repeated command finds its id among
  the last `SeenKept` (`Latest`).
* `TypeCorrect`: `Spec => []TypeOK`, whatever is given up, lost or forgotten: it needs that an attempt is in one place only (`OnePlace`) and that only
  what was sent is accepted, run or reported (`Limits`).

**Updates.** `DaemonUpdate_proofs`:

* `TypeCorrect` and `NewBundleGuarded`: `Spec => []TypeOK` and `Spec => []Guarded`. `Guarded` needs that two updaters are never
  at once between marker and rename (`LockInv`), that the marker names what its owner is about to install (`MarkerInv`), and what the
  guard may have done in between (`GuardInv`).
* `ConfirmedStays`: `Spec => ConfirmedIsKept`. `KeptInv`: nothing confirmed is newer than the bundle, or than the version the marker would put back,
  and what runs is one of the two.
* `StaysPaused`: `Spec => PausedAfterRollback`. `RollbackInv`: what was taken away is older than what is published or is the paused release,
  unless its rollback is still to be recorded; and no installation that is under way is of a release older than that.

**Schedules.** `Schedules_proofs`: `TypeCorrect`, `SavedIsWritten`, `ClaimIsDurable`, `OffStaysOff`, `RunsOnce`, `StaysArmed`, that is `Spec => []TypeOK`,
`Spec => SavedMeansWritten`, `Spec => DurableBeforeDispatch`, `Spec => NothingRunsWhenOff`, `Spec => []RunsOncePerSlot`, `Spec => []NotForgotten`. The queue's entries, the `fire()`s
and the copies of the item describe each other, so the invariant is built in layers, each with the exceptions of the property it serves:

* `OrderlyInv`: a generation that never started has nothing, only the head of the queue has begun, and what it waits for is the write in
  progress (`Life`); an entry that belongs to a `fire()` is what that `fire()` waits for, and each has one entry at most (`Matched`); a granted authorization
  still stands when it is answered (`AuthorizedOK`), no write is in progress after a failed one (`FailedOK`), no `fire()` is ahead of the time
  (`DueOK`), and the token of a claim is held by one `fire()` (`Tokens`).
* `Saved`: the settings an operation saves through hold its result, so does the write it waits for, and when it is answered so does the file.
* `Durable`: while a `fire()` that has not sent yet holds the coordinator's claim, every copy that may come into force carries its token. `Lives(c)` says which
  these are: the coordinator's, that in `data.json`, those in the settings of the fence's owner and in a write in progress.
* `NothingRunsWhenOff`: a confirmed disable leaves no copy that lives enabled, a deletion leaves none (`Stopped`), because the answer that confirms it says so
  (`Said`), and a new item is nowhere until it is created (`Blank`, `Creating`).
* `RunsOncePerSlot` has two reasons. The claim of a recurring item moves it to a later slot in the same step, so a granted `fire()` is behind
  every copy that lives (`PastGranted`), two granted ones have different slots (`GrantedOnce`), and a claim is in the copies before it is answered (`ClaimSaved`). A
  one-shot keeps the time it is due at, so its token must keep later claims out: once it is claimed every copy that lives has that token (`OnceCopies`,
  `OnceHeld`), a claim is granted only when no other is held (`OnceAlone`), and after the dispatch the `fire()` that has the token can only remove the item, not release
  it (`OnceSpent`, `OnceAgrees`). `OnceOrder` and `OnceQuiet`: no edit waits behind the authorization or beside the end of a run, unless `"edited"` is set.
* `NotForgotten` is about runs in which nothing has gone wrong (`Calm`). Then only the scheduler that is loaded is armed, runs anything or has entries in the queue
  (`Lone`, `Own`); settings, the write in progress and the file keep up with the item (`InStep`), each operation answers with it (`Answered`) and is saved
  unless there was nothing to update (`Unfailed`, `Unsaved`). A claim on the item, or in any copy of it, has a `fire()` that works on it (`Claimant`, `Attended`). The
  scheduler's own copy is the item and is armed, or an edit in the queue is about to make it so (`Armed`, `Arming`, `Making`), because an edit stands behind
  nothing but a claim (`EditsFirst`).

**Sequences.** `Subsequences_proofs`: what `Picked` returns is in order and has just the chosen elements. It is defined by recursion, so this takes an
induction: `SetInduction` is proved there for sets of numbers, by the least number outside of one, because the library's induction theorems take an
operator and none of the installed provers can instantiate them.

The assumptions are `JournalAssumption`, `DiskJournalAssumption`, `RemoteStreamAssumption`, `BrokerAssumption`, `HostToolsAssumption` and the
`BoundsAssumption` of `DaemonUpdate`, `LocalTurns`, `Schedules` and `Sends` (the constants have their types, the epoch chain keeps at least two links, a thread is deleted at most once),
and the `AbsentAssumption` of `Schedules` (what stands for no item is not an item), which TLC
evaluates in every run. Each invariant was checked by TLC before it was proved, each proof has one step per action, and the temporal step is the last one.

**Model-checked only**, and why:

* `CatchesUp`, `LeavesBadRelease`, `Settled`, `EverySendEnds`: liveness under fairness and `ENABLED` are outside what the provers do.
* `RunsOnce` (`Sends`) after a send was given up. Before that `SendsInOrder` gives it (what runs in the order of sending runs once). Afterwards a message that was
  given up may still be on its way beside its successors, so that neither the order nor the phases of `Good` hold any more.
* `NothingIssuedIsLost` (`HostTools`) is checked with one install. With two of them and three connections TLC finds it violated: a session that loses the seat drops
  the calls it deferred (`flushDeferred`) and has its answers refused; when a user's command gives it the seat back, no attach reopens those calls, and
  they wait out their answer timers. The exception for ignored calls does not cover this, and a wider one would say nothing.
* `SavedCursorCovered` and `AckedIsSaved` (`RemoteStream`): a checkpoint carries the newest `CheckpointMessages` messages (20), and a plugin that missed more than
  those lacks the others, by design; in the run no history is longer than a checkpoint.

`TypeOK` of the disk journal is in a run; those of the host tools, the updates and the local turns are proved (the last one as a part of `InvHolds`), the stream's is covered by
`InvHolds`, those of the sends and the schedules by their `TypeCorrect`.


## 5. Where code and comments disagree

With a run that shows it:

1. `MissedOnceFires` — a renderer that dies between the durable claim and the send leaves its token on the item; every later claim is refused, and
   a one-shot, which "must fire" when missed (`src/src/Scheduler.ts:352`), never does.
2. `PreviousComesBack` — shell and daemon may apply the same release one after the other; the second saves the new bundle as the previous
   one, and the guard puts the failed release back, without a guard this time.
Stated in the modules (the property is defined there, TLC finds it violated) and without a run of its own:

3. `RunsOnceEver` (`Sends`) — accepted ids and cached replies live in one daemon process: a message whose reply was lost runs again when the
   daemon restarts before the client repeats it, although "a retry cannot run a turn twice" (`docs/remote-daemon.md:1182`).
4. `NoSilentGap` (`DiskJournal`) — `flush` renames the rewritten log before it writes the new `lowWater`. A crash between the
   two leaves a mark below evicted events; a cursor in between is replayed past a hole instead of being told to resync.
5. `OpenRequestOutlivesRecord` (`DiskJournal`) — the checkpoint is folded from retained entries at restart, so an evicted
   open request is forgotten and never expired.
6. `NothingSkipped` (`RemoteStream`) — `start()` stores the new daemon's epoch from `session.open` before it subscribes, so the
   attach is not rewound and events under reused seqs are skipped.
7. `SettledWhenCaughtUp` (`RemoteStream`) — a thread re-attached between the end of a turn and its idle state stays "running".
8. `ControllerIsSeatHolder` (`HostTools`) — an observer's `session.open` is served, its reply is lost with the connection, another install takes
   the freed seat; on the next connection the command cache repeats the old reply and the observer takes itself
   for the controller, so both installs run every tool call.
9. `IssuedReachesController` (`HostTools`) — a call that arrives in one chunk with the reply to the attach is handled before the session hears
   that it has the seat, and is ignored for as long as the connection lives; the call waits out its answer timer.
10. `SkippedIsAdvanced` (`Schedules`) — a stale miss moves only the scheduler's own copy on (`src/src/Scheduler.ts:350`), so the claim of the next slot names a
    time the coordinator does not have (`src/src/ScheduleCoordinator.ts:158`) and is refused.

11. `SettledIsAnswered` (`LocalTurns`) — `onDone` says that "every user message pushed since the last settlement" has "now been
    answered" (`src/src/ThreadManager.ts:2847-2849`). A message pushed while the result is on its way is settled by it too, and a stop after that
    leaves it in the transcript, unanswered; one pushed during a rate-limit backoff is dropped when the retry empties the channel (`src/src/ThreadSession.ts:1209`) and
    settled by the retried turn's result.
12. `SettledIsIdle` (`LocalTurns`) — listeners are told that a settled thread is not running (`src/src/ThreadManager.ts:3289-3293`). A stop during a
    backoff (`src/src/ThreadSession.ts:1204`) reports the interruption and leaves the turn flag set, with the failed Query still open: the thread stays
    "running", no rebuild or reaper touches it, and later messages go into a channel nobody reads.
13. `OneQuery` (`LocalTurns`) — "there is only ever one `Query` per thread" (`src/src/ThreadSession.ts:82`). A send that awaits an answer of a session which another
    send rebuilds, or a deletion closes, opens that session again (`src/src/ThreadManager.ts:2367`), beside its successor.

Smaller ones are what the properties' exceptions name. *Journal and stream:* an append whose flush throws has
journaled its event and never hands it to subscribers (`WriteFails` after `AppendEvent`); a resync inside an
assistant message persists a cursor inside it, so that a restart shows only its tail (`ReceiveResync`). *Schedules:* a save is
reported done though the fence turned it away at a reload (`"fenced"`); a late tool call registers a destroyed scheduler
again (`"late"`); `detachProject` may put back an item that was claimed or finished meanwhile (`"replaced"`); a one-shot edited, or skipped, during its run
runs again (`"edited"`); an item whose claim or final state could not be saved is not armed again (`"failure"`); an item that is enabled while an abandon, a finalize or another
update of it is being saved is disarmed, or armed for an older time, by that operation's continuation (`src/src/Scheduler.ts:797`, `:876`, `:1012`; `"overtaken"`); a stale
miss saves the scheduler's own copy, which may undo a disable (`"missed"`); an update that ends after a deletion puts
the item back into the scheduler's list (`Edited`). *Updates:* an apply over an unconfirmed bundle takes its marker away, also when the apply then
fails (`"superseded"`); a crash between the rename of a rollback and its record lets the failed release be applied again (`"cut_short"`); the
record of a rollback clears the marker of an apply that came between (`"crossed"`). *Sends:* after a send that was given up the order may change
and a queued message may wait for the user's next one (`"unconfirmed"`); an attempt already on its way at a stop is not taken back; a turn that
fails drops the messages queued behind it. *Local turns:* two sends that both find the context full share one resolver, and the first
waits for ever (`"overwritten"`); so does a send whose compaction was stopped (`"abandoned"`); a failure during the plugin's `/compact` repeats the
last message, answered or not (`"again"`); a turn's result that arrives while a compaction is pending is taken for its end, and nothing
tells the thread (`"swallowed"`); a rebuild closes a session whose turn flag was cleared while a message was still on its way to the agent.

## 6. Plan

*Done:* `Journal`, `DiskJournal`, `EventHistory`, `RemoteStream`, `HostToolBroker`, `HostTools`, `Schedules`, `DaemonUpdate`, `Sends`, `LocalTurns`, and
the theorems of section 4.

*Next:*

1. Gates in front of a local turn: goal revisions, plan approval, the queue of a thread, working-directory changes; two failures in the `local_turns` run.
2. Proofs: `RunsOnce` of the sends after one was given up.
3. An abstract stream (a client that has applied a prefix of a history) that `RemoteStream` implements; requests (permissions and questions)
   and reaping in the daemon's model.

## 7. Not modelled

The Codex and OpenCode adapters and `ClaudeSession` follow the external programs they drive; the relay forwards
frames without state; skills, MCP sync, secrets and OAuth replace small files or keychain entries whole; container
supervision and the browser pool drive external processes; views have no protocol state. `PROJECT.json` names each with its reason.
