# Orca: verification of its concurrent core

Orca runs many coding agents side by side, each in a terminal of its own. Agents (or a person)
coordinate the others through tasks, dispatches, decision gates and messages; terminals live in a
daemon and survive the application; worktrees on other machines are reached over SSH through a
relay; automations start agents on a schedule. This directory holds TLA+ models of these parts, the
TLC runs that check them, and TLAPS proofs about them. Paths below are relative to the repository.

- [Inventory](#inventory)
- [The modules](#the-modules)
- [What the runs check](#what-the-runs-check)
- [Fairness](#fairness)
- [What is proved](#what-is-proved)
- [Where the code and its documentation disagree](#where-the-code-and-its-documentation-disagree)
- [What is not modelled](#what-is-not-modelled)
- [Plan](#plan)

## Inventory

| component | state | operations | hard behaviour | what makes it correct |
|---|---|---|---|---|
| Orchestration database (`src/main/runtime/orchestration/db.ts`) | tables `tasks`, `dispatch_contexts`, `decision_gates`, `coordinator_runs`, `messages` | create, update, dispatch, fail, gate, resolve, reset | any client calls any method in any order; no method looks at more than one or two of the tables | one open dispatch per terminal; a dispatched task is backed by its latest dispatch; closed dispatches stay closed |
| Lifecycle reconciliation (`lifecycle-reconciliation.ts`) | none of its own | accept, reject or suppress `worker_done` and `heartbeat` | stale, duplicated and foreign signals; handles reissued by a restart | a completion closes the dispatch it names; heartbeats do not outlive their dispatch |
| Coordinator loop (`coordinator.ts`) | `stopped`, `failedTasks`, the locals of a tick | messages, gates, dispatch of ready tasks, convergence | five awaits in a tick, snapshots used across them | the concurrency limit, gates that block, no terminal leaked, the run ends |
| RPC methods (`rpc/methods/orchestration*.ts`) | `activeCoordinator` | send, check, reply, ask, task and gate methods, run, runStop | long polls with time-outs and aborts; two awaits in dispatch | wake-ups are not lost; an answer beats its deadline |
| Message delivery and exits (`orca-runtime.ts`) | waiters, `lastAgentStatus`, 500 ms timers | push on idle, notify, wait, fail on exit | the timer races new messages, failed writes and idle transitions | nothing is stamped unseen, everything surfaces |
| Terminal daemon (`src/main/daemon/session.ts`, `terminal-host.ts`, `terminal-session-teardown.ts`) | sessions by id, their queue of early input, pause, kill timers and teardown operations | create, attach, write, pause, kill (graceful or immediate), shut down | readiness time-out, a snapshot of descendants awaited during a kill, refused signals, a late exit | one shell per id; an acknowledged kill is done; no signal to a reaped process; input in order; pauses and kills end |
| Terminal history (`daemon-pty-adapter.ts`, `history-manager.ts`, `terminal-history-log.ts`, `history-reader.ts`) | dirty flags and the pass in flight; `meta.json`, `checkpoint.json`, `output.log` | take, append, full checkpoint, restore, sleep, quit | two processes and a disk that fail separately, at every await | a restore shows the beginning of what some shell showed; sleep keeps the screen |
| SSH (`src/main/ssh/ssh-channel-multiplexer.ts`) and remote relay (`src/relay/dispatcher.ts`) | request table, sequence numbers, unacknowledged frames; handlers and their abort signals | request, cancel, respond, keep alive, dispose, detach | late responses, sleep of the machine, a connection that dies unnoticed | each request settles once, by its own execution; the health check is fair; no work for nobody |
| Automations (`src/main/automations/service.ts`, the store's automation methods, the two observers in the renderer) | automations with `nextRunAt`, run rows with retention, `evaluating`, `rendererReady` | evaluate, dispatch, complete, collect usage, edit, delete | awaits inside a tick, pages that reload, a crash between two writes, eviction | an occurrence is launched once; a report finds its run; what is due is handled |
| Mobile relay (`src/main/runtime/relay/`) | pairings, revocation outbox | pair, revoke, reconnect | offline revocation | a revoked device stays revoked |
| Everything else (Git, code hosts, accounts, renderer, CLI, mobile client, ...) | external processes, UI stores | | | listed in `PROJECT.json` with the reason it is left out |

The parts of the orchestration meet in the database. The RPC methods, the coordinator loop and the
exit handler of the runtime all call its methods, and all of them run on one JavaScript event loop:
a method is atomic, and the interleaving points are the awaits. Workers are agents in terminals;
they reach the system through the CLI (`orchestration send`, `check`, `ask`), that is, through the
RPC methods, or by exiting. Messages are rows; they become visible by being pasted into the
terminal of an idle agent, or by being read.

The daemon is a process of its own: the application asks it over a local socket to create sessions
and takes their output in passes, so that a restart of either finds the other or the files on disk.
The relay is a process on the other machine, reached over one channel that carries frames in order.
The scheduler of automations runs in the application and launches through the renderer, or, on a
server, by itself. These parts share no state with one another or with the orchestration but the
terminals they start, and are modelled one by one, each together with the peer it talks to.

The hazards of this code, each at its line and with the properties aimed at it, are listed in
`PROJECT.json`.

## The modules

### `TaskBoard`: the database as an abstract machine

`tasks`, `dispatches` and `gates` are the tables as sequences of rows; a row's id is its position,
which is also its `rowid`, the order by which the code finds "the latest" context. Columns that no
statement tests (titles, timestamps, results) are left out. A pane key is its leaf id, the part
`isEquivalentPaneKey` compares; `NoPane` is a NULL key.

There is one action per method, with the method's statements as its primed variables:
`CreateTask`, `UpdateTask`, `CreateDispatchContext`, `FailDispatch`, `CreateGate`, `ResolveGate`,
`TimeoutGate`, `ResetTasks`, the whole of `reconcileWorkerDoneMessage` (`AcceptsWorkerDone`,
`WorkerDone`), and `BlockGatedTasks`, the writes of `processDecisionGates`. `BoardNext` lets anybody
call anything at any time. So `BoardSpec` is what the database promises to *every* client, and it
is the abstract specification that the coordinator is shown to implement.

`UpdateTask` takes the statuses of the constant `Manual`: which of them an operator sets by hand is
an assumption about people, not about code, and `NoGhostDispatch` depends on it.

### `Coordinator`: the loop and everything beside it

Extends `TaskBoard` and calls its actions. The loop's locals are the variables `todo` and `avail`
(ready tasks and listed terminals of this tick that were not used yet), `slots`, `cur` (the dispatch
whose prompt is being written), `stopped` and `failedTasks`; `pc` names the await it stands at:

| `pc` | in the code |
|---|---|
| `top` | `await this.sleep(...)`, or before the first tick |
| `messages` | inside `processMessages`; nobody else runs, one message is one step |
| `listing` | `await this.runtime.listTerminals` |
| `creating` | `await this.runtime.createTerminal` |
| `probing` | `await this.runtime.probeWorktreeDrift` |
| `sending` | `await this.runtime.sendTerminalAgentPrompt` |
| `off` | no loop |

`EndMessages` is the synchronous rest of the tick after its messages: gates, then the snapshots of
ready tasks and free slots. `NextTask` is the head of the `for` loop of `dispatchReadyTasks` and
`EndTick` is `checkConvergence` with what `executeLoop` does about it, including the final write of
the run row. Tasks are tried in the order of their rows; the order in which the runtime lists
terminals is left open. The operator's actions are the RPC methods; `OperatorDispatches` stops at the await of
the prompt and `InjectAccepted` or `InjectRejected` continue it. `Restart` kills the loop and every
promise, leaves the tables and the run row, and reissues every handle: a handle is
`<<pane, epoch>>`. (The code may find a living terminal's handle again,
`adoptControllerTerminalHandle`, `orca-runtime.ts:5762`; the model keeps to the harder case.)

An agent's exit has two forms. `AgentExit` is `onPtyExit` of a terminal with a leaf in the
renderer's graph, with `failActiveDispatchOnExit` and its lookup by handle only. `AgentExitUnseen`
is the exit of a terminal without a leaf: the loop over `getLeavesForPty` (`orca-runtime.ts:8776`)
has nothing to do, no dispatch is failed and nobody is told. `orca serve` has no renderer, a
background terminal may not be adopted yet, and a window that closes or reloads clears the graph with
its handles; yet such terminals are listed as workers, the loop creates them itself, and prompts
are written to them. Leaves come and go while a terminal runs, so the choice is left open at
every exit. When an unseen exit falls into the await of a prompt, the prompt is rejected or was
written before: the latter is the same as an exit that follows its acceptance (`CanAccept`), since
an unseen exit changes nothing else.

`faults` is a history variable (what really went wrong for a task), `glitches` a counter that
bounds failing calls. `MCCoordinator` gives the panes the handles of `MaxRestarts` restarts.

### `Mailbox`: messages to one handle

`messages` holds the rows addressed to one terminal handle with their independent bits `read` and
`delivered`; `calls` the callers of `check` and `ask` with the waiter each one registered; `timers`
the pastes whose Enter is 500 ms away; `status` and `writable` the leaf's `lastAgentStatus` and
whether a write succeeds. `Settled` is the event loop's rule that a resolved promise continues
before the next event is taken. `Send` is the whole handler: insert, reconcile, push if idle, wake.
The push does not change what a woken `check` sees, so both are one step. `ExitEscalation` is the
row of the exit handler, which wakes nobody. A read reconciles what it returns once more
(`ReadAndReturn`), which stamps a late heartbeat delivered too.

The handle is one of a terminal with a leaf. A push needs it (`orca-runtime.ts:6548`, `22335`,
`22925-22928`): to a headless terminal nothing is ever pasted, and its messages wait until the agent
calls `check`.

Four types stand for the eight: `status` for every type that nothing treats specially.
The lifecycle messages in this mailbox are about one dispatch. A caller asks once, and a question
gets one reply. A `worker_done` or heartbeat that is rejected stays an unread row of its type, as
in the code. `check --all` changes nothing and is left out.

### `DaemonSession`, with `InputChannel` as its promise

One session id in the daemon. `live` is a session with a running shell in the host's map; `gen`
counts the shells started under the id and `child` and `signalled` follow each one's process, so
that a late signal or exit can be told from a fresh one. `shell`, `gate` and `queue` are the gate
for early input (`_shellState`, `postReadyFlushGate`, `preReadyStdinQueue`); `paused` and `failsafe`
the producer's pause; `terminating`, `killTimer` and `forceSent` the escalation of a kill; `sweep`
the teardown operation of `terminal-session-teardown.ts`, which awaits the descendants of an agent
(`pc = "capture"`) and, when immediate, the exit (`"exit"`); `stop` the promises that wait for a
physical exit, of a user's immediate kill and of the shutdown, which set `fenced` first.

Each action runs to the code's next await. `KillShell`, `KillAgent`, `KillAgentNow`, `KillNow` and
`KillJoins` are the five paths of `TerminalHost.kill`; `SweepSignals`, `SweepForces` and `SweepEnds`
what follows the await; `RetryForceKill`, `WaitTimesOut` and `KillTimerFires` the timers.
A signal may be refused (`MaxFailures`), which reopens the session, as in the code.

`InputChannel` says what a terminal promises about input: accepted pieces reach the shell once and in
order, may wait, never pass what waits, and only the end of the shell discards them. `InputIsFifo` is
that specification over the session's own queue.

Four things the code does are not in the model: a native write that throws marks the handle dead
(`pty-subprocess.ts:1149`); `requestImmediate` replaces a completion whose rejection nobody handles;
its branch for a root that was signalled in the same turn (`terminal-session-teardown.ts:27-31`),
since `SweepSignals` and the steps behind it run without a pause that a joining kill could use;
and after a second refused forced kill the session stays terminating, which `MaxFailures = 1` excludes
(`KilledShellEnds` is a statement about one refusal).

### `TerminalHistory`: two processes and a disk

The daemon keeps the records of a session since the last take (`pending`, `overflowed`, `seq`); the
application makes passes over dirty sessions (`pass`, whose `pc` names the await: the request, the
reply, the append, the temporary file, the reset of the log); the disk has `meta`, `ckpt` and `log`,
a log being its generation, the numbers of its batches, their records and how the file ends.
Whatever reaches the emulator is a token, and a screen the sequence of tokens applied. `CutShort` is
the set of files a write can leave behind. Faults (a crash of either process, a dropped socket, a
failed write) may come at every await.

A restore reads the disk as `history-reader.ts` does (`LogApplies`: same generation, contiguous
numbers, a torn tail dropped). `past` remembers the last screens of the shells this one was restored
from, which is what a restored screen is compared with. Passes do not overlap: shutdown and
disconnection wait for the one in flight. The first batch after a checkpoint may have any number, so
a request whose reply was lost before the first batch is not noticed (`MayMiss`). Two spawns go on
with a log without a full checkpoint to come: one that uses a cached restore reopens it, and one that
finds the session managed but without a writer registers a writer and asks for the checkpoint only if
the session was not managed (`daemon-pty-adapter.ts:396-411`). Both are remembered in `excused`.
`RestoredIsReal` exempts exactly these.

### `SshMux`, with `RequestReply` as its promise

One channel: `call` is the multiplexer's request table with how each request was settled (a time-out
and an abort are both `"cancelled"`: the same frame is sent, by a time-out before it forgets the
request and by an abort after, so that a time-out whose frame fails is settled as lost), `ages`, `acked` and `silence` what the
health timer looks at, `up` and `down` the frames on their way, `work` the relay's handlers with
their abort signals. The link is `up`, `dead` (and nobody knows) or `closed`. Time passes at the ticks
of the health timer, in keepalive intervals: `Quiet` is `TIMEOUT_MS` and `WakeGap` is `WAKE_GAP_MS`.
A new channel has a new multiplexer and a new relay client, so one of each is enough.

`RequestReply` is the promise: a request is executed once at most, settled once, answered only by its
own execution run to its end, and told to stop only when nobody waits or the channel is gone.
`ChannelReplies` is that specification over the request table and the relay's handlers, with
`cut` refined by `link # "up"`.

### `Automations`: the scheduler, the store and two observers

`exists`, `enabled`, `next` and `runs` are stored; `evaluating`, `todo`, `at` and `awaited` are a tick
of `evaluateDueRuns` between two awaits; `ready`, `page` and `handlers` the window as the service and
the renderer see it; `agents` and `usage` who is still observing a dispatched run. `serve` is chosen at
the start: a server awaits its headless launches inside the tick, the desktop tells its page and goes
on. Time passes in half periods of one schedule, with an occurrence at every odd time, so that a tick
can be on time, late within the grace, or too late. `Pruned` is the retention of
`automation-run-retention.ts`, applied wherever the store applies it.

What the model shows beside its properties: deleting an automation during an await makes the advance
of its `nextRunAt` throw and ends the tick; a deleted automation may still be launched from the tick's
snapshot; a reload of the page leaves its runs `dispatching`, because `rendererReady` stays true; a
crash during a headless launch launches the occurrence again in the next life of Orca (which is why
`LaunchedOnce` speaks of one life); both the page and the hook may complete a run, and each collects
usage.

## What the runs check

| run | module, configuration | checks |
|---|---|---|
| `board_safety` | `MCTaskBoard` | the tables under arbitrary calls |
| `coordinator_safety` | `MCCoordinator`, `Coordinator_safety` | loop, workers, exits, failing calls, gates; refinement of `BoardSpec` |
| `coordinator_recovery` | `MCCoordinator`, `Coordinator_recovery` | restarts, reissued handles, an operator who dispatches and updates by hand |
| `coordinator_liveness` | `MCCoordinator`, `Coordinator_liveness` | a run ends, a stopped loop ends |
| `mailbox` | `Mailbox` | lost wake-ups, stamps, heartbeats, ask; every message surfaces |
| `terminal_session` | `DaemonSession` | one shell per id, kills that are done, fresh signals, the input channel, pauses and kills that end |
| `history_safety` | `TerminalHistory`, `TerminalHistory_safety` | what a restore brings back, with a crash, a lost connection or a failed write at any await |
| `ssh_mux` | `SshMux` | refinement of the request/reply channel, a fair health check, no work for nobody |
| `automations` | `Automations` | one launch per occurrence, retention against reports, due automations are handled |
| `breaker_counts_faults`, `gate_blocks_dispatch`, `history_gap` | `Coordinator_breaker`, `Coordinator_gates`, `TerminalHistory_gap` | statements of the documentation that the code violates |

### The properties

- `TerminalLock`: two open dispatches never share a handle, nor a pane whose key both recorded. The
  lock is a query at insertion, by handle and by pane; a reissued handle defeats the first half
  only. The second needs the key in both rows (`db.ts:665-668`, `728-730`): the pane of a dispatch
  without a key can take another under a reissued handle, which `board_safety` reaches. In
  `Coordinator` every handle has its key, so that the lock is of the pane.
- `NoGhostDispatch`: a task shown as dispatched has an open latest context. Completion and the
  busy filter read the latest context of a dispatched task and would go wrong without it. It holds
  as long as nobody sets `dispatched` by hand.
- `ClosedStaysClosed`: no write reopens a context, although `failDispatch` never looks at the
  status of the row it overwrites.
- `WorkerDoneClosesItsDispatch`: the write behind an accepted `worker_done` finds its context by
  task, not by the id in the message; the checks before it make these the same.
- `ConcurrencyCap`: never more tasks dispatched than `--max-concurrent`, though they are counted
  once per tick, before the awaits. Stated where only the loop dispatches.
- `DeadTerminalHoldsNothing`: no open dispatch stays on a terminal whose exit the runtime saw,
  except while its prompt is about to be rejected. An exit that it does not see strands the
  dispatch at once, with or without a restart, and the property says nothing of it. Stated without
  restarts: after one, the exit handler looks the dispatch up by the new handle and does not find it.
  (Both are listed as hazards.)
- `NoFailureWithoutFault`: the drift check costs no attempt.
- `BoardSpec` as a property: every step of the coordinator model is a step of the database model or
  leaves the tables alone.
- `RunRowTracksLoop`, `OwnerCanFinish`: what a restart may and may not separate.
- `RunEnds`, `StopEndsLoop`: liveness of the loop. `RunEnds` excepts the two cases where the code
  does poll for ever: `Stranded`, a task that waits for a failed one, and `Orphaned`, a task
  dispatched to an agent whose exit was not seen. A stopped loop ends in either.
- `NoLostWakeup`: nobody waits for a message that is there, or for a reply that is there. It holds
  of every sender but the exit handler, whose rows it exempts.
- `DeliveredWasShown`: a row that is stamped delivered was pasted or read; the stamp comes 500 ms after the paste and must
  not take along what arrived in between.
- `NoHeartbeatAfterDone`, `AskTimesOutUnanswered`, `EveryMessageSurfaces`: late heartbeats, late
  answers, and the push on idle against failing writes, to a terminal with a leaf.
- `OneShell`: one id never hides two processes, although a kill, a refused signal, an exit and a new
  request for the id interleave with the awaited snapshot of descendants.
- `AckedKillIsDone`: an immediate kill, also one that joins a graceful teardown, and a shutdown are
  acknowledged only once the process is gone.
- `NoStaleSignal`: what survives an await checks that its session still owns the root, so no signal
  goes to a process that was reaped.
- `InputIsFifo`, `HeldIsReleased`, `KilledShellEnds`: input is a FIFO channel; what the gate or a lost
  resume holds back is released; a session that was told to end ends, or is open again.
- `RestoredIsReal`, `LogHasNoHole`, `SleepKeepsTheScreen`, `CheckpointsGrow`: a restore shows a
  beginning of what some shell showed; without faults nothing is appended behind a dropped range;
  sleep loses nothing; a new checkpoint forgets nothing.
- `ChannelReplies`, `RelayHadItsChance`, `NoOrphanWork`: the refinement; the channel is given up only
  after the relay had a whole interval to answer, sleep not counted; a handler does not run on for a
  caller that gave up.
- `LaunchedOnce`, `ReportsFindTheirRun`, `DueIsHandled`: an occurrence is launched once in a life of
  Orca; retention spares the rows somebody will report on; the scheduler gets to whatever is due if
  the launches it awaits end (a launch that hangs does stop it).

### Bounds

Two tasks are enough for a dependency, for two dispatches in competition and for a limit of one;
two panes for a retry elsewhere; two or three contexts for a retry and a stale signal of the one
before. `BreakerThreshold` is 3 in the code: 2 in most runs, so that a break and a retry both
happen within the bound on contexts, and 3 in `breaker_counts_faults`, which is about the number.
`MaxFaults`, `MaxExits` and `MaxGlitches` are 1 in the safety run, so that one misfortune of every
kind happens, in any order and at any await; the exit is seen or not. The liveness run keeps the exits, the failing calls and
the questions and drops escalations and live rejections (`MaxFaults` 0): what fails there fails
because its terminal went. It has two slots, so that two dispatches are under way, and an operator
who stops the run. `MaxRestarts` is 1: one restart makes two handles for a pane, which is
what the lock and the authority check have to tell apart. Where a bound would disable a step of the
loop (rows, panes), the model takes the failure path of the code instead, so that the bound never
shows as a stopped loop.

`Mailbox` has two messages and two timers, so that two pastes overlap and a `worker_done` meets a
heartbeat on either side of it, one caller and one terminal failure. `DaemonSession` has two shells
(the second is what a stale signal or exit could hit), two inputs (an order), two pauses (the fail-safe
is armed again) and one refused signal. `TerminalHistory` has three tokens, a pending buffer of one and
a log of two, so that both overflow, two shells, and one fault of any kind at any await; two takes
make a checkpoint and an append, and `history_gap` needs three takes and no fault. `SshMux` has two
requests (their frames cross), two ticks of the health timer, each after a pause of three intervals,
so that a silence of more than `Quiet` (4) and a sleep both occur, and one keepalive of the relay.
`Automations` has two automations, so that the tick goes on behind an await, three half periods (two
occurrences and the time between), one kept run, so that eviction happens, no grace, and one event of
a user, a page or a crash.

Deadlock is checked in the runs of the database, the coordinator and the mailbox. It is not in the
four others, where everything may have happened that the bounds allow: no shell is left to start, the
channel is gone, the application has quit, the clock has ended.

## Fairness

`Fairness` of `Coordinator`: weak fairness of `LoopStep`, because the loop's timers fire and its
promises settle; strong fairness of the calls that a living worker, the resolver of a gate and the
one who refreshes the base make. These calls are disabled while the loop is inside
`processMessages`, because the event loop is busy, and are served when it yields; hence strong.
Nothing is assumed about escalations, exits, failing calls or the operator. `StopEndsLoop` needs
`LoopStep` only.

`MailboxFairness`: woken callers continue, a terminal that fails a write takes one later, timers
fire, and an agent turns busy and idle again and again. The last is the assumption the push-on-idle
design makes; without it an unread message does stay.

`SessionFairness` (`DaemonSession`): the gate's timers, the fail-safe, the kill timers and the retries
fire, the awaited snapshot arrives, exits are reported, and a process that got a forced kill ends.
Nothing is assumed of clients, nor of a process that only got a hang-up.

`MuxFairness` (`SshMux`): frames that arrive are read, and the relay learns in the end that the socket
of a dead channel is closed. Handlers need not end and the network need not work.

`Automations` assumes weak fairness of the scheduler alone, because its timer fires. Launches, agents,
pages and users owe nothing; `DueIsHandled` names the launches it needs as a premise.
`TerminalHistory` is a safety model and assumes nothing.

## What is proved

`TaskBoardProofs` proves for every number of tasks, dispatches, gates, handles and panes, every
breaker threshold and every bound:

| theorem | statement | rests on |
|---|---|---|
| `BoardTypeCorrect` | `BoardSpec => []BoardTypeOK` | `BoardAssumption` |
| `TerminalLockHolds` | `BoardSpec => []TerminalLock`, by handle and by recorded key | the type invariant |
| `ClosedForGood` | `BoardSpec => ClosedStaysClosed` | the type invariant |
| `WorkerDoneClosesNamed` | `BoardSpec => WorkerDoneClosesItsDispatch` | the type invariant |
| `DispatchedIsBacked` | `BoardSpec => []NoGhostDispatch` | `"dispatched" \notin Manual` |

The type invariant is inductive as it stands. `TerminalLock` and `NoGhostDispatch` are inductive
relative to it: the proof takes one step per action, and the work is in the actions that write
several rows (`CompleteTask`, which closes the newest open context and promotes dependants, and
`CreateGate`) and in the append of `CreateDispatchContext`. `NoGhostDispatch` needs no further
strengthening because each action that closes the newest context of a task also takes the task out
of `dispatched`. The assumption of the last theorem is necessary: `UpdateTask(t, "dispatched")`
breaks the property in one step.

`CoordinatorProofs` proves about the whole program, for every number of panes, restarts, faults,
exits and messages:

| theorem | statement | rests on |
|---|---|---|
| `CoordinatorTypeCorrect` | `Spec => []CoordinatorTypeOK` | `BoardAssumption`, `CoordinatorAssumption`; `RunRowTracksLoop` |
| `CoordinatorImplementsBoard` | `Spec => BoardSpec` | the type invariant |
| `LoopKeepsTerminalLock` | `Spec => []TerminalLock`, where every row has its key | the refinement and `TerminalLockHolds` |
| `RunRowTracksLoopAlways` | `Spec => []RunRowTracksLoop` | `epoch \in Nat` (`RunInv`) |
| `FailuresHaveCauses` | `Spec => []NoFailureWithoutFault` | `FaultInv` |
| `OwnerCanAlwaysFinish` | `Spec => []OwnerCanFinish` | `"dispatched" \notin Manual`; the refinement and `DispatchedIsBacked` |

and `CoordinatorLoopProofs` about what the loop keeps across its awaits:

| theorem | statement | rests on |
|---|---|---|
| `DeadTerminalsHoldNothing` | `Spec => []DeadTerminalHoldsNothing`, for exits that are seen | `MaxRestarts = 0`, only the loop dispatches; `DeadInv`, `TerminalLock` |
| `ConcurrencyCapHolds` | `Spec => []ConcurrencyCap` | only the loop dispatches and nobody sets `dispatched`; `CapInv` |

The argument goes through one fact about every step, `OrdinaryStepIsCall`: a step of the loop, the
operator, a worker or a restart is a `BoardCall`, that is, a `FreeCall` of the database or a `Charge`
with the `Reason` why a failure is charged; the one other step is `Reset`. Each theorem then argues
about the handful of calls where it can, and about the thirty-odd actions only where they matter.

- *Types.* `CoordinatorTypeOK` says that what the loop holds across an await still exists: its tasks,
  its panes, its dispatch. A `run` that found the row of a live loop not `running` would start a
  second loop over the first one's locals, so the type invariant is inductive only together with
  `RunRowTracksLoop`, which is inductive by itself.
- *Failures.* `FaultInv` adds to the property that a failed context has a failure counted, and that
  an unread escalation has its fault on record: it is charged later, when nobody remembers the cause.
- *Dead terminals.* `DeadInv` adds that every dispatch is held under the handle its pane has now.
  The exit handler looks up one dispatch by handle; `TerminalLock` makes it the only one. After a
  restart the handle differs, which is why the assumption `MaxRestarts = 0` is necessary. An unseen
  exit touches no table, and no later step makes it a seen one.
- *Concurrency.* `CapInv` counts what is dispatched together with `SlotsHeld`, the slots that the
  tick may still fill, one of them set aside while the base is probed. Only `DispatchTask` turns a
  slot into a dispatch (`OnlyTheLoopDispatches`); every other step gives some back or leaves both
  alone.

`DaemonSessionProofs` proves about one session id, for every number of shells, inputs, pauses and
refused signals (the model checker's run allows one refusal):

| theorem | statement | rests on |
|---|---|---|
| `SessionImplementsChannel` | `SessionSpec => InputIsFifo` | `InputInv` |
| `OneShellHolds` | `SessionSpec => []OneShell` | `ProcessInv` |
| `SignalsAreFresh` | `SessionSpec => NoStaleSignal` | `ProcessInv` |
| `AcknowledgedKillsAreDone` | `SessionSpec => []AckedKillIsDone` | `ProcessInv`, `WaitInv` |
| `SessionTypeCorrect` | `SessionSpec => []SessionTypeOK` | the four invariants |

Each invariant is about one concern and needs the others as little as the code does.

- *Input.* `InputInv` says that input waits only while the shell is pending or the gate is armed, for
  a live shell. So a write passes the queue only when the queue is empty, and every step is one of
  `InputChannel` or leaves its variables alone.
- *Process.* `ProcessInv` says that shells before the session's own are gone and later ones unborn. It
  is inductive because a session is created only when none is live, and leaves the map in the turn its
  exit is reported. Every signal goes to the live session's own process.
- *Waits.* `AckedKillIsDone` is not inductive: it does not say what a pending wait waits for. `WaitInv`
  adds that whoever waits or retries does so for the live shell, that who joined a teardown joined an
  immediate one, so that the graceful signal acknowledges nobody, and that a shutdown that was
  acknowledged is fenced with nothing live.

`SshMuxProofs` proves about the channel, for every number of requests, ticks and keepalives and all
gaps between two ticks:

| theorem | statement | rests on |
|---|---|---|
| `MuxTypeCorrect` | `MuxSpec => []MuxTypeOK` | `MuxInv` |
| `MuxImplementsChannel` | `MuxSpec => ChannelReplies` | `MuxInv` |
| `RelayGetsItsChance` | `MuxSpec => RelayHadItsChance` | `ChanceInv` |

That an answer comes from its own execution depends on what is on its way, so the invariant speaks of
the frames. `MuxInv` adds to the type invariant: a request on its way was made, is there once and
finds no handler; a cancellation on its way finds nobody who waits (`UpAgrees`); a response on its way
is of a handler that ended, and acknowledges nothing the relay did not receive (`DownAgrees`); no
handler runs for a request that was not made (`MadeFirst`). The proof has one lemma for each change of
the frames (a frame more, the first one read, a handler that moves, an end that is closed), and the
actions are compositions of these.

The health check needs an invariant of its own and no frame: `ChanceInv` says that whenever no tick
has asked for a sign of life since the last one, the silence counted is zero, and one gap of an
application that is awake is shorter than `Quiet` (`OneGapIsNotTooLong`).

`MailboxProofs` proves about one handle, for every number of messages, timers, callers and failures:

| theorem | statement | rests on |
|---|---|---|
| `MailboxTypeCorrect` | `MailboxSpec => []MailboxTypeOK` | `RowInv`, `CallInv` |
| `DeliveredIsShown` | `MailboxSpec => []DeliveredWasShown` | `RowInv` |
| `HeartbeatsEndWithTheDispatch` | `MailboxSpec => []NoHeartbeatAfterDone` | `RowInv` |
| `WakeupsAreNotLost` | `MailboxSpec => []NoLostWakeup` | `CallInv` |
| `TimeoutsAreUnanswered` | `MailboxSpec => AskTimesOutUnanswered` | `RowInv`, `CallInv` |

All of them rest on `MailboxAssumption`, which asks that no caller be named like the two threads that
stand for "no thread" and "the exit handler" (a thread is the id of a question; the two are values the
model adds). Two invariants, one about the table and one about those who wait for it:

- *Rows.* `RowInv` says that a timer stamps only what it pasted, that what is stamped was pasted or
  read, and that a dispatch that is done has no unread heartbeat. Every method but an insertion only
  `Marks` rows, so the table's part of the proof is one lemma per way of marking and one for a row
  that arrives.
- *Callers.* `CallInv` says that whoever waits has nothing to wait for. `NoLostWakeup` speaks of the
  waiting alone and is not inductive: a reply may exist before the question that would wait for it,
  unless callers who did not ask have none (`CallOK`). Then marking rows brings nobody anything, an
  arrival wakes everybody it concerns (`ArrivalWakes`), and a suppressed row concerns nobody.

`AutomationsProofs` proves about the scheduler, for every number of automations, runs and events, any
grace and any limit on kept runs:

| theorem | statement | rests on |
|---|---|---|
| `AutomationsTypeCorrect` | `AutoSpec => []AutomationsTypeOK` | `AutoInv` |
| `OccurrencesLaunchOnce` | `AutoSpec => []LaunchedOnce` | `AutoInv` |
| `RetentionSparesOwnedRuns` | `AutoSpec => []ReportsFindTheirRun` | `AutoInv` |

`LaunchedOnce` holds because the schedule moves past an occurrence, but it moves only after the awaited
launch. So `AutoInv` says that what was launched is `Behind` the schedule *and* behind the tick that is
under way, or is the occurrence whose launch the tick awaits; and that a run that got further than
`pending` is behind the schedule too, so that nobody launches from its row again. An edit during the
await moves `nextRunAt`, a deletion takes it away, and a crash ends the life the property speaks of.
For retention, the invariant says who may own a run of each status: retention evicts only runs that
ended, and what is launched, handled by a page or observed by a server has not (`RowOK`). On the desktop
the second of two observers may find its run evicted, which the property leaves out.

`TerminalHistoryProofs` proves about two processes and a disk, for every capacity of the pending buffer
and of the log and any number of tokens, takes, shells and faults (the run allows one fault and two
shells):

| theorem | statement | rests on |
|---|---|---|
| `CheckpointInvariant` | `HistorySpec => []BaseInv` | `HistoryAssumption` |
| `HistoryTypeCorrect` | `HistorySpec => []HistoryTypeOK` | `BaseInv` |
| `CheckpointsOnlyGrow` | `HistorySpec => CheckpointsGrow` | `BaseInv` |
| `HistoryInvariant` | `HistorySpec => []HistoryInv` | `BaseInv` |
| `RestoresAreReal` | `HistorySpec => []RestoredIsReal` | `HistoryInv` (`LogInv`) |
| `LogsHaveNoHole` | `HistorySpec => []LogHasNoHole` | `HistoryInv` (`HoleInv`) |
| `SleepersKeepTheirScreen` | `HistorySpec => []SleepKeepsTheScreen` | `HistoryInv` (`SleepInv`) |

Everything the daemon, a pass or the disk holds is a `Piece` of a screen, that is, what the screen shows
from some token on, and the proof follows these pieces from the emulator to the disk.

- *Checkpoints.* `BaseInv` says that what is pending is the end of the screen, that the checkpoint is a
  beginning of it, all of it `Drained`, that a snapshot in flight (`Shot`) continues the checkpoint it
  will replace, and that records in flight lie behind the checkpoint. It needs nothing of what the
  log holds.
- *The log.* A log that a restore would read is `Ours`, the running shell's, or `Theirs`, that of a shell
  before it. `Ours` says where the next batch will fit: if the next number is contiguous, its records
  are what the screen shows behind the log. A gap in the numbers needs no claim, because the reader
  rejects the log. `Theirs` is true of an earlier screen, and `Barred`: nothing is appended to it before a full
  checkpoint replaces it.
- *Without a fault.* The numbers show a lost batch only between two others, so that a log without holes
  needs an argument about passes and not about numbers. `HoleInv` says that the log, read or not, is
  next to the checkpoint, and that either what is pending or in flight follows it or a full checkpoint
  comes first (`FullFirst`). `NoFaultInv` supplies what that uses: a managed session is connected and
  has its writer.
- *Sleep.* `SleepInv` follows the length of the screen at the user's request through the final pass
  (`GoingToSleep`) and then through whatever happens while the restore is kept (`Asleep`).

The attempt to prove `RestoredIsReal` found that it was false beyond the bounds of the run: with two
faults the second spawn named above, a writer registered again for a managed session, appends to the
log of an earlier shell. (A shell is restored with the log of the one before; the write of its first
full checkpoint fails, which disables the writer and leaves no request for another; the link drops;
putting the terminal to sleep takes the disabled writer away and the kill fails, so that the session
stays managed; the restore is acknowledged late; the spawn registers a writer without a full
checkpoint; and the second take of the new shell, number 2, is contiguous to batch 1 of the old one,
although what take 1 drained went with the failed write. With `MaxFaults = 2` and without the second
case of `excused`, TLC reaches this restore in 25 steps.)
`excused` therefore has its second case. Without a fault it never arises (`NoFaultInv`), so that the
other two properties lose nothing by it.

Model-checked only: liveness. `RunEnds`, `StopEndsLoop`, `EveryMessageSurfaces`, `HeldIsReleased`,
`KilledShellEnds`, `NoOrphanWork` and `DueIsHandled` depend on fairness and `ENABLED`, which are out
of the prover's reach. Every invariant, action property and refinement that a passing run checks is
also a theorem.

## Where the code and its documentation disagree

1. `breaker_counts_faults`: the orchestration skill promises that a task fails after three
   failures. One agent exit is charged by the exit handler, again by the escalation it writes, and
   a third time when the prompt was still being written.
2. `gate_blocks_dispatch`: the skill says that a gate blocks progress until it is decided. Resolving
   one of two gates makes the task ready, and `orchestration.dispatch` does not look at gates.
3. `history_gap`: `terminal-history-log.ts:80-84` says that a non-contiguous batch means an appended
   batch was lost. Every take uses up a number (`session.ts:454`), but a take without records appends
   nothing (`daemon-pty-adapter.ts:1174-1176`): a session that is dirty and silent leaves a gap, and
   the reader then ignores the whole log.

Three more were met and have no run of their own:

- The comment at `failActiveDispatchOnExit` (`orca-runtime.ts:10297-10301`) says that the runtime
  catches agent crashes and unexpected exits within milliseconds, and that the task is set back to
  'pending'. The exit of a terminal without a leaf is not caught: the dispatch stays open, the task
  'dispatched', and the run polls for ever (`AgentExitUnseen`, `Orphaned`). And `failDispatch` sets
  the task 'ready' or 'failed', never 'pending' (`db.ts:832-838`).
- The comment at `notifyMessageArrived` (`orca-runtime.ts:22345-22347`) asks that every insertion wake
  the waiters. The exit handler's insertion (`orca-runtime.ts:10325`) does not; `NoLostWakeup` exempts
  its rows.
- The comment at `getUndeliveredUnreadMessages` (`db.ts:397-398`) says that a row is pushed at most
  once. A message that arrives in the 500 ms between paste and stamp (`orca-runtime.ts:22972`) has
  the first pasted again.

## What is not modelled

- *Orchestration*: a crash in the middle of a database method (each method is one step), group
  addresses, the hung-worker warning (it logs), dispatches whose pane key is missing in
  `Coordinator` (they are in `TaskBoard`), dependencies on tasks that do not exist, `reset` during a
  run, the texts of preambles and banners.
- *Daemon*: several sessions competing for the host, the streams to clients and their thinning, the
  emulator, the socket protocol.
- *History*: a daemon that refuses the seed or has no incremental checkpoints, a shell-ready marker
  that holds bytes back, closing a terminal by the user with its tombstone, `scrollback.bin`.
- *SSH and relay*: requests of the relay to Orca, the bulk lane and its drain, oversized messages,
  `probeLiveness`, reconnection (a new channel is a new multiplexer), what the handlers do.
- *Automations*: external managers, the precheck's command, dispatch tokens, time zones and the syntax
  of schedules; a due automation whose schedule has no past occurrence, whose next date alone is moved
  on (`service.ts:189-191`); an evaluation that throws for another reason than a deleted automation
  (one that always throws keeps the scheduler from those behind it in the list).
- The components marked `not_modelled` in `PROJECT.json`, each with its reason.

The repository has more than a million lines, most of them user interface (React components, stores
and a mobile client), clients of external programs and services, and their tests. Their state is that
of a screen or of another program, and a model of them would have little to say. The models cover the
parts where several actors, failures and time meet, which is a small share of the lines.

## Plan

In this order:

1. A finer `TaskBoard` with a crash inside `updateTaskStatus` and `createGate`, shown (and proved) to
   implement the present one where it does; `ask` and the coordinator loop composed over one mailbox.
2. The daemon's streams: the batcher, the tail it drops when a client is slow, the priority semaphore
   between clients; the bulk lane of the relay.
3. The revocation outbox of the mobile relay.
4. The assumptions of `DeadTerminalsHoldNothing` and `ConcurrencyCapHolds` as parameters of weaker
   theorems: what remains true after a restart, and with an operator who dispatches too.

Each module follows the same pattern: constants with a named assumption, one action per operation, a
type invariant, a few properties aimed at listed hazards, a mutation for each, and a proof module for
what is inductive within reach.
