# A verification project for the Isagi runtime

Isagi runs coding agents, terminals, commands and authored workflows in local
Git worktrees. One Node process, the *runtime* (`apps/runtime`), owns all
durable state (SQLite) and every process it starts; a desktop shell, a web
client and a CLI talk to it. These modules model the runtime's own control
logic. Paths below are relative to the repository root; `engine/` means
`apps/runtime/src/workflows/engine/`.

## 1. Inventory

| Part | State | Operations | What is hard | What makes it correct |
|---|---|---|---|---|
| Workflow engine (`workflows/engine`, `workflows/store`) | the run row, a tree of graph invocations and node executions, one driver per run, an artifact cache, `freshChecks` | launch and preparation, the driver's steps, Pause, Resume, Retry, Cancel, Dismiss, Advance, triggers, startup recovery | controls landing inside a step's awaits; functions that return late; restarts; wake-ups | one leaf, one open path; nothing routes unless active; a result is computed and saved once; an answered wait is routed; a failed run can be retried |
| Waits (`workflows/waits`) | none; reads turns, operation rows, the user's answer | `checkWait` | a turn that ends while the wait is being checked | the answer delivered is the latest turn's |
| Operations (`workflows/operations`) | operation rows, tracked headless processes | prompt, headless start / settle / time out / stop | exit, timeout and cancel racing for one row | a job settles once |
| Content store (`workflows/store/content-store.ts`) | blobs on disk, rows that name them, capture leases | publish, retain, collect | a collector beside a capture | a blob a row names is never collected |
| PTY processes (`pty-processes`) | process rows, tmux sessions or node-pty handles, supervisors, reservations | launch, attach, terminate, poll, clean up, boot | exits, kills, polls and boots racing for one terminal fact | one terminal fact per process, and the true one |
| Commands (`commands`) | command state and run rows over PTY processes, a lock per (worktree, command) | run, stop, restart, reconcile, boot, activate, deactivate | launches that half fail; boots that adopt survivors | a running command has a live process or will be reconciled |
| Sessions and surfaces (`environment`) | session rows, the panes that hold them, one controller and one streaming client each, attach tokens | claim, rejoin, attach, switch the controller, close a pane, collect, restore | closes and deletes that commit while a lock is held elsewhere; clients planned under one controller and admitted under another | one controller, one stream; nothing runs without a pane |
| Editor contexts (`editor`) | context, incarnation, probe | ensure, probe, settle, interrupt | an ensure re-entered during a probe | one settlement per attempt |
| Harness observer (`harnesses`) | the ledger of an agent's turns, who is active, the turns found dead, the edges published | startup, poll, process events, refresh | hooks that come late; facts that change between a read and its projection; reads that fail | a turn has one outcome; nothing is missed; an answer is fresh or a failure |
| Workspace, projects | worktrees, projects | open, delete, add, erase | a delete beside users of the worktree | nothing runs in a deleted worktree |
| Fluidcast | the worker of a session that a voice client controls | start, stop, watch its health | a worker that faults while it is switched | a worker does not outlive its session |
| Platform, app wiring, access | locks, periodic fibers, an event bus | - | - | appears as the atomicity and fairness of the other parts |
| Desktop shell | the runtime child process, the updater | start, restart, update | a restart during an update | one runtime at a time |
| Web client | the read of the workspace, moves of the rail that await an answer, terminal caches | drop a row, refresh, retire | reads that began before a move and land after it | a read never hides a move |
| CLI, packages | schemas, output | - | - | - |

The parts meet as follows. The engine calls `environment` to create surfaces
and sessions, `workspace` to create worktrees, `operations` to start headless
jobs; it is called back by the observer's turn events and by settled jobs
(*triggers*), and by the HTTP controls. Commands, sessions and editor contexts
own PTY processes through one service and hear of exits on an in-process event
bus. All of them write one SQLite database synchronously.

## 2. How the code is turned into actions

The runtime is one Node process and `better-sqlite3` is synchronous. A fiber
runs until it awaits something, so the code between two awaits, a transaction
(`rt.commit`) included, is one step, and *only* what lies between two awaits is. A
handler that awaits is several actions, and what it read before the await is
kept in its own state (`driver`, `ctl`, `prep`), because that is where code of
this kind goes wrong. What an action does not read again, the model does not
read again.

The web client is one JavaScript thread as well: what runs between two awaits of a
commit is a step there too, and the runtime's answer to a request is another.

Author code (node functions, reducers, edges) decides what a node returns and
where it goes: both are nondeterministic. Node names, payloads, events and
wording are left out. A commit is taken not to fail: the path that fails a run
on an engine defect (`failRunOnDefect`) is not modelled.

## 3. Modules

### `WorkflowRun`: one run (`engine/`, `workflows/store`, `workflows/waits`)

| State | In the code |
|---|---|
| `run` | the `workflow_runs` row: status, artifact (`build`), whether its surface is there, whether it creates one, whether its error is of stage `environment` |
| `exec`, `inv` | `workflow_executions`, `workflow_graph_invocations`. `child` is the invocation a subgraph execution entered; `answered` is the user's stored answer, or, for an agent or headless wait, what the observer or the job rows say |
| `driver` | the run's entry in `drivers` with where its fiber stands and what its step read; `again` is a kick that found it at work |
| `prep` | the forked `prepareAndStart` |
| `cached`, `fresh` | `artifactCache`, `freshChecks` |
| `wake` | triggers published and not yet consumed |
| `ctl` | a Resume or Retry across its awaits |
| `ran` | history: executions whose function this process has called |

Actions: `Place`, `PlaceFails`, `LoadRoot`, `EnterRoot`, `LoadRootFails`
(`engine/prepare.ts`); `Step`, `Loaded`, `LoadFails`, `FnReturns`, `FnFails`,
`CaptureDone`, `CaptureFails`, `Checked`, `ReplyRead` (`engine/drive.ts`,
`engine/chain.ts`, `waits/check.ts`, `checkpoints/step.ts`); `Pause`,
`ResumeAsk`, `ResumeCommit`, `RetryAsk`, `RetryPreparation`, `RetryReloaded`,
`RetryObserved`, `Refused`, `Cancel`, `Dismiss`, `SurfaceDeleted`, `Advance`
(`engine/controls.ts`); `TurnEdge`, `HeadlessSettled`, `Trigger` (what comes from
outside, and `engine/service.ts`); `Restart` (`engine/restart.ts`).

`RunLifecycle` is the abstract specification: the run as the documentation
describes it to a person (`docs/workflow-engine.md`), with a phase, whether the
current node's result is saved, and how many executions have routed.
`WorkflowRun` implements it by the mapping at `Lifecycle`.

`WorkflowRunProofs` holds the theorems; `MCWorkflowRun` is what TLC runs.

### `ContentStore`: blobs, leases and the collector (`workflows/store/content-store.ts`)

| State | In the code |
|---|---|
| `blob`, `temp` | the files of `sha256/` and `tmp/`, young or older than the collector's grace period |
| `durable`, `lost` | which directory entries a sync has made durable; history of what a power failure took |
| `cap` | each capture: its lease (`CaptureLease`) and where its `put` stands; `got` are the references `put` returned |
| `held`, `released` | the ledger `held` and `releasedDuringSweep` |
| `rows` | the hashes each committed checkpoint references |
| `sweep` | the collector's candidates, its mark and where it stands |

Actions: `OpenCapture`, `Put`, `Written`, `Touch`, `Verify`, `Rename`,
`SyncDirectory`, `StepFails`, `Commit`, `Close` (`checkpoints/step.ts`,
`put`, `publishStaged`, `commitTemporary`, `reuseExisting`); `Erase` (a project
is erased); `ListFiles`, `Inspect`, `StartTracking`, `Mark`, `SweepBlob`,
`SweepTemp`, `SweepEnds` (`collectGarbage`, `sweepOnce`,
`platform/persistence/orphan-files.ts`); `Older` (time), `Crash` (the process
dies, or the power fails and takes entries never synced). Each file system call
is an action of its own, so a sweep and a put meet between any two.

### `HeadlessJobs`: the jobs of one run (`workflows/operations/headless.ts`)

`WorkflowRun` sees a headless wait as one answer that comes from outside. This module is
what happens behind that answer.

| State | In the code |
|---|---|
| `job[j].op` | the `workflow_operations` row. `ended` is completed or failed, by what the process printed; `timeout` and `call` are failed by the timeout and by the call that started it; `cancelled` and `restarted` are interrupted |
| `job[j].process`, `row`, `event` | what the operating system has, the PTY row, and its end published on the event bus and not consumed |
| `job[j].call` | the author's `runHeadlessAgent` across its awaits |
| `tracked`, `timedOut`, `settler` | the entry of `headlessProcesses`; `settler` is its `settling` flag, and whose settlement it is |
| `pinned`, `timer` | the pin of the log, the entry of `headlessTimers` |
| `timeout`, `stop` | `timeOutHeadless` and Cancel's `stopRunHeadless` across their awaits |
| `stopFailed` | history: a `stop_failed` event was written |

Actions: `RunHeadless`, `StartFails`, `Spawn`, `Track`, `LookAtExit`, `CallStops`
(`operations/context.ts`, `startHeadless`, `stopTracked`); `Settle`,
`SettleFails`, `Trigger`, `Check` (`settleHeadless` and who calls it);
`TimerFires`, `TimeOutStops`, `TimeOutLooks` (`timeOutHeadless`); `Cancel`,
`StopNext`, `StopEnds` (`engine/controls.ts`, `stopRunHeadless`);
`ProcessEnds`, `RowRecords` (the process, and the PTY service that records its end);
`Restart` (`engine/restart.ts`).

The PTY service is what its port may answer: a start that fails, a process that
dies while it is launched, a `terminate` that succeeds before or after the row
records it or fails. What a runtime leaves behind at a restart is not followed
further. A failed write is one that fails alone: the write with which a failed
call notes its own failure is taken to succeed.

### `PtyProcesses`: one process of the PTY service (`pty-processes`)

| State | In the code |
|---|---|
| `row`, `meta` | the status of the `pty_processes` row, and whether its backend and ref are the real ones (`createProcessMetadata` writes a node_pty placeholder). `ended` is an exit with its code or signal; `missing` is failed because no backend has it; `unavailable` is running with the reason that its backend did not answer |
| `backend`, `proc`, `coming` | the adapter the launch uses, what the operating system has, and a `new-session` that tmux has not acted on |
| `handle`, `sup` | node-pty's `liveSessions`; the supervisor, with an exit in its queue or not |
| `deferred` | `deferredWrites` |
| `launch` | `PtyAllocationPhase`, with the stretches of `startAllocation`; `Pending` is the launch reservation |
| `term`, `pc` | the entry of `terminations` (owner, the exit it captured, the write left to the retry), and each attempt across its awaits |
| `obs` | the poller, a failed attachment and a cleanup, between the question to tmux and the use of the answer |
| `gc` | what the collector's rows said when it went to list tmux's sessions |
| `late`, `hits` | history: the session appeared after its launch was given up; how many were told that they killed the process |

Actions: `Allocate`, `GiveUp`, `Start`, `Prepare`, `SpawnNodePty`, `SpawnTmux`, `SpawnFails`,
`CancelSpawn`, `LaunchSettles` (`service/launch.ts`); `SessionStarts`, `RequestLost`,
`ProcessExits` (tmux and the operating system); `ExitReported`, `HandleExit`,
`RetryExit`, `RetryTermination` (`adapters/node-pty.ts`, `service/lifecycle.ts`); `Reserve`,
`Refused`, `Probe`, `Stopped`, `Signal`, `GraceEnds`, `KillFails`, `KillSession`, `Affirm`,
`Conclude` (`service/termination.ts`, the adapters' `terminate`); `JudgeNodePty`, `AskTmux`,
`TmuxAnswers`, `JudgeTmux`, `AttachHeals` (`service.ts`, `service/cleanup.ts`);
`ReadRows`, `SweepTmux` (`service/gc.ts`, `adapters/*-gc.ts`); `Restart` (`service.ts`).

Rows do not touch each other (every map is keyed by the row's id), so one process is the
whole of it. A child of node-pty goes with the runtime (`types.ts:38`), a signal takes effect
at once, and a failed spawn has started nothing. A cleanup runs under its command's lock: it
meets neither a launch nor an attempt under way, but it may meet a write that was left to
the retry. node-pty's own sweep (`node-pty-gc.ts`) has no action: it finds nothing, which is
a theorem (`EntriesAreOpen`). The collector's list and kill of a session are one step, and so are a
launch's interruption before the spawn and its failure: both close the row the same way.

`PtyContract` is what an owner of a process may rely on: a row (`open`, then one of four fates)
and what the operating system has, and what may become of the two in a step. `PtyProcesses`
implements it under the mapping `AsContract` (property `KeepsContract`, theorem
`ImplementsContract`); `Commands` lets its processes take the steps of the contract and no
others.

### `Commands`: one managed command of one worktree (`commands`)

| State | In the code |
|---|---|
| `state`, `runs` | the command state row (status, pointer) and the run rows, oldest first |
| `procs`, `backend` | its processes as `PtyContract` has them, and whether tmux or node-pty runs them |
| `ours`, `owed` | rows with `interruptedByRuntime`; kills whose write is left to the PTY service's retry |
| `queue` | `PtyProcessService.events` not yet reconciled |
| `op` | who holds the entity lock of the command, and before which write or await it stands |
| `plan` | the command's entry of an activation plan, made outside the lock |
| `audit`, `count` | the deletion audit, and the candidates of the accounting (`cleanupCommandIncarnations`) at boot or of the audit |
| `up` | the runtime: accounting at boot, sweeping, up, closing |
| `stopped`, `dropped`, `lost` | history: the user's stop was answered; a run the audit replaced; ends announced to nobody |

| Actions | In the code |
|---|---|
| `Run`, `Prune`, `Mark`, `Allocate`, `Link`, `Started`, `HandOver`, `CancelLaunch`, `CancelStart` | `runCommand` and its finalizer (`launch.ts`); every durable write is an action, for a crash or an interruption may follow it |
| `Stop`, `Resolve`, `Hit`, `Absent`, `StopFails`, `Finalize`, `Relaunch` | `stopResolvedCommand`, `resolvePointerlessRunningState`, restart (`service.ts`) |
| `Handle` | `reconcilePtyProcessEvent` |
| `MakePlan`, `Execute` | activation and deactivation (`lifecycle.ts`) |
| `BootCleans`, `BootConcludes`, `Subscribe`, `AuditReads`, `AuditLocks`, `AuditCleans`, `AuditConcludes` | `convergence.ts`, the boot in `service.ts`, `auditWorktreeCommandIncarnations` |
| `Moves`, `Close`, `ShutdownKills`, `Restart` | what the PTY service and the process do meanwhile |

Commands of a worktree share nothing but the event queue. The configuration, ports and the
environment only fail or not; the catalog, log metadata and the keep-alive policy are left out.

### `Sessions`: one session of a worktree (`environment`)

| State | In the code |
|---|---|
| `row`, `holder`, `panes` | the session row, the pane row that holds it, the panes that are open |
| `ptr`, `procs` | the row's `ptyProcessId`, and every process launched for the session |
| `mode`, `gen`, `worker` | `AgentSessionInteraction` (mode, generation) and the worker of its Fluidcast session |
| `conns`, `active` | each client: its attach token, planned process, socket; the registered attachment |
| `op` | who holds the session's entity lock, and which await it is at |
| `pending`, `condemned`, `del` | what closes and deletes that committed have still to release or end |
| `spawn`, `restore` | a workflow's `spawnAgent`; `restorePaneBoundSessions` at boot |
| `lost`, `adrift` | history: processes nothing points at; the session lost its pane to another |

| Actions | In the code |
|---|---|
| `Claim`, `Claimed`, `Rejoin`, `Rejoined` | `claimPaneSession`, `expectAutomaticRejoin` (`surfaces/service.ts`, `sessions/attach-route.ts`) |
| `Consume`, `Resolve`, `Launched`, `LaunchFails`, `Admit`, `Attached`, `Close`, `CloseHolding` | the attach route, `ensureActivePtyProcess`, `admitAttach` |
| `SwitchToFluidcast`, `Stopped`, `StopFails`, `Built`, `BuildFails`, `SwitchToTerminal`, `Closed`, `WorkerFaults` | `setInteractionMode`, `fluidcast` |
| `Release`, `Unloaded`, `Ended`, `ClosePane`, `CleanupReads`, `CleanupKills`, `Oust`, `Collect` | `releaseController`, pane and surface deletes, `collectOrphanSessions` |
| `DeleteBegins`, `DeleteHolds`, `DeleteTearsDown`, `DeleteCommits` | worktree and project deletes |
| `Spawn`, `SpawnChecks`, `Exits`, `Restart`, `RestoreReads`, `Restore` | workflow spawns, process ends, boot |

The database commits without suspending, so closes, claims of other sessions and deletes
are actions whoever holds the lock. Layouts, focus, titles, prompts and agent folders are left out.

### `Rail`: how the client reorders its rail (`apps/web/src/lib/workspace/rail-order*.ts`)

| State | In the code |
|---|---|
| `order` | the runtime's order of each sibling list |
| `read`, `flight`, `waiting`, `retiring` | `workspaceReadAtom` (data, when it began), the read in flight, commits that wait for it, and their retirements to come |
| `entry`, `accepted`, `clock` | `RailOrderState`; `entry.write` is where the request stands |
| `dirty`, `kept` | history: a row came or went since the last read began; the runtime's last move of each list |

Actions: `claim`, `Accepted`, `rollBackAndReport`, `clearRailOrderFailure`, `Retire`
(`rail-order-commit.ts`, `rail-order-state.ts`); `refresh`, `ReadServed`, `ReadLands`,
`ReadFails` (`queries.ts`, the retry policy); `RuntimeMoves`, `RowLeaves`, `RowComes` (the
runtime). `moveBefore`, `applyRailMove` and `projectRailOrder` are the code's functions of those names, and
`replayed` is the first loop of the last one: what it has made of the read up to each acceptance.
A refusal may be lost as well as an acceptance: the rollback then knows only what is shown.
The runtime is taken to finish a request before the client gives it up as failed.

### `AgentTurns`: the turns of one agent session (`harnesses`)

| State | In the code |
|---|---|
| `ledger` | the records the hooks of the session's executions appended: who wrote each, and the prompt it is of (a record that is of itself is a prompt, the other is its stop) |
| `run`, `pointer` | the process row of each execution, and the session's `activePtyProcessId` |
| `queue` | `processEvents` |
| `active`, `gone` | `activeExecutionByAgent`, and whether its `processFacts` say that it is over |
| `read`, `failed` | `ledgerCursors` (0 when there is none), `failedSourcePaths` and `failedOperationKeys` |
| `initialized`, `sticky`, `edges`, `published` | the fields of `AgentObserverState` |
| `fiber`, `hold` | where the startup, the poll, the handler and a caller stand; who has the session's lock, and whether its read recovered from a failure |
| `told`, `asked`, `due` | history: the ends published, and how long the ledger was when a refresh was asked for and when the last execution ended |

| Actions | In the code |
|---|---|
| `Launch`, `Exit`, `Write` | `launchProcessForSession`, a process that ends, a hook that appends |
| `StartupBegins`, `PollBegins`, `Ask`, `Handle` | `applyInventory` before the lock, from the startup, `pollOnce`, `refreshTurnEdges` and the subscriber (`observer.service.ts`) |
| `Tails` | `refreshAgent`, `readLedgerSource`, `tailLedgerSource` under the lock |
| `Projects` | `rebuildBaseline`, `recomputeAndPublish`, with `projectAgentObserverState` (`observer-state.ts`), `reduceClaudeLifecycle` and `lifecycleTurnEdges` |
| `Restart` | a new runtime: the observer's memory goes, and the processes of node-pty |

A launch and the pointer that follows it are one step. One stream of Claude hooks is modelled, with prompts
that have ids: Codex rollouts and OpenCode, background and continued prompts, questions, attention, files
that are replaced, metadata and SDK workers are left out.

## 4. Runs

Every run uses a `.cfg` that gives the constants of section 3 small values.
A finished run has no step left (every request refused, no bound left), so deadlock is
not checked.

| Run | Bounds | What it shows |
|---|---|---|
| `controls` | 2 executions, 1 invocation, 1 request, 1 restart | a Resume or Retry against Pause, Cancel, answers, edges and a restart with an empty cache: one leaf, a control that landed holds, a result computed and saved once, and (liveness) an answered wait is routed |
| `tree` | 3 executions, 2 invocations, 1 request, no restart | a subgraph entered, returned from and retried: one open path, statuses that are true of the tree and the driver, failed runs that can be retried, and the refinement of `RunLifecycle` |
| `content` | 1 content, 2 captures, 2 crashes | two captures publish the same content, again and again, beside a sweep with a stale mark, across failures and crashes: nothing a row references, and nothing a `put` promised, is collected; the ledger is exact |
| `headless` | 2 jobs, 1 failed write or restart | launches, exits, timeouts, checks, Cancel, and a failed write or a restart in every order: a job is owned until it is settled and is told once; with fairness it is settled, and Cancel reaches its process |
| `pty` | 1 caller, 1 failure, 1 restart | a launch that may be cancelled, one who terminates, the exit, all observers, the collector, a failure and a restart: the refinement of `PtyContract`, kills and exits are recorded, nothing stays behind |
| `sweep` | 1 caller, 1 failure, 1 restart | the collector kills a session that starts while it looks (section 6) |
| `commands` | 2 processes, 2 runs, 1 failure or restart | launches that half fail or are cancelled, stops, restarts, activation, the audit, late events, and a failed write or a restart that finds a survivor: a live process stays within its command's reach, a stop holds, an outcome stands, and (liveness) an end is noticed |
| `audit` | 1 process, 1 run, no failure | an audit that passes beside a launch (section 6) |
| `streams` | 2 clients, 1 pane, 2 processes, no failure | clients claim, rejoin, resolve and attach while the pane closes, the controller changes, processes end and a delete runs: one client has the stream, under the controller that admitted it, and what a client does by itself takes it from nobody |
| `controllers` | 1 client, 2 panes, 2 processes, 1 failure or restart | switches that fail half way, spawns, closes, deletes, the orphan collector, and a restart with its restore: one controller, no worker outlives its owner, no process is left without a pane |
| `observer` | 2 executions, 2 records, 2 failed reads or restarts | late records, an execution that replaces another, process events, polls and refreshes around one lock: what was told of a turn stands, nothing written before an end is missed, an answer is fresh or a failure, and who is found dead is |
| `rail` | lists of 3 and 2 rows, 3 drops or rows that go or come | moves, refusals, lost answers and reads that are replaced, retried or fail: no read hides a move, and the last one brings back the runtime's order |

Why the bounds are enough. Every constant is a bound on what the program leaves unbounded, and is in
the guard of the action it bounds. Nearly every invariant and step property below is a theorem for
all values of the constants (section 5), so that a run has to be large enough for each action to
happen and each mutant to be caught, and small enough to be gone through in full.

In `controls` and `tree`, two executions are the smallest tree in which a node follows another or repeats
one; three with two invocations let a subgraph be entered, fail inside and be retried inside, or return
and go on. A restart separates what a process remembers from what the rows say, and is in
`controls`. One Resume or Retry is in flight at a time: of two, see section 6. `ControlsHold`,
`AtMostOneLeaf` and `ComputedOnce` are proved for any number.

In `content` two captures are what a collector can tell apart: one that still holds a hash and one that
has let go of it; a content is nothing to another one, but for the sweep's list of them. A first crash
leaves old temps, blobs no row names and rows without a lease, and the second meets them. In `headless`
two jobs are what Cancel's loop needs: it stops one after another, and an error at the first leaves the
second; a trouble is a write that fails or a restart, at any point. In `pty` a caller meets the cleanup of a
cancelled spawn, which terminates as well; a fault is a failed write, a failed kill or a backend that
does not answer: one of them is what each fallback of the code is written for.

In `commands` two processes are an old one and its successor, which is what echoes, prunes and
adoptions confuse; two runs are the newest and one an unfinished launch left. `Sessions` is split in two
instances, for all of it at once is beyond TLC: two clients without failures, where only their order
matters, and one client with a failure or a restart. Two panes are one that closes and one that takes the
session. In `observer` two executions are one and what replaces it, and two records a prompt and its stop,
or a prompt of each; two failures are one that is noted and one that the next read meets. A third
record, which an execution writes after its successor's, is not in the run: the theorems speak of ledgers of
any length. In `rail` a list of three rows is the least in which two moves may
disagree on a third row; the second list is there because its pending move keeps the first one's refresh
waiting; three steps are a drop in each list and a row that goes, or three drops.

A reduction by symmetry (captures, clients and panes, rows of a list) is used where only invariants or
step properties are checked, and none of the definitions chooses between the values by name. A
session that is deleted, a run that finished and a job that is settled stop: deadlock is not
checked but in `rail`, which always has a refresh to do.

### Fairness

`WF(Prepare)`, `WF(DriveOn)` and `WF(Trigger(t))`: what the process does by
itself goes on. A disk read, a capture, an observation and a conversation read
end, and the trigger loop is a forked fiber that never stops. There is no
fairness on a node function's return (`FnReturns`, `FnFails`): author code may
never return. There is none on any control, on the observer or on `Restart`.

`HeadlessJobs`: the port's calls return (each is bounded by a grace period or is a local
read), timers fire, the trigger loop runs, Cancel's loop goes on, and the row of
a process that ended records it (its supervisor retries the write). There is none on
`ProcessEnds`: an agent may run for ever, and only its timeout ends it. None on
`Check` either, so the liveness does not rest on somebody looking again; that is why a
failed write is excepted in it.
`PtyProcesses`: the launch, an attempt that has begun and the retry go on, the supervisor
takes what its queue has, the poller and the collector come round (`runPeriodically`), and
tmux acts on a request or loses it. This takes for granted that a spawn and `tmux -V`
answer: they have no timeout, and one that hangs keeps its row reserved. There is none
on `ProcessExits`, on the callers or on any other observer.

`Commands`: a launch or stop that holds the lock goes on (its awaits are bounded by the PTY
service), boot goes on, tmux or the operating system answers a request and rows are judged
(`Moves`), and a reconciliation that waits for the lock gets it (`SF(Handle)`: the lock
wakes its waiters in turn, `platform/locks/entity-lock.ts`, so that one is not passed for ever). There is
none on any request, on activation, the audit or a restart. `Sessions` and `Rail` have safety
properties only: nothing promises that a client comes back, or that a read succeeds. So has `AgentTurns`:
that nothing is missed is said of the states in which the observer is at rest, with no event to handle and
no fiber at work, and so needs no fairness.

`ContentStore` has no liveness property: a sweep that is never started collects nothing,
and nothing promises one.

## 5. What is proved

`WorkflowRunProofs` proves, for every `MaxExec`, `MaxInv`, `MaxRestarts`,
`Builds` and `Clients` that satisfy `BoundsAssumption`:

| Theorem | Statement |
|---|---|
| `TypeCorrect` | `Spec => []TypeOK` |
| `OneLeaf` | `Spec => []AtMostOneLeaf` |
| `TerminalForever` | `Spec => TerminalStays`: a completed or cancelled run never moves again |
| `ControlsAreKept` | `Spec => ControlsHold`: both of them, and a paused run moves on only by a control |
| `NothingMovesUnlessActive` | `Spec => ProgressOnlyWhenActive`: nothing completes or starts from an inactive run |

The invariant is `IInv == TypeOK /\ AtMostOneLeaf /\ HeldLeaf /\ BlankRows /\
HeldTarget`. `AtMostOneLeaf` alone is not inductive, for three reasons. A driver acts on
the leaf it read before an await, so `HeldLeaf` says what is left of that
leaf: it entered no child, and it is still open unless the run was cancelled; while
its function or capture runs nothing is saved for it. A new row must
not overwrite one, so `BlankRows` says that the rows from `nextExec` on are
absent. A Retry that awaited an observation repeats the target it read before,
so `HeldTarget` says that the target is still an execution that closed. The proof has one
lemma per family of actions for the types (`...Type`) and one for the rest
(`...Tree`), and `NextInv` puts them together. The two action properties follow
from `IInv` and what a step may do from an inactive run (`InactiveDrive`,
`InactiveStep`).

Its second part goes on from there, for any values of the constants, and with any number of clients but
where it says otherwise:

| Theorem | Statement |
|---|---|
| `ResultsComputedOnce` | `Spec => ComputedOnce`: the next two |
| `CalledOnce` | `Spec => RunsOncePerLife`: a process calls a node's function once |
| `ResultsAreKept` | `Spec => SavedResultKept`: a saved result is never overwritten, a closed execution never reopens |
| `StatusTrue` | `OneRequest` implies `Spec => []StatusIsTrue` |
| `PromiseKept` | `OneRequest` implies `Spec => KeepsPromise`: the engine implements `RunLifecycle` |

`OneRequest` says that no two Resume or Retry requests are in flight at once. Without it both are false of
the code (section 6), and the run that checks them has one client too. Every step of the engine is first shown to
have one of ten shapes (`StepShape` and the lemmas before it: the rows stay, one of them saves, one
closes, a graph is entered, a route steps out of a chain of them, and so on); the invariants are then kept by each
shape, and no action is looked at again. `CInv` adds to `IInv` what a driver that awaits knows of its leaf, and
that a function that was called has saved or is closed or is under way (`RanOnce`); it carries `ComputedOnce`.
`PInv` adds the path. `Numbered` says that rows are numbered as they are inserted, so that a climb goes down
in ids and ends; `PathOK` that the run stands on the execution inserted last, that the running invocations
are those it stands in, and what each status says of them; `Asked`, that what the one request read is still so when it
commits. A climb is not computed but described: `Enclosing(i)` is the least set of invocations with `i` that
is closed under going to the parent's graph, and `EnclosingStep` takes one step of it, so that no
induction is needed. `PromiseKept` is a step simulation over `PInv`: what a step is seen
as is a record of the phase, whether the result of the node stood on is saved, and how many executions
completed, whose number changes by the cardinality theorems of the library.

`ContentStoreProofs` proves, for any non-empty set of contents, any finite set of
captures and any number of crashes:

| Theorem | Statement |
|---|---|
| `TypesHold` | `Spec => []TypeOK` |
| `NothingReferencedIsCollected` | `Spec => []Resolvable` |
| `PutsKeepTheirWord` | `Spec => []GotIsKept` |
| `LedgerCounts` | `Spec => []LedgerExact` |

The argument is that a stale mark never decides alone. While a sweep deletes,
`MarkOrReleased` says of every hash a row references: the mark has it, or it was
released since the mark was read, or the capture that committed it holds it still. Each of
the three makes `IsLiveContent` refuse the candidate, the third because the
ledger counts it (`LedgerExact`, by the cardinality theorems of the library).
`Leases` says that what a `put` returned, and what it is about to publish, is held.

`HeadlessJobsProofs` proves, for any set of jobs and any number of failures and
restarts:

| Theorem | Statement |
|---|---|
| `TypesHold` | `Spec => []TypeOK` |
| `NothingIsOrphaned` | `Spec => []JobsAreOwned`: the next two, and `CancelledIsOver` |
| `JobsAreToldTruly` | `Spec => ToldTruly`: once, and only of a process that ended |
| `RunningIsOwned` | `Spec => []OwnedUntilSettled` |
| `ProcessesAreOwned` | `Spec => []LiveIsOwned` |
| `NothingToldEarly` | `Spec => []EndedBeforeTold` |
| `CancelIsFinal` | `Spec => []CancelledIsOver` |
| `JobsAreToldOnce` | `Spec => ToldOnce` |

Its invariant is about one job's record (`Good`), for only Cancel and a restart
touch more than one. What has to be added to the properties: nobody but the call
knows of a job that is not tracked yet (`Unshared`), who settles has seen the row
over (`SettlesAnEnd`), who stops found the operation ended (`StopsCancelled`), and a
told job is no longer tracked (`ToldIsOver`), so that none of the four who may
settle comes back to it. There is one lemma per action that its record stays good
(`...Keeps`), and `KeptInv` and `AllInv` carry that to the whole state.

`PtyProcessesProofs` proves, for any set of callers and any number of failures
and restarts:

| Theorem | Statement |
|---|---|
| `TypesHold` | `Spec => []TypeOK` |
| `ImplementsContract` | `Spec => KeepsContract`: the service implements `PtyContract` |
| `KillsHaveOneRecord` | `Spec => []KillsAreKept`: `OneKiller` and `KillIsRecorded` |
| `KnownExitsAreKept` | `Spec => ExitsAreKept`: `ReportedExitWins` and `CapturedIsSettled` |
| `RowsTellTheTruth` | `Spec => []OverIsOver` |
| `OneIsToldOfTheKill` | `Spec => []OneKiller` |
| `KillsAreRecorded` | `Spec => []KillIsRecorded` |
| `ReportedExitsWin` | `Spec => ReportedExitWins` |
| `HeldRowsAreLeftAlone` | `Spec => ReservedIsLeftAlone` |
| `CapturedExitsAreSettled` | `Spec => CapturedIsSettled` |
| `EntriesAreOpen` | `Spec => [](handle = "held" => row \in Open)`: node-pty's sweep has nothing to collect |

Its invariant has four parts besides the properties. `Launched` ties the row to
the launch: before the spawn nothing is over, and a row closed while the spawn goes on
has a dead process. `NodePty`: a child of node-pty is in `liveSessions` while it lives, and an
exit that is captured, queued or left to the retry is of a dead process. `Killing`: an attempt
that signals has killed nothing yet, and neither has anybody before it, which is why two are
never told. `Watching`: only tmux is asked, after the launch, and `missing` was true when it
was said. There is one lemma per family of actions, with a case per action, and
`MissingIsJudged` (only an observer or a restart calls an open row missing) carries the
action properties.

`ImplementsContract` is a step simulation on top of that invariant. What an owner sees of a state
is a record of two fields, so `FieldsMakeSteps` first says which changes of the fields are a
step of the contract; then each family of actions (`LaunchFollows`, `EndFollows`,
`TerminateFollows`, `ObserveFollows`, `RestartFollows`) makes one of those changes or none. The
invariant is needed where a row gets its fate: that a process called `ended` or `killed`
is dead, and one called `missing` not alive, is not in the guards of the steps that write it.

`CommandsProofs` proves, for any number of processes, runs, failures and restarts:

| Theorem | Statement |
|---|---|
| `TypesHold` | `Spec => []TypeOK` |
| `LiveStaysKnown` | `Spec => []LiveIsKnown` |
| `OneAtATime` | `Spec => []OneProcess` |
| `StopsHold` | `Spec => []StopHolds` |
| `EchoesAreHarmless` | `Spec => EchoIsHarmless`, the first half of `OutcomesHold` |
| `OutcomesStay` | `Spec => OutcomeStays`, the second half |
| `OutcomesKept` | `Spec => OutcomesHold` |

Its invariant is `TypeOK` and six more parts. `Known` is `LiveIsKnown` from the moment a backend
was asked, for it may start the process in any step after that; `OneProcess` follows from it, since the
newest run names one process. `Placed` says what the rows are at each point of a launch or a stop:
the lock is what makes it true, and it is why a launch that gives up before it has linked its process
leaves none behind, and why a stop comes to rest only after the process it points at is dead. `Pointed`
(the newest run names the process that the state points at) and `Heard` (an announced end is one) are
what an event needs to end a command: the process it ends is the only one that may be there.
`Counted` carries the same through a boot, where nobody holds the lock: what may be there has still
to be met, or could not be cleaned up. `Answers` is `StopHolds` together with the points from which a
launch may begin. There is one lemma per action (`...Keeps`), over a few about what actions have in
common (`FreedKeeps`, `TakenKeeps`, `MovedKeeps`, `HoldsOn`, `StillKeeps`); of the processes they use
nothing but the contract (`ContractIsOnward`: nothing comes back), which `PtyProcessesProofs` shows
of the service.

`OutcomesStay` speaks of the newest run of a process, and needs a second invariant, `Told`, of what the run
rows say of processes that are over. `Stands`: only the newest row that names a process may still be running, and the
launch that passed its prune has one row. `Lone`: while a process may be there its run is the only one, which
is why a stop completes the right one after its kill. `Back`: a row after the first names a process
only if the accounting took that process back, and once its run is completed it is over, so that this
happens once. `Sought`: who is looked for and is in no row any more was pruned, and every other row
with it. `Born` and `Gone` say of whom the rows, the accounting and the dropped processes are. The delicate
case is a survivor that is taken back over the row of another process: that other process would fall back on
an older row of its own, which may say something else; `Back` and `Sought` together show that it
has none. The proof does not go by actions. `StepSound` says what any step does to the processes,
`StepRecounts` what it does to the accounting, and `StepMoves` that it does one of eight things to the
rows (`RowsMove`): leaves them, completes one, sweeps the linkless ones, prunes to one, adds one, links the newest, or
takes a process back, by a stop or by the accounting. For each of the eight there is one lemma (`...Told`) that
`Told` and the outcomes are kept.

`SessionsProofs` proves, for any clients and panes, and any number of processes, changes of the
controller, failures and restarts:

| Theorem | Statement |
|---|---|
| `TypesHold` | `Spec => []TypeOK` |
| `OneAtATime` | `Spec => []OneController` |
| `StreamsAreOne` | `Spec => []OneStream` |
| `AttachesAreCurrent` | `Spec => AttachIsCurrent`: `AdmittedUnderController` and `RejoinIsGentle` |
| `SeenOff` | `Spec => []NothingIsLeftBehind` |

Its invariant is `TypeOK` and four more parts. `Alone` is `OneController` and where the one process
may be: it is the one the row points at, or the one that is being launched, so that whoever finds the row's
process over, under the lock, knows that nothing runs; and it forbids any worker beside it, an ended one
too. `Holding` says what is true at each point of the lock: a handoff is only stopped outside Fluidcast,
a worker is being stopped while a switch or a release closes it, which is why a close may
launch a terminal after it, and a rejoin is still in the pane it was checked in, or in none. `Waiting` says
that the client the lock is held for stays what it was, and for an admission, that the controller does
too. `Streams` is the first half of `OneStream`, and that nobody streams a process that is still being
launched; the second half then follows from `Alone`. What acts without the lock only ends processes and
takes rows and panes away (`BesideKeeps`); the clients change no process (`ClientKeeps`); a launch
starts one where there was none, or where the restore set apart what there was (`LaunchesKeep`); the
controller's moves start none (`ControlKeeps`). `AttachIsCurrent` speaks of steps: `StepsArePlain` says
that all but four actions attach nobody, take the lock for no rejoin and move no session, and
`BeginsGently` and `EndsGently` look at those four. The assumption on the constants is that no client
has the name of another hand that takes the lock, and no pane is called "none".

`SeenOff` needs an invariant of its own, `Left`. A `Keeper` of the session is whoever has it or has still to
see it off: a holder, a release that is pending, or nobody because it went adrift (section 6). `Owned` says that
whatever runs for an agent has one: a worker, the stop of the terminal that precedes one, the launch that follows one.
`Clear` says that no worker comes back once the delete has released the session, and `Aimed` that whoever holds the
lock to end or to launch something knows what; with both, `ProcessesAreSeenOff` is kept. Most steps let go of
nothing (`Quiet`, `QuietKeeps`); for the others there is a lemma per action (`...Leaves`).

`AgentTurnsProofs` proves, for any number of executions, records, failed reads and restarts:

| Theorem | Statement |
|---|---|
| `TypesHold` | `Spec => []TypeOK` |
| `OneOutcome` | `Spec => []OutcomesStick` |
| `NothingMissed` | `Spec => []NothingIsMissed` |
| `Answered` | `Spec => FreshOrFailed` |
| `DeathsReal` | `Spec => DeathsAreReal` |

None of the four properties is inductive, for each speaks of what a fiber does after an await with what it or
another read before. `ToldTruly` says of each turn whose end was told that it was found dead, which sticks,
or that the whole ledger tells the same end, and that what was read of it does, unless the cursor was reset.
It is kept because a ledger only grows (`PrefixKept`, `ReducedKept`) and because the first record that closes
a turn stays the first one (`ReducedStays`, over `MinIsIn`, for which the least number of a set comes from the
library's well-founded induction). `Order` and `Announced` say what the queue holds of executions launched one after
another, `Known` that a switch nobody has noticed is still announced, and `Written` of whom a record is: together
they are why a turn that is found dead is. `Chased` follows the end of the last execution: its event
is queued, or a fiber is about to read, or has read far enough, or the projection has all of it (`ReadIsHeard`).
`Opened` follows the turns that are open when nobody runs. There is one lemma per action that all of it is
kept (`...Keeps`). TLC checked the invariant first.

`RailProofs` proves, for any lists, any number of rows, drops and rows that go and come, and reads and
answers in any order:

| Theorem | Statement |
|---|---|
| `TypesHold` | `Spec => []TypeOK` |
| `MovesStayShown` | `Spec => []MovesAreShown` |
| `ListsConverge` | `Spec => []Converges` |
| `MovesOneRow` | `moveBefore` puts a row right before its anchor, or last, leaves the others in their places, and done again changes nothing |

The first part is about lists of any length with no row twice. `RemoveAt` and `InsertAt` are given place by
place (`WithoutIs`, `InsertIs`), `MoveOnce` is the idempotence that `rail-order-state.ts:67` counts on, and
`SatisfiedIs` says when a move changes nothing: its row is already right before its anchor. That is why a row
that leaves undoes no move (`SatisfiedWithout`), while one that comes may: it comes last. The second part is about `replayed`. That
a function with its equations exists (`ReplayExists`), that what it makes are orders again (`ReplayIs`) and that a list
rests where nothing of it is replayed (`ReplayRests`) are shown by a least time at which it is not so (`Least`, from
the library's well-founded induction).

The invariant need not mention the replay. It has four parts besides the types and the count of
drops. `Timed`: the read in flight began after the one that is held, and nothing younger than
the latter is about to be retired. `Current`: when no list awaits an answer and no row went or came since, the last read
to begin has the present clock, and what it brings is the runtime's order; `Converges` follows, for there is
nothing to replay. `Standing`: the runtime's order has the move it made last in each list. `Lasting`: once the client
has heard of that move it accepted it at some time, and nothing of that list since; a read that began before is
held with the move still to replay, one that began after contains it, and so does the answer to the one in
flight if that began after. `MovesAreShown` follows with `ReplayRests` from that time on. There is one lemma per
action that all of it is kept (`...Keeps`); `SettledIs` is what the two ends of a commit have in common.
TLC checked the invariant first. The assumption on the constants (`RailAssumption`) is that finitely many rows can be
in a list and that the end is none of them.

Two holes of the code are in the statements of `PtyProcesses` and not hidden by the model: a
verdict asked for before an attempt began (`ReservedIsLeftAlone`), and a
cleanup that meets a write left to the retry (`ReportedExitWins`).

Only model-checked: the liveness properties (`AnsweredIsRouted`, `JobsSettle`, `EndsAreSettled`,
`EndedIsNoticed`), which are beyond the prover, as `ENABLED` is.

## 6. Where the code and its documentation differ

* **The collector kills what is being launched** (`sweep`). `cleanupBackendProcesses` reads
  the rows, then awaits `tmux -V` and `list-sessions` (`pty-processes/service/gc.ts:149`). A session
  that starts in between is in no row it read, or in one that still names the placeholder,
  and `adapters/tmux-gc.ts:29` takes it for an orphan: it is killed with its row open.
  Pending launches are excluded from the second phase only, though `gc.ts:46` says that
  the exclusion keeps a live process from being collected mid-launch.

* **The deletion audit may pass over a live process** (`audit`).
  `auditWorktreeCommandIncarnations` reads the links of all commands before it takes a lock
  (`commands/lifecycle.ts:175`). A launch that begins after the stop pass and allocates its
  process after this read is in no link that is audited: the audit passes, and the worktree is
  deleted under the process. `lifecycle.ts:158` says that every incarnation the worktree's commands
  refer to is audited. `LiveIsKnown` excepts one more case (`dropped`): with two failures, the audit
  may take another run for the one it could not verify, and the link to the latter is lost.

Not checked by a run of its own. Of the engine:

* A paused run is not interrupted by a restart: `recoverAtStartup` looks at active runs only
  (`engine/restart.ts:41`). A run paused while its node function was running is left paused with its
  execution running, and Resume runs the function again, though `docs/workflow-engine.md:43` says that
  such a function is marked interrupted and its run fails. `Restart` of `WorkflowRun` has this.
* A Pause that lands while a step loads its build does not stop the node function from starting
  (`engine/drive.ts:72`), though `docs/workflow-engine.md:47` says that Pause stops anything
  new from starting. The model has this step; the result is saved and does not route.
* A build that cannot be loaded leaves a run preparing: `engine/prepare.ts:209` loads it outside
  what is turned into an environment failure, and the fork only logs; `engine/prepare.ts:31` says that a
  throw fails the run. A restart repairs it.
* A wait may be routed by the previous build: the step keeps the artifact it read while it reads a
  conversation (`engine/drive.ts:101`), and a Pause and a Resume in between may change the build;
  `engine/chain.ts:50` says that all author code of a pure step runs from the current build.
* An interrupted job may still run: `recoverAtStartup` marks every running operation interrupted
  (`engine/restart.ts:22`) without a look at its process, which tmux still has; `engine/restart.ts:12`
  says that it is gone. Nothing times it any more, until the collector of unreferenced processes
  meets it (`pty-processes/service/gc.ts:171`).
* A reference may not survive a power failure: after a failed directory sync `commitTemporary` finds
  the blob it has just renamed and reports success (`content-store.ts:551`), and a put that meets a blob
  another has renamed and not yet synced reuses it; neither syncs the directory again.
  `content-store.ts:533` says that without this sync a crash can leave a reference pointing at nothing.

* Two Retry requests in flight at once. A Retry of a run that failed in its preparation reads so before
  `reloadBuild` (`engine/controls.ts:93`), and one of a failed execution picks what to repeat before it observes
  the conversation (`engine/controls.ts:112`); the commits look again only at whether the run is failed. If another
  Retry went on meanwhile and the run failed again further on, the first may send a run that has a root back to its
  preparation, which leaves it running with no leaf and nobody to drive it, or repeat an execution that is no
  longer the last one. `docs/workflow-engine.md:47` says that Retry, on a failed run, repeats the failed execution. With
  two clients TLC finds `StatusIsTrue` violated; that the tree has one leaf, that controls hold and that results
  are computed once is proved for any number of clients.

Of sessions, where a definition of the module excepts what the code does:

* The restore of an ephemeral process launches a second one over a process that a client
  attached meanwhile (`environment/agent-sessions/service.ts:490`): `lost`.
* A worktree delete ends the processes it read before it held the worktree
  (`workspace/worktree-delete.ts:107`, used at line 151), and not those it reads under the
  hold (line 140): a terminal launched during the cleanup of commands survives it.
* An attach launches a controller for a session that no pane holds any more, and a worker whose
  session was ousted by a claim is not released: `adrift`.
* A restart during a tmux launch leaves a process that no row points at: `lost`. The collector of
  unreferenced processes is what ends it.
* A terminal's launch in flight while its pane closes, and the cleanup reads the row before the launch
  wrote it, leaves an unplaced live process; the collector of orphan sessions may delete the row of a
  session whose release is still queued.

Of the observer, each a behaviour of `AgentTurns` that its properties allow:

* A turn that ended may be told as dead, and stays so. A process event writes its fact before it asks for
  the lock (`harnesses/observer.service.ts:773`); a poll that has tailed and not yet projected then takes a turn
  for dead whose stop is in the ledger, and sticky failures go before what is read later. The comment at
  line 778 says that a terminal event requests a final tail first.
* The first prompt of a new execution may be found dead while it lives: a projection that reads it before the
  switch is handled compares it with the execution it knew (`observer-state.ts:307`). `DeathsAreReal` excepts it.
* A first record that an older, silent execution writes after its successor's makes the older one current again,
  and everything the successor writes from then on is dropped (`observer-state.ts:319`).
* What a ledger holds when it is first read after a failure is taken as known (`observer.service.ts:527`): ends
  that happened meanwhile are in the answers of `refreshTurnEdges`, and no event tells of them.

Of the rail: two accepted moves of one list that are replayed over a read older than both, but
served after both (a retry, while another list's move keeps the refresh waiting), show an order that
is neither: over `c b a`, *a before b* and then *b before c* made the runtime's `b c a`, and are
replayed to `a b c`. It is right again with the read that converges. `rail-order-state.ts:67` calls such a
replay harmless. `MovesAreShown` speaks of the last move only, which is shown.

## 7. Plan, and what is not modelled

1. `WorkflowRun`, `RunLifecycle`, with proofs (done). Left out: the deletion of a project's runs, events, and what
   author code computes.
2. `ContentStore`: leases and the collector, with proofs (done). Left out: reads, links in
   the store's root, damaged blobs.
3. `HeadlessJobs`: exit, timeout, stop and cancel racing for one operation row, with proofs (done).
   The operations that prompt or spawn an agent in a pane, or close one, settle in the call that
   starts them, and meet nobody.
4. `PtyProcesses` and `PtyContract`: one process, everybody who may end it or judge it, and what an owner
   may rely on, with proofs (done). Left out: the deletion of unreferenced rows and their pins,
   attachments and their output, replay and logs, foreground state, process trees; the shutdown sweep is a
   set of ordinary attempts.
5. `Commands`, over `PtyContract`, with proofs (done).
6. `Sessions`, with the deletes of the workspace and the Fluidcast worker as they meet it, with proofs (done).
7. `Rail`, with proofs (done).
8. `AgentTurns`, with proofs (done for one stream of Claude hooks). Left out: Codex rollouts and identity, OpenCode,
   attention.
9. `EditorContexts`: ensure, probe and settlement.
10. The desktop's runtime supervisor and updater; the client's terminal stream and caches.

Not to be modelled: React components and the palette, CLI formatting, the static workflow
verifier, schemas, build and release scripts. They keep no state that outlives a call,
or only the state of a view, and no two of their steps race. The platform has no module of its own: its
entity lock is the `op` of `Commands` and `Sessions`, its periodic fibers and its event bus are
the fairness and the queues of the modules that use them. Creating, moving and pruning worktrees is a
sequence of git commands, whose failures are what the workflow engine's preparation meets.
