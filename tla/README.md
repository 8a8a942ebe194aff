# A verification of the oh-my-qwencode team runtime

oh-my-qwencode (`omq`) runs teams of coding agents: a leader and several workers, each in a tmux
pane or a child process, share a directory `.omq/state/team/<team>/`. There is no server. Every
operation (claim a task, finish it, send a message, add a worker, ask for the status) is a
separate operating-system process, or one call in a long-lived MCP server, that reads JSON files,
changes them and writes them back. Whether the team works is a question of how those processes
interleave, crash and overwrite each other's files, and unit tests, which run the calls one after
the other, hardly reach it. These TLA+ modules model that, TLC checks them on small instances and
TLAPS proves the most important properties for all instances.

All paths below are relative to the repository, whose TypeScript lives in `src/src/` and whose
Rust lives in `src/crates/`.

## The system

### Components, their state and their operations

| component | source | state | operations |
|---|---|---|---|
| task store | `team/state/tasks.ts`, `team/state.ts` | `tasks/task-<id>.json`: status, owner, claim (owner, token, lease), version, dependencies | createTask, updateTask, claimTask, transitionTaskStatus, releaseTaskClaim, reclaimExpiredTaskClaim, listTasks |
| locks | `team/state/locks.ts`, `dispatch-lock.ts` | lock directories with a file `owner` | scaling, team (create-task), claim, mailbox, dispatch lock: take, wait, recover when stale, give up, release |
| manifest | `team/state.ts` | `manifest.v2.json` and `config.json`: workers, `next_task_id`, `next_worker_index` | initTeamState, createTask, saveTeamConfig |
| scaling | `team/scaling.ts` | the manifest, panes, worktrees | scaleUp (with rollback), scaleDown (with drain) |
| phase | `team/orchestrator.ts`, `phase-controller.ts`, `state/monitor.ts` | `phase.json`, root mode state `team-state.json` | transitionPhase, reconcilePhaseStateForMonitor, sync of the root mode state |
| runtime | `team/runtime.ts` | everything above | startTeam, monitorTeam, assignTask, shutdownTeam, resumeTeam |
| poll loop | `team/runtime-cli.ts` | its own outcome | poll every few seconds, shut down at the end |
| monitor snapshot, events | `state/monitor.ts`, `state/events.ts` | `monitor-snapshot.json`, `events.ndjson` | read, write; append, read from a cursor, wait |
| worktrees | `team/worktree.ts`, `team/runtime.ts` | git worktrees, the leader's HEAD, `last_integrated_head` per worker | commit, merge, cherry-pick and rebase in a poll; checkpoint, merge and remove at shutdown; remove at scaleDown |
| dispatch and mailbox | `state/dispatch.ts`, `state/mailbox.ts`, `mcp-comm.ts`, `scripts/notify-hook/team-dispatch.ts` | `dispatch/requests.json`, `mailbox/*.json` | enqueue, transition, mark notified / delivered / failed; send, broadcast; queue with receipt or fallback; drain |
| modes, pipeline | `modes/base.ts`, `pipeline/orchestrator.ts` | `<mode>-state.json` | startMode, updateModeState, cancelMode; runPipeline, resume, cancel |
| Rust runtime core | `crates/omq-runtime-core`, `omq-runtime`, `runtime/bridge.ts` | `events.json`, `snapshot.json`: authority, dispatch, replay, mailbox | load, process, compact, persist; init; the bridge that starts and kills it |
| autoresearch | `autoresearch/runtime.ts` | a manifest and git commits | keep or discard loop |
| reply listener | `notifications/reply-listener.ts` | a daemon's state file | start, stop, poll, inject |
| the rest | hooks, HUD, CLI, configuration, openclaw, MCP servers, tmux | small files, terminals | rendering, parsing, I/O |

### How they interact

- Workers, the leader and people at a shell call the **task store** through `omq team api ...`
  (`team/api-interop.ts`) and the MCP server; `monitorTeam` calls it to reclaim tasks whose lease
  ran out; `startTeam` and `scaleUp` call `createTask` in the middle of their own
  read-modify-write of the **manifest**.
- Every write of the task store, of mailboxes, of the dispatch queue and of scaling is under a
  **lock**; the manifest is written under two different locks and under none; the phase file, the
  monitor snapshot and the root mode state are written under none.
- A **poll** (by the loop of runtime-cli, by `omq team status`, by a resume) lists the tasks,
  moves the **phase**, mirrors it in the root mode state and derives **events**; the loop turns a
  terminal phase into shutdown, which deletes the directory that all the others use.
- Messages go through three places, **mailbox**, **dispatch queue** and a tmux pane, with receipts
  and fallbacks between hook, queue and leader. The snapshot remembers which ones were shown.
- Every worker edits a **worktree** of its own; polls carry its commits into the leader's HEAD and
  remember in the snapshot how far they got; scaleDown and shutdown remove worktrees.
- `state/dispatch.ts`, `state/mailbox.ts` and `team/runtime.ts` mirror what they do to the **Rust
  engine** through `runtime/bridge.ts`, an invocation per command, and go on when that fails.

### What is hard, and what makes each component correct

- **Task store**: claims race claims, reclaims, releases and edits; the lease runs out between its
  test and the write; a worker that lost its claim reports late; a process dies with the lock, or
  between the outcome and its event. Correct: one claim at a time, ended only by its own token
  while it runs; outcomes are final and announced at most once; no write is lost; work starts only
  after its dependencies; every call returns.
- **Locks**: the stale directory one looks at is not the one that one removes. Correct: a holder
  keeps its lock, the section is exclusive, only a crash leaves the directory behind, whoever asks
  gets an answer.
- **Manifest and scaling**: whole files are saved from copies of different age, and scaleUp fails
  half-way, or throws where it does not roll back. Correct: the roster stays a possible roster, ids are
  not reused, no running pane is forgotten, but for the last one of a scaleUp that threw.
- **Phase**: polls write back what they made of an older phase; tasks fail, reopen and are added
  while they do. Correct: the phase settles on what the tasks say, the root mirrors it, the loop
  ends, and what it reports is true.
- **Dispatch and mailbox**: receipts race timeouts, retries race deliveries. Correct: a request
  never leaves a final status, a message is not shown twice, and is shown or reported.
- **Worktrees**: a worker goes on committing while its commits are taken over, polls die between a
  merge and its record, git refuses. Correct: what is called integrated has landed, and no change
  gets lost without being reported.
- **Modes**: two exclusive modes started at once. Correct: one at a time.
- **Rust core**: invocations that overlap or are killed between the two files they persist. Correct:
  the log can be replayed, the files agree, what was answered is there after a restart.

`PROJECT.json` lists the hazards one by one, each at its line, with the properties that cover it.

## The modules

| module | models | extends |
|---|---|---|
| `TaskBoard` | abstract: what the task store promises, each operation one atomic step | |
| `TaskClaims` | the handlers of the task store as they interleave, with crashes | `TaskBoard`, instantiates `Lock` |
| `TaskBoard_proofs` | what the operations of `TaskBoard` keep, for the two modules below that use it | `TaskBoard` |
| `TaskClaims_proofs` | theorems about `TaskClaims` | `TaskClaims`, `TaskBoard_proofs` |
| `MCTaskClaims` | instances of `TaskClaims` for TLC | `TaskClaims` |
| `Lock` | abstract: what a lock promises, each step atomic | |
| `DirLock` | the lock directory | instantiates `Lock` |
| `DirLock_proofs` | theorems about `DirLock` | `DirLock` |
| `TeamRoster` | the manifest under startTeam, createTask, scaleUp, scaleDown | instantiates `Lock` |
| `TeamRoster_proofs` | theorems about `TeamRoster` | `TeamRoster` |
| `TeamPhase` | the phase file, its polls, the root mode state, the poll loop | |
| `TeamPhase_proofs` | theorems about `TeamPhase` | `TeamPhase` |
| `MCTeamPhase` | instances of `TeamPhase` for TLC | `TeamPhase` |
| `TeamMonitor` | a poll's other half: reclaiming, assigning, deriving events, the snapshot | `TaskBoard` |
| `TeamMonitor_proofs` | theorems about `TeamMonitor` | `TeamMonitor`, `TaskBoard_proofs` |
| `Delivery` | abstract: what the delivery of messages and instructions promises | |
| `Dispatch` | mailbox, queue, receipts, fallback, acknowledgement and the hook, with crashes | instantiates `Delivery` |
| `Dispatch_proofs` | theorems about `Dispatch` | `Dispatch` |
| `Integration` | commits in worktrees and the leader's HEAD under polls, scaleDown, shutdown | |
| `RuntimeEngine` | overlapping invocations of the Rust engine over its two files | |
| `MCIntegration` | one instance of both for TLC | `Integration`, `RuntimeEngine` |
| `Integration_proofs` | theorems about `Integration` and about `RuntimeEngine` | `Integration`, `RuntimeEngine` |

`map` in `PROJECT.json` names the lines behind every definition.

### TaskBoard and TaskClaims

`task[t]` is the file of a task (`Absent`: no file), `expired[t]` says that `leased_until` of its
claim has passed, `issued[t]` counts the claim tokens handed out. A token is a random UUID in the
code, and is only ever compared with tokens of its task, so it is the number of its grant. Titles,
results, messages and `requires_code_change` are left out: no condition of these operations reads
them. `TaskBoard` has one atomic action per operation.

`TaskClaims` has processes `Proc`, each executing one call at a time through the points between
two awaits: `lock`, `check` (the file has been read under the lock and the call was found allowed),
`announce` (the outcome is written, its event is not), `unlock`, `readSnapshot`, `writeSnapshot`.
The guards that the handler tests before it takes the lock are in the `Call...` actions, those it
tests again under the lock are in `Allowed`; a claim reads its dependencies one file at a time
(`ReadDependency`), as `computeTaskReadiness` does. The writes are `WriteClaim`, `WriteFinish`,
`WriteUnclaim` (release and reclaim), `WriteEdit` (updateTask), and put back whole records made
from the copy `seen`. `Crash` may strike at every point and leaves the lock as `Orphan`;
`RecoverLock` is `maybeRecoverStaleLock`; `GiveUp` is the deadline. The lock of a live process is
not recovered here: `DirLock` is about when that is so.

createTask is given an id nobody uses. The code writes over whatever file has the id, so that this is
an assumption about `next_task_id`: `TeamRoster` shows that it holds until a stale save puts the
counter back (`FreshTaskIds`) and that it fails after one (`TasksKept`). What is checked and proved of
the store and of `TeamMonitor` is so under it.

The clock is not a number: a lease runs out at any moment (`LeaseExpires`), which includes the
moments between a handler's test and its write.

### DirLock

`dir` is the directory: missing, or with an owner file and an age. `pc` gives each process its
place between two file system calls: `mkdir`, writing the owner file, the section, reading the
owner on release, removing, the stat of a waiter and its `rm`. `Age` is the passing of
`LOCK_STALE_MS` (30 s); the constant `SlowHolders` says whether it can pass during a section.
`raced` is a history variable: some recovery has removed another directory than the stale one
it had looked at. The claim lock writes its owner file after the loop, the others in it; nothing
else distinguishes them. `OrphanedByCrash` is about the way out: the owner is compared in one step
and the directory removed in another, and still only a crash leaves a directory that nobody is in.

`Lock` says what callers rely on, in four atomic steps (`Take`, `Give`, `Die`, `Recover`): who is
`inside`, and whether the lock is `orphaned`. `DirLock` maps `inside` to the processes between their
`mkdir` and their `rm`, `orphaned` to a directory that is there with none of them, and implements
`Lock` up to the first racing recovery (`LockUnlessRaced`). `TaskClaims` maps `inside` to the
processes in the section of a task, and its lock of every task is a `Lock` (`LocksAsPromised`). That
is how the two fit together: what one assumes is what the other keeps. `TeamRoster` uses two of them,
the team lock, which it keeps, and the scaling lock, which it keeps until a live holder has lost it
(`LocksAsPromised`).

### TeamRoster

`manifest` holds the next task id, the workers and the next worker index. A worker is a pair of
its number and the invocation whose pane it runs in, so that two workers of one name can be told
apart. Each invocation has the copies it works on: `own` (startTeam, scaleUp, scaleDown) and
`cfg` (createTask, also when scaleUp or startTeam calls it), saved whole by `Save`. `panes` are
the panes that run, `created` the ids createTask has returned. `stale` is a history variable: some
save has put back a copy although the file had changed since it was read. `LaunchWorker` and
`BootstrapFails` choose whether the pane, the worktree and the instructions succeed; what
follows a failure (`Rollback`, `Restore`) is the code's.

Not every failure of scaleUp goes that way. `ensureWorktree`, a file it writes or a lock it cannot
have may throw (`scaling.ts:338, 444, 472, 533, 596`), and then only the `finally` of the lock runs:
`Throws`, at every point at which an invocation writes to or runs something, and `GiveUpCreate`, when
the team lock is not to be had. The worker launched last may be running by then, and is in no roster:
`InHands` says so, and `PanesListed` that it is the only one. The rollback is not taken to fail itself
before it has killed the panes (tmux and the removal of files are asked with errors ignored).

`RecoverScalingLock` takes the scaling lock of any holder, dead or alive: a scaleUp waits up to 45 s
for each worker, a scaleDown 30 s for the drain, and `LOCK_STALE_MS` is 30 s. `robbed` is the history
of that. The roster stays consistent nevertheless, and the panes listed as long as no save is stale.
The team lock is held for two file writes, so that only a dead holder loses it.

### TeamPhase

A poll is `ListTasks` (what the tasks call for: `Target`), `ReadPhase`, `WritePhase` (`Reconcile`,
which walks `Path` step by step with `Advance`, as in phase-controller.ts) and `SyncRoot`, with which the poll
of runtime-cli also draws its conclusion. Tasks are reduced to what
`inferPhaseTargetFromTaskCounts` distinguishes. A phase for which `transitionPhase` would throw is
the value `"thrown"`, outside the type. `looping` are the monitors that are a loop of runtime-cli,
the others are status calls; `Teams` says which of them there are, and in which launch mode.
`DeleteTeam` is the shutdown of the loop, by force when
its gate refuses. Signals are left out: a signalled loop shuts down as a finished one does.
A listing is one step although files are read one by one: tasks only move from open to an end, so
that a mixed listing is the listing of some other order of the same task changes. That workers are
dead is read in the same step, too.

### TeamMonitor

A poll here is `Begin` (read the snapshot), `List`, `Reclaim` (each overdue task is looked at
again), `Scan`, `Assign` / `Dispatch` / `RollBack` (assignTask: claim, tell the worker, give the
claim back when that fails), `Emit` and `Record` (write the snapshot, with the marks of the one it
began with). A report is `Report`, `Announce`, `ReadSnapshot`, `MarkAnnounced`: the steps of
transitionTaskStatus that `TaskClaims` has, over the same snapshot file. The store's operations
are those of `TaskBoard`, atomic, which is what `ImplementsBoard` proves of `TaskClaims`. Which
worker a task goes to is a free choice among the live ones (allocation-policy.ts scores them).
Of the events about workers only `worker_stopped` is there. A poll and a report may be killed at
every step. `Reclaim` and `RollBack` may fail to get the claim lock within its deadline: the first
leaves the task to a later poll, the second leaves the claim (`releaseTaskClaim` says
`claim_conflict`, `assignTask` throws). Two history variables: `settled` are the tasks whose claim
the worker knows of, `stuck` the claims that a poll was killed with or could not give back. A stuck
claim runs although its worker never hears of it, in spite of the comment "Roll back claim to avoid stuck
in_progress tasks on any post-claim dispatch failure" (`runtime.ts:2111`); `ClaimKnown` says that there
are no others, and `OverdueEnds` that a claim of either kind ends after its lease.

### Delivery and Dispatch

An item is a message (`Mail`) or an instruction for a worker's inbox (`Inbox`). `Delivery` has one
atomic step for each thing that can happen to it: written, queued, told, read, marked, and a request
that moves along the edges of its statuses (`Edge`).

`Dispatch` has callers and the hook. A caller is at a point between two awaits: it enqueues (`Reuse`,
`Enqueue`), then, when the mode is `hook`, waits for a receipt (`Receipt`, a poll of `requests.json`
without the lock) and falls back to telling the recipient itself (`Fallback`), or tells at once
(`Type`); then it marks the mailbox (`MarkMail`) and the request, which is a read without the lock and a
write with it (`MarkRead` / `MarkWrite`, `FailRead` / `FailWrite`, `AckRead` / `AckWrite`), because
`state/dispatch.ts` does it that way. Two senders are answered "ok" without anything having been typed:
where there is no tmux to wait with, the request is left to the hook (`LeaveToHook`,
`queued_for_hook_dispatch`; a `post` is such a call of the API), and a message to a leader without a
pane is persisted in its mailbox (`Defer`, `leader_pane_missing_mailbox_persisted`). The hook may type
these later; `LeftBehind` names them, and `AnsweredSettled` says that every other "ok" comes with a
request that is not pending any more. `Poll`, `PollNext` and `PollEnd` are
`deliverPendingMailboxMessages`, with what the snapshot remembers in `recorded`. The hook (`DrainBegin`
to `DrainWrite`) takes the lock, works on its own copy of the queue while it types into panes, and
writes the copy back whole. Processes and the hook die at any step, and an orphaned lock is recovered at
any later moment; panes come and go.

What is simplified, and why it may be:
- `told` is what the sender can know: that the trigger was submitted, or persisted for the leader.
  Whether an agent then reads is its own affair (`read`).
- A mailbox lock is held for one read and one write, so a section under it is one step; the lock of
  the queue is a variable, since the hook holds it while it types. A live hook's lock is not
  recovered: it is held shorter than its staleness limit, apart from which see `DirLock`.
- One worker and the leader. Requests of different workers meet only in the cooldown, which is
  shared here by all items: the key of a trigger is the worker's name, which every trigger contains.
- An identical body that was delivered makes a new message in the code; that is another item here. A
  broadcast is its sends, one after the other. `mailbox-mark-notified` called for its own sake by a
  worker is left out: it lets a caller assert what it likes.
- Five requests per tick (`maxPerTick`) are more than `MaxRequests`; the limit is never reached.
- The cooldown is `hot`: something was typed lately. Whether it has passed is decided when a drain
  looks (`DrainBegin(cold)`).
- `prompt` launch mode uses `prompt_stdin`, which behaves as `transport_direct`: mode `direct`.

### Integration

A commit is the set of changes it makes and the set of commits in its past, its number the order in
which it was made; `log` are all commits, `head` the HEADs. A poll is `AutoCommit` per worker,
`Look` per worker with `Merge` or `Pick` for what it found, `CompareHeads`, `CrossRebase` per worker
and `SaveRecord`. `detached` is the mode of the worktrees: without a branch, as by default, or with
one.

What git is taken to do: a merge of what is in the past already does nothing and succeeds; a
cherry-pick refuses a merge commit and one whose changes are there; `-X theirs` resolves for the
worker, so a pick brings its changes; `rebase -X ours` puts the commits not in the new base on top
of it and may drop the changes of one of them, the conflicting side; every command may refuse, after
which the code aborts it and the repository is as before. The history variables hold
what is lost, or may be: `overruled` by a rebase that drops changes, `drained` with the worktree
scaleDown removes, `reported` as not merged in the report of shutdownTeam, and `untold` at shutdown
without a word. The last is what `Checkpoint` and `CheckpointFails` model: when `git status` fails,
nothing is taken for uncommitted (`runtime.ts:675-676`); when `git add` or `git commit` fails,
`prepareShutdownMergeReport` returns before a report is written or printed (`681-693`, `702-714`), its
result is dropped (`765`), and a detached worktree is removed with `--force` (`worktree.ts:444`).

What is simplified: one poll at a time (two that overlap in `omq team status` are another instance,
not checked); killing a worker takes effect; shutdownTeam's work on one worktree, whose worker it has
killed, is one step; the loop's order over workers is some fixed order (`Turn`); worker status files
are free, so any visit may find a worker resting or not; all worktrees were made by the team. A poll
that outlives shutdownTeam writes its snapshot into a directory it makes anew, as the code does.

### RuntimeEngine

An event is a pair of what was done and to what. An invocation loads `events.json` under a shared
lock (`Begin`, which also applies its command), takes the exclusive lock later (`LockFiles`), writes
`snapshot.json`, truncates `events.json`, writes it (`WriteSnapshot`, `Truncate`, `WriteEvents`) and
answers. It may be killed by the bridge's timeout at any point, its persist may fail and be ignored,
and `omq-runtime init` starts a new engine over the files. Since load and persist are separate
sections, overlapping invocations overwrite each other's events: the history variable `overrun`
holds what was lost in that way, to a persist that stopped halfway or to an init. `mailbox.json`,
written between the two files, is folded into `WriteEvents`: it is not read. Message bodies are not
in the events (a replay makes them empty, `engine.rs:363`) and not in the model. Ids are new ones,
except that two layers queue a critical inbox dispatch under ids of their own, which are two requests
here. `RequestReplay` and `CaptureSnapshot` change nothing that is read back; no caller in
TypeScript acquires the authority or passes `--compact`, but the engine offers both, so both are
there.

`MCIntegration` runs `Integration` or `RuntimeEngine`, chosen at the start by `which`: they share no
state, so each is checked while the other rests. It is there for TLC only; the theorems are about
`GitSpec` and `EngineSpec`.

## What is checked

The runs (in brackets: distinct states; each takes less than four minutes with two workers).

| run | configuration | shows |
|---|---|---|
| task_claims | `MCTaskClaims.cfg` | with one task, two workers, two processes, all operations racing (336,620): types, one live claim, truthful events, final outcomes, no lost write, the lease protects the claim; every call returns; the store implements `TaskBoard` |
| task_dependencies | `MCTaskDependencies.cfg` | with two tasks, one depending on the other from the start or by an edit: whatever is granted has its dependencies completed |
| dir_lock | `MCDirLock.cfg` | three processes, two of which may crash, sections shorter than 30 s: until a recovery races another the directory implements `Lock` and is left behind only by a crash; askers return |
| team_phase | `MCTeamPhase.cfg` | two tasks and either the poll loop with a status call, in both launch modes, or two status callers and no loop (423,736): types, the phase settles and the root mode state follows, the loop ends, success is reported only when true |
| team_monitor | `MCTeamMonitor.cfg` | one poll at a time and one report, both may be killed, one task with two claims, one worker that may die, both launch modes (360,283): types, no false completion, no claim left to nobody but the stuck ones, overdue claims taken back, ends announced |
| team_monitor_events | `MCTeamMonitorEvents.cfg` | violation: a completion is logged twice |
| team_roster | `MCTeamRoster.cfg` | startTeam and two more invocations of any kind that may throw, crash or lose the scaling lock (2,644,987): types, roster, ids, panes |
| team_roster_tasks | `MCTeamRosterTasks.cfg` | violation: createTask writes over a task that startTeam created |
| dispatch | `MCDispatch.cfg` | a leader that polls and instructs, a process that sends and acknowledges, and the hook, two requests, one crash, both dispatch modes, panes that come and go (2,630,000 or so): types, marks are true, an "ok" comes with a settled request or one left behind knowingly, `Dispatch` implements `Delivery` |
| dispatch_liveness | `MCDispatchLiveness.cfg` | one caller and the hook, no crashes (133,240): calls return, the hook serves or fails what is for it, messages reach a worker that lives |
| integration | `MCIntegration.cfg` | two workers and both kinds of worktrees, two changes, one fault; or two invocations of the engine and four commands (2,934,516 together): what is called integrated has landed, the leader's HEAD loses nothing, no change is lost but in the ways recorded; the log replays, the files agree, what was answered is kept |
| integration_detached | `MCIntegrationDetached.cfg` | violation: commits of a detached worktree are called integrated and are not |

### Bounds, and why they are enough

- *task_claims*: the operations only relate the processes of one task, so one task is enough for all but
  dependencies. Two grants (`MaxClaims`) are needed for a late report after a takeover, and an edit
  (`MaxVersion` 2) for a stale copy. Two processes give every race of two calls; a crashed process comes
  back as another. Proved for all bounds, see below.
- *task_dependencies*: the readiness of a task depends on single other tasks; one dependency that is
  there from the start or comes by an edit, while another process finishes it, is the case that matters.
  Processes and workers are symmetric; the property has no liveness, so symmetry is sound.
- *dir_lock*: the race takes a crashed holder and two waiters, so three processes.
- *team_phase*: two tasks are what it takes to have one failed and one open; one fix attempt lets the
  limit be reached; two monitors give every race on the phase file. A team that nobody loops over is
  checked in one launch mode, since only the loop looks at it.
- *team_roster*: a start, an invocation that scales up and one that scales or creates in the middle of
  it. `Batch` 2 lets a scaleUp fail after its first worker, `MaxWorkers` 3 lets two of them compete for
  room, which two that overlap do once one has lost the scaling lock.
- *team_monitor*: one task, since events and claims relate the processes of one task; two claims for a
  report that comes late. Two polls at once, with one claim, were checked too (safety: 11.9 million
  states; liveness, without reports: 287,549), with no error. `Many` 1 is enough to know that an event
  was logged; the violation counts to 2.
- *dispatch*: one item per behaviour (`Menus` of one: a message for the worker, one for the leader, or
  an instruction), since every rule is about the requests of one item; two requests of it, because a
  second one may be queued when the first has left `pending`, and the hook then copies both. Two callers
  give a receipt that races a fallback, two fallbacks, and a mark that races an acknowledgement; one
  crash leaves an orphaned lock or a half-done call.
- *dispatch_liveness*: what takes a message from the worker is another item's turn in the cooldown, so a
  message and an instruction are sent together.
- *integration*: one fault is enough to lose a poll between a merge and its record, or a rebase its
  commit, or shutdownTeam a checkpoint or a merge; two changes let a worker commit after it was looked
  at, or let worker and leader diverge. One worker with three changes and two faults (573,604 states),
  which reaches a pick of several commits that stops in the middle, holds too.
- *RuntimeEngine*: two invocations and four commands let one overwrite a log that has grown by two since
  it was loaded, and let a request be queued, notified, delivered and compacted.

Deadlock is not checked where the bounded calls run out (tasks, roster, engine) and where the team is
deleted (phase, integration), nor in `TeamMonitor`, where work runs out. `DirLock` and both runs of
`Dispatch` check it.

### Fairness

- `TaskClaims`: a process in the middle of a call goes on (awaits complete, the deadline passes).
  Nobody has to start a call, and neither expiry nor crash nor recovery is fair.
- `DirLock`: the same, and a process that waits again and again sees its deadline pass (`SF` of
  `GiveUp`, which is enabled only between two attempts): the code compares the clock with a deadline
  set once. A crashed process has no enabled step, so fairness asks nothing of it.
- `TeamPhase`: a started poll goes on, and the loop of runtime-cli starts the next one, since it is
  a `while` with a sleep. Nobody has to work and nobody has to ask for the status: the properties
  about settling have the premise that polls go on for ever, which is a fact about people.

- `TeamMonitor`: a started poll goes on; premise as for `TeamPhase`. A poll that asks for the claim lock
  of a task again and again gets it some time (`SF` of `TakenBack`): what is done under the lock is a
  few file operations, and `AskersReturn` and the recovery of `DirLock` see to the rest. A single
  time-out, or any number of them, is allowed. Reports need no fairness.
- `Dispatch`: calls and drains that have begun go on, stale locks are recovered. The watcher drains on
  every tick, and the lock is free again and again, so a drain begins (`SF`, as other processes have
  the lock in between); that it does so again and again with the cooldown passed (`DrainBegin(TRUE)`) is
  time going by: the cooldown is a length of time, and a trigger that is only skipped does not
  renew it. Nobody has to send, to poll or to acknowledge, and no pane has to live: `MailShown` has
  both as its premise.
- `Integration` and `RuntimeEngine` have no liveness properties, and no fairness: whether a poll comes
  or git succeeds is up to others.

### Divergences: what the violations say

The first two are instances to run by hand, the other three are runs.

1. `MutualExclusion` (DirLock, `MCDirLockExclusion.cfg`). `maybeRecoverStaleLock` (`locks.ts:17-28`)
   stats the directory and removes whatever has its name then. Two waiters that saw the same stale
   directory: the first removes it and takes the lock, the second removes the directory of the first and
   takes the lock too. The comment says "File-based scaling lock to prevent concurrent
   scale_up/scale_down operations" (`team/state.ts:1125`). It takes a crashed holder; nothing short of
   it, as `ExclusionUnlessRaced` proves.
2. `FixLoopBounded` (MCTeamPhase, `MCTeamPhaseFixLoop.cfg`). When the limit is exceeded the phase
   becomes `failed`, but the next poll sees the same failed tasks, whose target `team-fix` is not
   terminal, and reopens the team with `current_fix_attempt` 0 and the reason `tasks_reopened`. The test
   says "enforces bounded team-fix loop and transitions to failed with reason"
   (`__tests__/orchestrator.test.ts:49`).
3. `TasksKept` (TeamRoster). `startTeam` creates its tasks and then saves the config it had before
   (`runtime.ts:1540`, `1655`), putting `next_task_id` back to 1; scaleUp does the same
   (`scaling.ts:596`). The next createTask writes over task 1. A test says "createTask does not
   overwrite existing tasks when config next_task_id is missing" (`__tests__/state.test.ts:1187`).
4. `NoDuplicate` (TeamMonitor). `monitorTeam` looks for the mark "already announced" in the snapshot it
   read before it listed the tasks, and `transitionTaskStatus` sets the mark after the event, in a file
   that `monitorTeam` writes back with the marks it began with. A report during a poll is logged by
   both. The test says "monitorTeam does not emit duplicate task_completed when transitionTaskStatus
   completed the task first (issue #161)" (`__tests__/runtime.test.ts:3262`).
5. `IntegratedIsLanded` (Integration). For a worker that is ahead of the leader, the poll merges the
   branch that `rev-parse --abbrev-ref HEAD` names in its worktree (`runtime.ts:437`). In a detached
   worktree, which is the default (`runtime.ts:818`), the name is `HEAD`, and `git merge HEAD` in the
   leader's directory merges the leader with itself: it succeeds, nothing lands, and the snapshot, the
   event and the message to the leader say that the commit was merged. Later polls look at the recorded
   commit first. The test says "monitorTeam uses merge for worker cleanly ahead of leader (hybrid merge
   path)" (`__tests__/runtime.test.ts:2006`), with a worktree that has a branch; for those
   `NamedIsLanded` is proved. `shutdownTeam` merges by hash, so that what is still in the worktree then
   is not lost.

The opposite is an exception in `CompletionAnnounced`: a *refused* report of a completion sets the
mark as well (`tasks.ts:188-202` runs whatever the section under the lock returned), so that the
monitor will skip the task when it is completed by a process that dies before it logs that.

Two more disagreements between phase and tasks are permanent, and are exceptions in `Agrees`: among
terminal phases the first one stays, and `team-verify` has no way back to `team-exec`.

## What is proved

By TLAPS, for every value of the constants that satisfies the named assumptions.

| theorem | says |
|---|---|
| `TaskBoard_proofs!BoardClaimsAreExclusive` | `[]OneLiveClaim` of the atomic store |
| `TaskClaims_proofs!TypeCorrect` | the variables keep their types |
| `TaskClaims_proofs!ClaimsAreExclusive` | `[]OneLiveClaim` |
| `TaskClaims_proofs!EventsAreTrue` | `[]EventsMatchOutcome` |
| `TaskClaims_proofs!OutcomesAreFinal`, `WritesAreSerial`, `LeasesProtect`, `GrantsAreReady` | the four action properties |
| `TaskClaims_proofs!ImplementsBoard` | `Spec => BoardSpec`: the interleaved store implements the atomic one |
| `DirLock_proofs!TypeCorrect` | the types of the lock |
| `DirLock_proofs!LeftByCrash` | with sections shorter than `LOCK_STALE_MS`, `[]OrphanedByCrash` |
| `DirLock_proofs!LockIsKept`, `ExclusionUnlessRaced` | with sections shorter than `LOCK_STALE_MS`, the lock excludes until a recovery races another |
| `DirLock_proofs!ImplementsLock` | under the same assumption `Spec => LockUnlessRaced`: the directory implements the atomic lock until then |
| `TaskClaims_proofs!UsesLocks` | `Spec => LocksAsPromised`: the lock of every task is that atomic lock |
| `TeamPhase_proofs!PhaseTypes` | `[]TypeOK`: no poll, however old the phase it has read, makes `transitionPhase` throw |
| `TeamPhase_proofs!CompletedTruly` | `CompletedIsTrue` |
| `TeamRoster_proofs!TypeCorrect`, `RosterStaysConsistent`, `IdsAreFresh`, `PanesAreListed` | the four invariants of the roster |
| `TeamRoster_proofs!LocksUsed` | `Spec => LocksAsPromised`: the team lock is that atomic lock, and the scaling lock is until a live invocation loses it |
| `TeamMonitor_proofs!TypeCorrect`, `EveryClaimKnown`, `CompletionsAreTrue` | the three invariants of the monitor |
| `TeamMonitor_proofs!MonitorUsesBoard` | `Spec => BoardSpec`: the monitor and the reports only use the operations of the store |
| `Dispatch_proofs!TypeCorrect`, `NotifiedTrue` | the two invariants of delivery |
| `Dispatch_proofs!Answered` | who is answered "ok" has its request settled, or has left it to the hook or to a leader's mailbox without waiting |
| `Dispatch_proofs!Implements` | `Spec => D!DeliverySpec`: callers, hook, lock, time limits and crashes implement the atomic delivery |
| `Integration_proofs!NamedLanded` | with branches, what the snapshot calls integrated is in the leader's history |
| `Integration_proofs!WorkKept` | no change of a worker is lost but in the four ways that are recorded |
| `Integration_proofs!HeadGains` | `LandedStays`: the leader's HEAD never loses a change |
| `Integration_proofs!GitTypes` | HEADs, records and pasts are commits of the log, and pasts point backwards |
| `Integration_proofs!EngineTypes` | the types of `RuntimeEngine` |
| `Integration_proofs!EveryLogReplays`, `SnapshotAgrees`, `AnswersAreKept` | the three invariants of `RuntimeEngine` |

**TaskClaims.** The bounds are assumed to be of their types, nothing more: any number of processes,
tasks and workers. `OneLiveClaim` alone is not inductive: a process may be about to write a copy
that is out of date. `IInv` adds that a process in the section holds the lock (`Holding`), that the
copy it is about to write is the file, and that its call is still permitted apart from the passing
of time (`Reading`: the conditions checked are kept, since nobody else can write), and that an
outcome not yet announced is in the file and not logged (`Announcing`). `EventsMatchOutcome` then
follows because a finished task is never written by anybody but an edit. The dependencies are in
`Reading` as well: those read so far are completed, and stay so because outcomes are final, which
is why they may be read without their locks. Each step of the refinement is either one step of the
board (the write) or a stutter.

**DirLock.** `TypeOK` is inductive for itself. The rest assumes `~SlowHolders`: either a recovery
has raced, or at most one process is between its `mkdir` and its `rmdir` (`OneHolder`), it has its
directory, fresh, and with its own name once that is written. A waiter may be about to remove the
directory it saw: the only step that could break this, and the one that sets `raced` if it does.
Hence making the directory finds nobody inside, removing it leaves nobody, and a recovery that does
not race removes what nobody holds: the steps of `Lock`. `TaskClaims` needs only `Holding` for its
side, that a process in the section is the one its lock names.

**TeamPhase.** A poll writes what it makes of a phase that other polls may have left long ago, so the
proof is about `Reconcile` for every phase and every target. Each path of `buildTransitionPath` is
a chain of transitions of `orchestrator.ts` on which only the last phase is terminal or `team-fix`
(`PathChains`), so walking it never reaches a transition that `transitionPhase` refuses, and ends
where the path leads or, when fixes are used up, in `failed` (`WalkEnds`). That the phase file is
`complete` between a poll's write and its conclusion says nothing, others write too; what the poll
has in hand does (`SyncInv`): it is `complete` only if its own tasks called for an end.

**TeamRoster.** Whole-file saves keep what *every* copy satisfies, so `IInv` says `Consistent` of the
file and of all copies (`CopiesSound`), that scaleUp's additions come after what it found and fit
(`Additions`), that scaleDown leaves somebody (`Removals`), and who holds which lock (`LocksHeld`).
`LocksHeld` goes both ways: who is inside holds the lock, unless it was `robbed` of the scaling lock, and
who holds it is inside or dead; so each step is a step of `Lock` or leaves it alone (`TeamLockUse`,
`ScalingLockUse`). None of the other invariants uses the scaling lock: with it lost, two invocations
resize at once, and what keeps the panes known is that a record names a worker only after the scaleUp
that launched it has added it (`AddedFirst`).
Ids are below the counter and panes are known up to the first stale save (`IdsBelowCounter`,
`PanesKnown`). The proofs use the cardinality theorems of finite sets.

**TeamMonitor.** Every step is first shown to be an operation of `TaskBoard` or to leave the store alone
(`StepsOnBoard`), so that the types of the store, `OneLiveClaim` and the finality of completed tasks
come from `TaskBoard_proofs`. `ClaimKnown` needs two more facts: a poll has exactly one claim in hand
from its grant until the worker is told or the claim given back, and none elsewhere (`Telling`), so that
no grant pushes another out of sight; and `OneLiveClaim`, by which releaseTaskClaim, once it has the
lock, cannot refuse a claim that is still in force. `CompletionsTrue` needs that whatever a poll has
listed as completed, however long ago, is completed (`ViewsTrue`).

**Dispatch.** A caller acts on what it read without the lock, so nothing it knows need still be true.
What remains true is relative: under the lock requests only move on (`Progress`), so a request that
was seen to be no longer pending is not pending (`ReadInv`), and a recipient that was told stays told
(`CallInv`: whoever is about to mark knows that). The hook writes back a whole file; nobody else has
had the lock, so the copy differs from the queue only by what the hook has done to it (`HookInv`), and
each of those differences is an edge. `QueueInv` is `NotifiedIsTrue` with the facts that requests are
about items that were sent, and at most one of an item is pending. `AnsweredSettled` is about the
steps that answer "ok": either the request was seen, or marked, as not pending, or the call never
waited, and then where it was going says which of the two kinds it is. Every step then is one of
`Delivery`, or a stutter.

**Integration.** The log only grows, and the past of a commit is fixed when it is made (`LogInv`,
`Longer`), so the leader's HEAD only gains changes, whoever moves it (`HeadGains`). `NamedIsLanded`
needs that commits are picked oldest first: what is in the past of the commit to be picked, and not
queued any more, has landed (`PickInv`), so that the record may advance to a commit although the pick
brought only that commit's own changes; and that all copies of the record a poll has in hand are as true
as the file (`RecordOK`, `NamedInv`). `WorkIsKept` is shown of all steps at once: a worktree keeps what
it has through commits and rebases, apart from what is recorded (`Keeps`), and a worktree that
shutdownTeam has reported on has nothing that has not landed, been reported or gone untold, since its
worker is dead and polls only rebase and commit what is there (`ShutInv`).

The types of `Integration` need those invariants as well, since a record that is a commit stays one
only because the log keeps its commits.

**RuntimeEngine.** `EngineInv` is about all logs there are, in the file and in the memory of every
invocation, whoever has overwritten whom: each replays without a refusal, and the requests of an
engine are what its log replays to (`Readable`). Appending an accepted event keeps this
(`ReplaysAppend`). Compaction keeps it because it drops *all* events of the requests that have ended
and no others, so that a replay of the rest goes through the same states but for those requests, which
stay `none` (`WithoutReplays`, `Compacted`), and nothing that was pending or notified is dropped
(`FilesAgree`). Who holds the exclusive lock is the one that writes, and until it is done `snapshot.json`
is its own (`Locking`). An answered event is in the file, or, while a log is written, in that log,
unless it is `overrun` or its request is over (`Answers`); `Recorded` says that nothing else is missing
from a log with respect to the one it was loaded from.

These are facts about every log, thus inductions. `Replay`, `Without` (and `Walk` in `TeamPhase`) are
recursive functions; that they are functions with the equations written down, and the inductions over
the length of a log, are proved from the principle that a set of numbers has a least element
(`Least`, `UpTo`, `Recursion`), which the library's theorem on well-founded relations (`WFMin`) gives
without an operator parameter.

**Only model-checked**: all liveness (`CallsReturn` of both modules, `AskersReturn`, `PhaseSettles`,
`RootSettles`, `LoopEnds`, `OverdueEnds`, `CompletionAnnounced`, `StopAnnounced`, `RequestsServed`,
`MailShown`), which is beyond the prover used. Every safety property that a passing run checks is
proved. The task store and the roster are joined to their locks by `Lock`; the lock of the
dispatch queue is still taken to exclude, with a live holder's lock not recovered.

## What is not modelled

- Formatting, parsing and validation of requests; the terminal, git and tmux: their outcomes are
  nondeterministic choices where the state depends on them.
- Torn writes: `writeAtomic` renames a complete temporary file, so a file is replaced in one step.
- Sections longer than `LOCK_STALE_MS` inside `DirLock`: its constant `SlowHolders` has them, but no run
  sets it, since nothing is promised then. What a lost scaling lock means is in `TeamRoster`; the other
  locks are held for a few file operations, and the hook's for less than its own limit.
- A pane that tmux refuses to kill.
- Overlapping polls in `Integration` and the handshake with workers at shutdown (request,
  acknowledgement, timeout): the former is a larger instance, the latter ends in the gate or in the
  kill, which are both there.
- The resume of a team, nudges, notifications and the HUD: they read what is modelled.
- The components listed with `not_modelled` in `PROJECT.json`, each with its reason. Most of the
  repository by size is command line, set-up, terminal control, text and rendering, in which no two
  actors share state; the modules are about the files that processes share.

## Plan

What is left, in this order.

1. `Modes`: startMode of exclusive modes without a lock, and the pipeline on top. Run: two starters.
2. Overlapping polls in `Integration`, with what their snapshots then say.
3. Autoresearch's keep-or-discard loop over commits and its manifest, with a crash in between.
4. Proofs: the lock of `Dispatch` as an instance of `Lock`; the theorems that the new
   modules above call for.
