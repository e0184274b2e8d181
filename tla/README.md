# cline-console in TLA+

cline-console drives the Cline extension of VS Code from the command line. Each
VS Code window that has a workspace open runs the cline-console extension, which
owns a FIFO of prompts for that workspace and feeds them to Cline one at a time;
a singleton user service watches the windows. This directory holds TLA+ modules
translated from the sources, TLC runs over small instances of them and proofs
checked by TLAPS. `PROJECT.json` maps every definition to source lines.

Line numbers below are those of `src/src/extension/task_queue.ts` unless a file
is named.

## 1. Inventory

| Component | Source (under `src/src/`) | State | Operations |
|---|---|---|---|
| Item state graph | `extension/task_flow.ts` | none | `queueStateTransition` |
| Task queue | `extension/task_queue.ts` | records, pause flag, owned and exempted sessions, markers; one worker, one policy monitor, one abort controller; the queue file | enqueue, enqueue message, replace, clean, trim, remove, skip-waiting, pause, resume, continue, relaunch, override, confirm, next, clear, start, stop |
| Completion gates | same, `process()` 949-1177 | per-record markers and counters | scope, overflow, failure, timeout, audit, recommendations, verification, child, reflection |
| Message delivery | same, 1321-1342, 1773-1783 | the delivery chain | select the thread, send, look for the message in the transcript, up to three times |
| Handoff monitor | same, 779-819 | handled and compacted markers | continue, compact or suppress a new-task handoff |
| Completion monitor | `integrations/cline/completion_monitor.ts` | a terminal candidate and a deletion deadline per wait | poll Cline's files until a result is stable |
| Cline adapter | `integrations/cline/legacy_4_1_6.ts` and others | none of its own | new, resume, send, interrupt, cancel |
| Entry point | `extension/extension.ts` | the active server and queue | start, stop, deactivate |
| IPC server | `extension/server.ts` | socket, registration, status cache | one request per connection, many connections at once |
| Registry, writer lease | `extension/workspace_registry.ts` | one registration file per workspace | register, unregister, owns |
| Window watchdog | `service/daemon.ts` 272-359, `extension/hangup_detector.ts` | missing-since, reopen cooldowns, in-flight sets | reopen closed windows, recover unresponsive ones |
| Model arbiter | `service/daemon.ts` 361-579 | owner, preempted, released-at, preference per model | preempt, restore, relaunch |
| Restart requests | `service/daemon.ts` 581-686, `service/restart_request.ts` | request files | write, claim, execute, put back, expire |
| Client | `client/*` | none | one request per command; `--watch` polls |
| History | `history/history_store.ts` | append-only SQLite journal | record events |
| Hangup detector | `extension/hangup_detector.ts` | none | ping, restart an extension host, open a window |
| Supervision, cleanup, token usage, logging | remaining files | reports only | |

How they interact. The client connects to the window's socket (or to the
service, which forwards); the server calls one method of `TaskQueue` per request
without queueing requests, so several methods may be suspended at their awaits
at the same time. The queue's worker calls Cline through the adapter and learns
what happened by polling the files Cline writes. The policy monitor is a second
loop beside the worker. Both obey one `AbortController`. Everything that must
survive is in the queue file, replaced atomically by `persist()`. The service
requests preemption, restoration and relaunch over the same sockets and restarts
extension hosts on request files the queue writes.

What is hard. The extension host is single-threaded, so code between two awaits
is atomic, but every await is a place where another command, the worker or the
policy monitor runs; seven commands abort the worker, wait for it and then
replace the controller; the host dies at any point and restarts from the file;
Cline is a separate program with a user in front of it, whose threads end, wait,
are resumed and are deleted without the queue's knowledge; calls to Cline and
writes fail. The hazards, at their lines, are in `PROJECT.json`.

What makes each component correct:

- *Item graph*: terminal states are absorbing.
- *Task queue*: FIFO; one running record; a record is written as running before
  its prompt is submitted; a bound record is never submitted again; nothing
  active is lost except by a command that removes it; a command never deadlocks
  with the worker; no wakeup is lost; records advance.
- *Gates*: every accepted completion passed each gate that applies; each
  correction is requested once per claim; all counters are bounded.
- *Delivery*: a message reaches the session it is for, once, unless a call the
  queue gave up on takes effect after all.
- *Handoff monitor*: a handoff is answered once; the circuit breaker trips.
- *Completion monitor*: the marker of a result names one entry of one thread, so
  that a result is handled once.
- *Registry and lease*: an acknowledged record is in the file; a queue that lost
  the registration stops.
- *Arbiter*: at most one running queue per model; every preempted queue is
  eventually restored.
- *Restart requests and watchdog*: each request is executed once; a host is
  restarted only on evidence against itself; a workspace with records gets a host
  back.

## 2. Modules

| Module | Contents |
|---|---|
| `TaskFlow` | the state graph of one record |
| `TaskQueue` | one workspace's queue: records, file, worker, commands, policy monitor, Cline's threads, host crashes; properties and mutants |
| `FifoQueue` | what a workspace queue promises: the abstract specification |
| `TaskQueueFifo` | the refinement mapping: `TaskQueue` implements `FifoQueue` |
| `MCTaskQueue` | the instances TLC checks |
| `TaskQueueProofs` | type correctness and one running record, for all constants |
| `TaskQueueSafetyProofs` | the effects of a step on the records, and what follows from them: the order of dispatch, no lost record, the worker's item, what the file has |
| `TaskQueueFifoProofs` | the refinement of `FifoQueue`, step by step |
| `Transcript` | what the completion monitor reads in a thread: the scans as operators over a log of entries |
| `CompletionGates` | one record from its first report to its end: monitor, gates, corrections, verification, failures, fresh threads, restart requests, recovery |
| `CompletionGatesProofs` | types, flags, requests, the accepted completion, fresh threads, verifications and corrections, for all limits and disturbances |
| `Delivery` | messages to Cline's threads over calls that fail or land late, and the new-task handoff monitor |
| `DeliveryProofs` | types, handled markers, strays, copies and compactions, for all threads and attempts |
| `QueueHosts` | the extension hosts of one workspace: registration, socket, start and stop, lease, chained writes of the queue file |
| `QueueHostsProofs` | types, and where an answered record is, for all hosts and records |
| `WindowRestarts` | who ends and who brings back a workspace's extension host: restart requests, watchdog, companion recovery, the client |
| `WindowRestartsProofs` | types, the bound on restarts of a request, and the evidence for a restart, for all constants |
| `ModelArbiter` | several workspaces on one LM Studio model: the service's arbitration loop, explicit resumes, the requests inside the windows, lost and late requests, the service's death |
| `ModelArbiterProofs` | types, the lease of a queue whose companion is replaced, the session of an interrupted head, for all workspaces |
| `MCModelArbiter` | the instances TLC checks |

How the modules divide the system. `TaskQueue` has the whole queue and abstracts
what happens around one record to its outcome: the gates to retained, accepted or
failed, a message to sent or not, a write to one step, the host to up or down.
`CompletionGates`, `Delivery` and `QueueHosts` each open one of these outcomes,
and `WindowRestarts` says when hosts come and go. They share no variables: what
one abstracts, the other leaves alone, and each makes the other's part
nondeterministic (a host may restart at any step of `CompletionGates`, a restart
request of `WindowRestarts` may be written at any time).

`ModelArbiter` and `TaskQueue` look at the same queue from two sides and do not
share variables: the arbiter sees of a queue only its head's session, the state of
its thread, the pause flag and the conflict, and that is what `ModelArbiter`
keeps, for several workspaces.

### TaskQueue: state

| Variable | Code |
|---|---|
| `mem` | `this.data`: `state` and `order` are `items`, `paused`, `bound` (the records with a `sessionId`, all of them in `ownedSessionIds`), `exempt` (`ignoredWaitingTaskIds`), `last` (the completed record with the latest `finishedAt`) |
| `file` | the queue file |
| `created` | how many record ids exist |
| `up` | the host has loaded the queue |
| `worker` | the promise of `process()`, as a program counter and the local `item` |
| `policy` | `this.policyWorker` |
| `aborted` | `this.abortController.signal.aborted` |
| `recovering` | `restartRecoveryPending` |
| `cmd` | per request in flight: method, where it is suspended, its local item |
| `thread`, `latest`, `starts` | Cline: status of the newest thread of each record, the record whose thread is the workspace's latest, how often its prompt was submitted |
| `used` | what has been consumed of the bounds |

A record is a number, and the first use of a number is the creation of the
record. `thread[i]` for a follow-up message stands for the session it is sent
to; the session of an item and the fact that it is owned are one thing
(`bound`), because `onSessionObserved` and relaunch write both together.

### TaskQueue: actions

One action is the code from one await to the next.

- `WorkerStart`, `RecoverUnbound`, `RecoverBound`, `RecoverNone`: 821-877.
- `WorkerLoop`, `WorkerDispatches`, `WorkerSubmits`: 879-919. The two idle waits
  and the cooldown are one wait whose end re-evaluates pause, abort and the
  record's state, as lines 898-899 do.
- `MonitorAborts`, `MonitorAdopts`, `MonitorSeesDone`, `MonitorRetains`,
  `MonitorAccepts`, `MonitorFails`, `MonitorMissesThread`: what
  `waitForLegacyTaskCompletion` reports and what lines 942-1179 make of it. The
  gates are abstracted to their effect on the queue: the claim is sent back
  (`MonitorRetains`, then `RetentionSent`), accepted, or fails the record.
- `WorkerSaves`, `WorkerSavesPause`, `WorkerSaveFails`: `persist()` and where the
  worker continues; after a final write the lifecycle counters may be reset.
- `Exit`, `WorkerRetries`, `WorkerEnds`: `process()` returns, or throws into the
  catch-handler of `kick()`; the finally-handler runs in a later turn, and what was
  added in between found the worker in place.
- `IssueStep`: each command up to its first await. `Drain` is
  `abort(); await Promise.all([worker, policyWorker])`.
- `Drained`: the `Promise.all` settles. All commands waiting on it get their
  continuation in the same turn of the event loop, before anything else runs:
  `Resuming` holds every other action back until they are done.
- `Resumed`: each draining command from its new controller to its next await.
- `CommandStep`: writes, lookups and calls to Cline of commands, including their
  failures.
- `Crash`, `StopContinues`, `Start`: the host dies, is deactivated, starts.
- `ClineStops`, `UserResumes`, `UserDeletes`: Cline and its user.

Abstractions that are deliberate: a write is one step, because writes are chained
in the order of their snapshots (`persistenceChain`) and the file is read only at
start; a command enqueues one record; `start()` up to `kick()` is one step;
relaunch's `newTask` and the search for the new session are one step; one boolean
for the controller, since all draining commands replace it in one turn. A drain waits
for whatever worker there is (`DrainCompleted`), while `Promise.all` captures the
worker of the moment of the call: a worker that another command starts after that, on
the aborted signal, is waited for in the model and not in the code. The loop and the
waits of such a worker look at the signal first: it ends without leaving the turn, or,
when a restart recovery is still pending, at that recovery's first wait.

### ModelArbiter: state and actions

Line numbers of this part are those of `src/src/service/daemon.ts`.

| Variable | Code |
|---|---|
| `queue` | per workspace: `left` records, the head's `session` (each new session gets the next number), `thread` (`lost`: deleted in Cline), `paused`, `conflict` (the winner the head was interrupted for), `recovering`, `model` (what `TaskModelIdentityCache` holds) |
| `open`, `restarting` | registered windows; `companionRestartsInFlight` |
| `service` | the maps of `ClineConsoleService` for one model identity; lost when it dies |
| `loop` | `arbitrateLmStudioQueues`: where it is suspended, the registrations and observations of the cycle |
| `takeover` | `route()` of a `queue resume` and `preferResumedWorkspace` |
| `request` | the request each of them waits for, and one per caller that it no longer waits for |
| `used` | disturbances so far |

- The loop: `LoopStarts`, `LoopPolls` (one answer at a time), `LoopArbitrates`
  (365-403, no await), `LoopPreempts`, `LoopResumesWinner` (404-407),
  `LoopOrphans` (410-437), `LoopRestores` (439-458), `LoopTries` (545-569),
  `LoopEnds` (463-468).
- The takeover: `TakeoverStarts`, `TakeoverReadsTarget`, `TakeoverPolls`,
  `TakeoverPreempts`, `TakeoverRestores`.
- Inside a window: `PreemptChecks`, `PreemptPauses`, `PreemptInterrupts`,
  `RestoreSends`, `RestoreClears`, `ResumeUnpauses`, `ResumeSends`, `Relaunches`
  are one request each, cut at its awaits. `Heard` is what its caller does with
  the answer. `TimesOut` and `Crash` leave the request running with nobody
  listening.
- Windows and users: `Dispatch`, `Claim`, `Advance`, `UserAct`, `Close`, `Reopen`,
  `RestartCompanion`, `CompanionReplaced`, `CompanionMissing`, `RecoverHead`.
- Time: `DelayPasses` (15 s after a release), `PreferencePasses` (60 s),
  `GracePasses` (2 min).

Model identities are arbitrated independently of each other, so there is one.
Which of several candidates has the latest `observedAt` is any of them. What is
left of a queue is the number of its records; its worker is `Dispatch`, `Claim`
and `Advance`.

### Transcript and CompletionGates: state and actions

A thread is a log of the entries a scan can tell apart: reports (`Claims`), failures,
edits, test runs, requests of the queue, messages of the user. The marker of an
entry is its index. `Transcript` has one operator per scan of
`completion_monitor.ts`, `context_overflow.ts` and `remaining_work.ts`.

| Variable | Code |
|---|---|
| `log`, `live` | `ui_messages.json` of the record's threads, oldest first; whether Cline runs the newest |
| `item` | the record: its markers (`lastCompletionMarker`, failure, timeout, scope, recovery), counters, `pendingRecoveryContinuation`, verification, reflection, YOLO and fresh-thread fields |
| `steps` | what the worker does between two polls, as a list of awaits |
| `seen` | how far the worker has read when it decides to go on |
| `recovering` | `restartRecoveryPending` |
| `request` | the restart request file |
| `used` | what has been consumed of the bounds |

- The gates, in the order of `process()`: `GateDone`, `GateScope`, `GateOverflow`,
  `GateFailure`, `GateTimeout`, `GateAuditFails`, `GateAuditCorrects`,
  `GateRecommend`, `GateVerify`, `GateReflect`, `GateFinish` (949-1177). One gate is
  one poll with everything up to the save of its marker; which gate is enabled
  follows from what is observed.
- What a gate plans: `Send`, `Settle`, `Deliver`, `NoteDelivered`, `NoteVerify`,
  `NoteReflect`, `Escalate`, `WriteRestartRequest`, `NewTask`, `NoteFresh`. A
  request is sent before its note is saved where the code does so, and after its
  marker where the code does that.
- After a restart: `RecoverRestart`, `RecoverObserve`, `RecoverDelay`,
  `RecoverPending`, `Recovered` (835-876).
- Disturbances: `CallFails`, `Reload`, `Interrupt`, `DaemonDrops`. Environment:
  `ClineStarts`, `ClineWorks`, `TestPasses`, `ClineCompletes`, `ClineStops`,
  `UserActs`, `DaemonRestarts`.

Two abstractions of the data. The code keeps the normalized text of every
recommendation it sent back (1056-1060) and lets only new ones count; here all reports
that recommend recommend the same (`Unhandled`). The marker of a scope violation is the
sorted set of the paths edited outside the scope (`completion_monitor.ts:421`); here it
is the last edit that added a path to that set (`ScopeViolation`), an edit of a path
that is in it already being just an edit.

Bounds: `MaxWork` edits and test runs, `MaxTroubles` stops other than a clean report
of a clean run, `MaxUserActs`, `MaxDisturbances`. A clean report is free, so that the
loop of requests never ends for want of an answer. With two troubles a correction
can be followed by another kind of report, or by the same one again, which is what
the streak counters tell apart; the limits are 1 and 2, below the defaults, so that
they are reached. In `CompletionGates` the verification may be asked for twice in a
thread and there are two edits or test runs, so that a second round, the marker it is
measured from, and an edit after the last round allowed all occur: TLC reaches an
acceptance by each of the disjuncts of `AcceptedThroughGates`. `GatesRecovery` allows
one round and one edit, which is the smallest instance in which the limit withholds a
request; a disturbance or a failure in YOLO mode that loses the note of the first
request does repeat it there. Edits outside the scope are
in `GatesRecovery`, and a message of the user other than `DONE` is in neither run; the
theorems hold with both. Each would more than double the states of `CompletionGates`,
which has two and a half million.

### Delivery: state and actions

| Variable | Code |
|---|---|
| `thread`, `selected` | Cline's transcripts; the thread it shows, which takes every message |
| `line`, `call` | `deliveryChain`; where the first delivery is: select, send, confirm |
| `monitor` | `monitorNewTaskHandoffs`: its place and the handoff it deals with |
| `handled`, `compacted` | `handledNewTaskMarkers`, `compactedNewTaskMarkers` |
| `late` | calls `withAbortableTimeout` gave up on and Cline still carries out |

`SelectsThread`, `SendsMessage`, `ConfirmsDelivery`, `Retries`, `GivesUp` are
`deliverTaskBoundMessage` (1321-1342, 1773-1783); `MissesMessage`, `CallTimesOut` and
`LandsLate` what may become of a call; `MonitorPolls`, `MonitorSettles`,
`MonitorMarksHandled` the monitor (779-819); `QueueAborts`, `HostReloads`,
`LifecycleEnds`, `UserOpensThread`, `ClineAsksNewTask` their surroundings. An entry
carries the thread it was written for, so a stray message can be told. Two threads
give one that is right and one that is wrong; two attempts and a breaker at two give
each loop one more turn than its first. Every safety property also held in an
instance with three attempts, a breaker at three and three disturbances.

### QueueHosts: state and actions

| Variable | Code |
|---|---|
| `pc`, `listening` | where `start()` or `stop()` of each host stands; whether its server is open |
| `registration`, `socket` | the host the registration file names; whose socket is at the path |
| `file`, `mem` | the queue file; `this.data` of each host |
| `working` | the worker dispatches or monitors a record |
| `connected` | requests whose connection is open |
| `asking`, `chain` | writes that wait for `ownsRegistration()`; the snapshots in `persistenceChain` |
| `aborted`, `acked` | the controller's signal; what clients were told is in the queue |

Every access to a file is a step: `Imports` (migration of an old file), `Probes`,
`UnlinksStale`, `Registers`, `Listens`, `Loads`; `StopsQueue`, `ClosesServer`,
`Drains`, `ChecksRelease`, `Unregisters`. A request is `Enqueues`, `ChecksLease` and
`Writes`. Its connection ends with the answer, or before it (`Disconnects`: the timeout
of `server.ts` 60 and 71, or the client) while the request goes on: `server.close()`
waits for connections (`Drains`), so a host may be unregistered and another be up
while it still has a write under way, until its process ends (`Exits`). The worker
writes what it observes of a record (`WorkerPersists`: `completion_monitor.ts` 370-372,
1191-1195) only while it works on one (`WorkerStarts`, `WorkerRests`): an idle or paused
queue writes nothing.

Two hosts are all that overlap: VS Code replaces a host by one other, and a takeover is
between two. Disturbances are an early request, a probe that a live server does not
answer in time, a connection that ends before its answer, and a crash; two of them let
one strike during the repair of another. Left out: the two `realpath` calls before a
request reaches the queue (`server.ts` 79-83), which only delay it; the requests other
than an enqueue, which write the same way; a stop and start by command in one process,
which is the end of one host and the start of another here.

### WindowRestarts: state and actions

| Variable | Code |
|---|---|
| `host`, `registration`, `removing` | the newest extension host, the pid in its registration file, an unlink by `loadRegistrations` that is under way |
| `launches` | `code` processes without effect so far |
| `file`, `old` | restart request files; the claims older than 30 s |
| `service` | the loop's place, `companionFailures`, the watchdog's maps and sets; lost when it dies |
| `job` | `restartExtension` for a request, for the companion recovery, in a client |

The loop is `LoopStarts`, `Claims`, `ReadsTarget`, `Releases`, `Polls`, `Watches`,
`RecoversCompanion` (`daemon.ts` 257-359, 581-606); a restart is `Signals`,
`Escalates`, `Launches`, `FindsReplacement` or `GivesUp` (`hangup_detector.ts`
112-160); `OpeningEnds`, `GracePasses`, `CooldownPasses`, `CompanionCooldownPasses`
are its timers. `ServiceDies`, `ServiceStarts`, `SecondServiceStarts` put abandoned
claims back; `FindsDead` and `Removes` are the clean-up a reader of the registrations
does. Two disturbances, of any of the seven kinds, let one strike during the repair
of another; the request and its execution are free. `MinFailures` is 2, so that a
count can be carried over from one host to the next.

## 3. Runs

Bounds of `TaskQueue`: `MaxItems` records, `Slots` commands in flight, `MaxCommands` commands,
`MaxCrashes` host deaths, `MaxFaults` failing writes or calls, `MaxRounds` claims
sent back. All are guards of the actions that spend them. `CHECK_DEADLOCK FALSE`
because a system whose users have issued their last command and whose queue is
empty may stop.

| Run | Instance | Checks |
|---|---|---|
| `TaskQueueCommands` | 1 slot, all commands, 3 records (one a message), 4 commands, 1 crash, the user deletes threads | `TypeOK`, `MonitoredItemRunning`, `AcknowledgedDurable`, `DispatchesHead`, `ActiveNotLost` |
| `TaskQueueConcurrent` | 2 slots, all commands but relaunch, next and the forced clear, 3 records (one a message), 3 commands, 1 crash, 1 fault, 1 round, threads end completed, the user writes DONE | `AtMostOneRunning`, `ImplementsFifo`, `PersistBeforeDispatch`, `ResubmitsOnlyUnbound` |
| `TaskQueueLiveness` | 2 slots, the commands after which the queue must be found working, 2 records, 3 commands, 1 crash, the user resumes threads, `FairSpec` | `PolicyAlongside`, `CommandsReturn`, `QueuedAdvances`, `RunningEnds` |
| `TaskQueueMessage` | message, stop | `AbortPreservesItem` is violated |
| `CompletionGates` | all five kinds of report, edits, a test that times out, 2 troubles, 1 act of the user (`DONE`, a cancelled run, a completion opened again), 2 rounds of verification, 2 edits or test runs, reflective; no disturbance | `TypeOK`, `OneRequestPerClaim`, `AcceptedThroughGates`, `CorrectionsBeforeFailure` |
| `GatesRecovery` | failures in YOLO mode and otherwise, overflow, three kinds of report, 1 edit, in or outside the scope, 1 round of verification, 1 trouble, 1 disturbance (restart, abort, failing call, lost request), `FairSpec` | `FlagsTellTruth`, `VerificationBounded`, `FreshThreadsJustified`, `StandsStillOnlyWhen`, `RecordEnds` |
| `Delivery` | 2 threads, 2 attempts, the breaker trips at 2, 1 message of the worker, 3 handoffs, 2 disturbances, `FairSpec` | `TypeOK`, `StraysAccounted`, `CopiesAccounted`, `CompactsOnce`, `HandledOnlyAnswered`, `HandoffsSettle` |
| `QueueHosts` | 2 hosts, 2 records, one of them in an old queue file, 2 disturbances (early request, missed probe, dropped connection, crash), `FairSpec` | `TypeOK`, `LossesAccounted`, `StaleQueueStops` |
| `QueueHostsEarly` | 1 host, 1 early request | `AcknowledgedKept` is violated |
| `WindowRestarts` | 1 request, 2 failures make a companion unresponsive, 2 disturbances of seven kinds, `FairSpec` | `OneRestartPerRequest`, `RestartsOnEvidence`, `RequestsSettle`, `WindowReturns` |
| `ModelArbiterSafety` | 2 workspaces with 1 record each, one disturbance of any kind, symmetry | `TypeOK`, `SameThread`, `LeaseKept` |
| `ModelArbiterLiveness` | 2 workspaces with 2 and 1 records, one cancelled thread, paused queue, lost or late request or death of the service, `FairSpec` | `PreemptedRestored`, `OneRuns` |

`ImplementsFifo` is the specification of `FifoQueue` under the mapping of
`TaskQueueFifo`, checked as a property: every step of the queue, in memory and in
the file, adds, takes, ends, puts back, overrides, discards, saves or restarts, or
changes nothing the abstract queue sees.

Why the bounds are enough. Three records give a running one, a head and one
behind it, so that a dispatch out of order, a replaced head and a trimmed tail
all exist; the second record is a message, so that a message is preceded and
followed by tasks. Three or four commands are enough to enqueue two records and
still to issue the command under test and the one that would interfere. Two
slots are two commands in flight: every race here is between one command, one
other command and the worker. One crash and one fault can strike at every step.
The liveness instance has no message and no fault, so that its state graph stays
small enough for temporal checking.

Bounds of `ModelArbiter`: `Tasks` records per queue, `MaxDisturbances` of the kinds
`Disturbances`. Preemption, restoration and orphans are decided between a winner
and one other queue, so two workspaces show them, and the second record of the
first one is a session the service has not seen. Three workspaces, which the
order of restoration needs, are not checked. The properties are those of a system
that tolerates one disturbance, which may strike at any step. With two, TLC finds
behaviours in which they fail: a thread
is deleted and the service dies while a preemption of it is between its check and
its pause, for longer than the 15 seconds after which the queue counts as an
orphan; it is relaunched although it was just marked as interrupted, in a new
session. `SameThread` therefore speaks of at most one disturbance, and `OwnThreadKept`
says which two kinds it takes. A thread is deleted and the companion of the queue that
owns the model hangs: the relaunch of the orphan looks only at the orphan's own
lease (417) and takes the model (`LeaseKept` excepts it). Closed windows, hanging
companions, failing model lookups and deleted threads are not in the liveness
run: `PreemptedRestored` or `OneRuns` fails with each of them (see the hazards' notes in `PROJECT.json`).
An explicit resume is in the safety run only; with it the graph of the
liveness run takes too long. With a takeover as the only disturbance and one
record per queue, TLC checked each of its two properties by itself, and they hold.

Bounds of the other modules are named where the modules are described. `TypeOK` of
`WindowRestarts` is not in its run: it is proved.

### What the violated runs show

1. `TaskQueueMessage`. A queued message in delivery is aborted by a stop; the
   inner catch at 918 marks it failed, where the outer one (1181-1185) returns
   and keeps the item, as its comment demands.
2. `QueueHostsEarly`. `start()` of `extension.ts` (137) awaits the server before it
   starts the queue. A request served in between is answered from an empty memory;
   then `load()` (1225-1230) replaces that memory, or the write of the nearly empty
   memory has already replaced the file. The service routes a command as soon as
   the window it opened has registered (`daemon.ts` 233-242). Against
   `README.md:417` of the repository, "Queues are persisted across VS Code
   termination and Linux login/reboot cycles".

### Observations

Behaviour met while modelling. Where the model has it, the properties are stated
so that they except exactly it, by the name given in brackets.

*Queue.* `queue done` while the head still waits for Cline stops the worker, finds
no running record (257), restarts only the policy monitor and throws: waiting
records are left without a worker until another command kicks it. `relaunchCurrent`
submits the prompt of the record it picked without a second look (563), though the
worker may have ended it. A queue paused at the restart and resumed later skips
recovery (145) and monitors a record that was never submitted, where `README.md:426`
says it "is safely returned to the queue front". A forced clear whose history
deletion fails restarts the worker but not the policy monitor (381-384).
`README.md:468` says a deleted running task "is marked skipped", while the code
(1145-1153) and `docs/cli-reference.md:191` keep the item and pause the queue, which
is what the model does.

*Overlapping commands.* `next` and the forced clear install the new controller
before they await Cline. A second command in flight can kick a worker in that window,
which then monitors, or even dispatches, a record that `next` goes on to skip or the
clear to drop: `MonitoredItemRunning` does not hold of such overlaps and is checked
with one command in flight, where it does. `relaunch` is left out of the two-slot run
because it submits by itself, beside the worker.

*Gates.* The marker of a report is saved before its correction is sent (1015-1042),
where principle 8 (`docs/flow-principles-and-state-machine.md:33-34`) has a
completion handled only after its prompt appears; a crash in between leaves a
record standing (`StandsStillOnlyWhen`). So does a failure whose marker was saved
and answered, when the host restarts before the answer is taken up: the recovery
after a restart passes over a failed thread with nothing pending (`StandsStillOnlyWhen`).
The verification is the other way round, and a crash sends it twice
(`VerificationBounded`). A disturbance is not the only thing that comes between a
message and its note: two failures in YOLO mode may pass while a restart that was
requested for the first is still to come, and its execution then strikes at any later
step (`Overtaken`, and the count of YOLO failures in the bounds). The documents disagree
about what a verification admits. `completionVerificationDecision` (1760-1766) accepts a
report whose confidence reaches the threshold, and any report once the rounds are spent,
whatever was edited since the last request; `README.md:524-525` says so of the two
settings. But `docs/flow-principles-and-state-machine.md:141-149` has "Only a newer
read-only verification pass emits `completion_verified` and permits reflection or final
queue completion" with `DONE` as "the sole operator-authorized bypass",
`docs/flow_principles.md:39-53` and `README.md:554-560` likewise.
`AcceptedThroughGates` follows the code: its first and third disjuncts are what those
passages deny, and TLC reaches both. Edits made after the
last verification but before a correction that follows it are not verified again
(`AcceptedThroughGates` speaks of the last request), nor are those that lie before a
gate whose message was lost (`Overtaken`). The streak of unchanged rounds
is not reset by activity that was reported at another gate. Corrections of a test
that timed out are not bounded. An abort during the recovery of an overflow or a
failure leaves the continuation pending until the host is reloaded. A fresh restart
that fails starts another task at each retry (`FreshThreadsJustified`). The branch for a
fresh thread in the continuation of a pending failure (864-869) is not taken after a
restart that was requested: the thread has been opened before (846). A restart
request the service refuses leaves the record standing. `DONE` written in the old
thread is lost if a fresh thread replaces it.

*Delivery.* A compaction is marked before it is sent (799-800): if it fails or is
interrupted, the final continuation that `docs/flow-principles-and-state-machine.md:136-139`
promises is never sent. That document and the code compact a thread that repeats its
handoff (`CompactsOnce`), where `README.md:590` and `README.md:595` ("Compaction remains
reserved for an actual context-window overflow") and `docs/architecture.md:90` deny it.
The newest handoff of a thread that is not owned hides an older one of a thread that
is. A suppressed handoff is answered again after the lifecycle's counters are reset
(`CompactsOnce`). A call given up on lands in whatever thread is selected by then
(`StraysAccounted`), and its retry makes two of it (`CopiesAccounted`).

*Hosts.* A request before the load, in either order with the write; two hosts that
import the same old file; a start that takes an unanswered probe for a stale socket,
unlinks it and then fails or wins, and by failing gives back the other's registration
(`LossesAccounted`). A request whose connection was dropped (`server.ts` 60, 71) is not
waited for when the server closes (363-367): its write, with the lease confirmed before,
may rename a stale snapshot over what the next host has acknowledged since. With a
dropped connection as the only disturbance, and a takeover counted only when the other
host still serves, TLC finds this loss in 21 steps; `LossesAccounted` therefore counts
the start of a server beside any host that still has a write under way (`InUse`). A
queue that lost its registration learns it from its next write, so that one that is
idle or paused is never stopped (`StaleQueueStops` speaks of one that works). Unregistering checks and then unlinks, so that it may remove the
registration of a host that came in between, whose queue stops at its next write; closing a server unlinks the path whoever is bound to it.

*Restarts.* A second `service run` puts claims back before it sees that a service is
running (`daemon.ts` 178-185), so that a request may restart its own replacement
(`OneRestartPerRequest`). The lease of a claim is measured from the writing of the
request, and a claim younger than 30 s is passed over at the start and then never
looked at (`RequestsSettle`); a restart takes up to 40 s, the unit allows 10 s to stop.
A request names a workspace, not a host: it restarts whoever is registered when it is
executed. `loadRegistrations` unlinks what it read as dead and may remove the
registration of the host that came in between (`Robbed`), which only a reload brings
back. The client restarts a host after a time-out and two failed pings of 1.5 s
(`ipc_client.ts` 104-126), where the comment at `daemon.ts` 59-62 says that a
generic time-out must never reload VS Code.

*Arbiter.* When the winner's queue has ended and its window is closed before the 15
seconds have passed, nothing observes it any more and the suspended queue is not
restored (450-451 of `daemon.ts`). A companion that is restarted and never registers
again holds its lease without limit (338), and with it the queue suspended for it; a
failed model lookup is kept for the session's life, so that two queues may run
(`lmstudio_ready.ts:8`); a preempted head whose thread is deleted is neither restored
nor relaunched (`server.ts:290` orphans only heads without a conflict); a preempted
session that runs again before the next poll stays in `preemptionsInFlight` (464) and
is left alone, which is why `OneRuns` has `OnRecord`; an explicit resume of a
suspended queue tells it to go on at once and again after 15 seconds (507); two
orphaned queues are each other's competitor (415) and neither is relaunched.

## 4. Fairness

`FairSpec` assumes weak fairness of the worker, of the policy monitor's exit, of
every step of a command in flight, of `Drained`, of `Start` and of `ClineStops`.
The first four are the event loop: a ready continuation runs, and what these steps
await is a timer, a file operation or a call with a timeout -- with two exceptions,
which get no fairness. `adapter.newTask` (563, 913) has neither a timeout nor the
signal and "can block indefinitely" (548-552), and so has the `interruptTask` of `next`
(285, 308): `WorkerAwaitsCline` and `AwaitsCline` say who stands at one. `CommandsReturn`
excepts a command that waits for such a call for ever, its own or that of the worker it
drains; `QueuedAdvances` and `RunningEnds` except a submission that never returns.
The worker's waits for LM Studio (822, 885) have no bound of their own
(`lmstudio_ready.ts:50`), but they end on an abort; it is assumed that a model gets
loaded some time, and that VS Code's own calls (terminals, tabs) return. `Start` means
that VS Code is opened again after a crash, and `ClineStops` that a running
thread ends one way or another. There is no fairness on users, crashes, faults,
or on what the user does in Cline's panel; where a record may wait for the user
for ever, the property says so (`UserIsAsked`). The choice between the worker's
outcomes is not fair either: `RunningEnds` does not rely on a completion being
accepted rather than sent back, which `MaxRounds` bounds.

`FairSpec` of `ModelArbiter` assumes weak fairness of the loop, the takeover, the
requests inside the windows, the three timers, the windows' own steps and the
watchdog: polls and event loops that run on their own. A choice of the loop is one
action among others, so no outcome of it is fair. That a running thread ends
(`Claim`) is not assumed; it is the hypothesis of `PreemptedRestored`, and
`OneRuns` holds without it.

`FairSpec` of `CompletionGates`: the worker's event loop, a thread that answers
and ends its run, and the service that polls the requests. A trouble, a failing
call or a user's act is never due, and `StandsStill` says where a record may wait
for ever. `FairSpec` of `Delivery`: the delivery in line and the monitor go on;
nothing is assumed of late calls, of Cline or of the user. `FairSpec` of
`QueueHosts`: per host, its start and stop, the write of a worker that works, the answer
about the lease and the write, and the end of a worker that was aborted. That a queue
has anything to work on, that its record ends, or that a host that crashed comes back
is not assumed. `FairSpec` of
`WindowRestarts`: the service's loop and timers (`LoopSteps` as a whole, so no
choice in it is fair), a restart goes through its steps, VS Code carries out a
launch, and systemd starts the service again (`Restart=on-failure`). Nobody has to
write a request, to block, to recover or to close; that a full backlog is acted
upon is not assumed, since the evidence may not last long enough.

## 5. Proofs

Every theorem holds for every value of the constants that the named assumption of its
module allows (`ConstantsAssumption`, `GatesAssumption` and so on, which say no more
than that bounds are numbers and sets finite), and under the further hypotheses its
`ASSUME` names. The bounds of the runs are guards of the model, so that "for all
constants" means any number of records, commands, crashes, faults, disturbances and
the like. Each invariant was checked by TLC before it was proved. Property by property:

| Run's property | Theorem | Hypotheses beside the module's assumption |
|---|---|---|
| `TaskQueue`: `TypeOK`, `AtMostOneRunning` | `TypeCorrect`, `OneAtATime` | |
| `DispatchesHead`, `ActiveNotLost` | `DispatchInTurn`, `ActiveKept` | |
| `ImplementsFifo` | `QueueIsFifo` | |
| `MonitoredItemRunning` | `MonitoredRuns` | `Undisturbed` |
| `PersistBeforeDispatch` | `SavedBeforeSubmitted` | `Undisturbed`, no relaunch |
| `ResubmitsOnlyUnbound` | `SubmittedUnbound` | no relaunch |
| `AcknowledgedDurable` | `AcknowledgedSaved` | `Undisturbed`, no faults, one slot or no relaunch |
| `PolicyAlongside` | `PolicyMonitored` | no faults, no forced enqueue, one slot or no next |
| `CompletionGates`: `TypeOK`, `FlagsTellTruth`, `OneRequestPerClaim`, `AcceptedThroughGates`, `FreshThreadsJustified`, `VerificationBounded`, `CorrectionsBeforeFailure`, `StandsStillOnlyWhen` | `TypeCorrect`, `FlagsTrue`, `OneRequest`, `AcceptedRight`, `FreshOnlyForYolo`, `VerificationEnds`, `CorrectedFirst`, `StillRight` | |
| `Delivery`: `TypeOK`, `HandledOnlyAnswered`, `StraysAccounted`, `CopiesAccounted`, `CompactsOnce` | `TypeCorrect`, `HandledAnswered`, `StraysPaidFor`, `CopiesPaidFor`, `CompactedOnce` | |
| `QueueHosts`: `TypeOK`, `LossesAccounted` | `TypeCorrect`, `LossesAccountedFor` | |
| `ModelArbiter`: `TypeOK`, `SameThread`, `LeaseKept` | `TypeCorrect`, `OwnThreadBack`, `LeaseHeld` | |
| `WindowRestarts`: `OneRestartPerRequest`, `RestartsOnEvidence` | `RequestsRestartOnce`, `RestartsHaveEvidence` | |

The hypotheses are where the properties end, not conveniences: without any one of them
TLC finds the property violated, by the overlaps and failures the observations above
describe. The exception is `AcknowledgedSaved`, where faults and an overlapping `next`
do break the property, but of relaunch and the forced clear with two commands in flight
TLC finds no violation in small instances; the argument needs them out. `Undisturbed`
says that one command is in flight at a time, or that neither `next` nor the forced
clear is given: these two await Cline and the history with the worker stopped, and a
second command starts one under them. `relaunch` submits by itself, from a record it
picked before its waits.

### The queue

`TaskQueueProofs`. `TypeOK` is inductive because the types of
the worker and of a command (`WorkerRecord`, `Command`) say at which program
counters an item must be held; without that, `Moved(mem, worker.item, ...)`
could write outside the domain. The proof has a lemma per data operator (it
maps `Data` to `Data`) and one per action. `AtMostOneRunning`, over memory and file,
is not inductive by itself: a worker at its idle wait is about to mark a second record.
`OneRunning` adds that while the worker waits there no record is running. The
argument: only the dispatch adds a running record, and it starts from a loop
head that saw none; every other step `Shrinks` the set of running records or
leaves it, and does not put the worker at the idle wait; a write copies memory
to the file; a restart loads the file and starts the worker afresh.

`TaskQueueSafetyProofs` first shows what any step does to the records (the section
*Effects*): it keeps them, drops some, adds one behind or before the others, ends the
running one, puts it back or takes the head. Everything after that looks at these
effects and not at each action. `OrderInv` says that ids are given once, that what
waits is listed once and behind the running record, and that the record taken stays
the first of those that wait during the idle waits (`HeadHeld`): the dispatch is in
turn. `ControlInv` says which command stands where: the controller is aborted exactly
while one waits for the drain, and no worker is there when one goes on. With it,
`HeldInv` follows the worker's item, `SavedInv` and `DurableInv` what the file has of
it, `UnboundInv` which records have a session, and `PolicyInv` which command will start
the monitor again.

`TaskQueueFifoProofs`. Each effect is one action of `FifoQueue` under the mapping, or
none, and the file is the records as they are or were. The abstract queue keeps its order as a
relation on the waiting records; that the relation is a line (`WaitInLine`) is an
invariant of the mapped queue, `LineKept`. In this form a dropped or an added record is
an intersection or a union of relations, and no fact about filtered sequences, which
needs induction over data, is used.

### The gates

`CompletionGatesProofs` goes from the plan of the worker to the counts. The plan
(`PlanInv`) is a chain of steps in which each may follow the one before
(`Follows`), and a recovery ends with its last step. On it rest, in this order:

- `FailureInv`, `FreshInv`: which failure the markers name, that a restart is asked for
  a failure in YOLO mode that is the last one met, and that a recovery that owes the
  task a fresh thread still has the step that opens or notes it ahead.
- `TruthInv`: the flags speak of the newest thread, but between its opening and its
  note (`FlagsTrue`).
- `AskInv`: a request of a gate is planned only over a report that has no answer
  (`OneRequest`). Interrupted plans are thrown away as a whole, and a recovery plans
  no request of a gate.
- `RequestInv`, `EmptyInv`, `MarkerInv`: as long as nothing is `Overtaken`, the marker
  of the last gate lies before the request it sent, so that what a gate counts as
  activity is what happened after that request (`AcceptedRight`).
- `Budget`: the disturbances, and the restarts for failures in YOLO mode that were
  asked for and executed (`Taken` less `Asked`). Whatever undoes a step of the worker
  adds one (`BudgetGrows`), no other step takes one, and every thread but the first
  (`ThreadsInv`), every verification that was not noted (`VerifyInv`) and every counted
  correction that was not sent (`CorrectInv`) is paid for by one. The three bounds
  follow because there are at least as many failures in YOLO mode as restarts for them.
- `StillInv`, five facts about a thread that Cline no longer executes. Only the end of
  the host cuts off a thread that did not stop by itself, and the recovery still
  `Revives` it, unless a failure in it is on record (`CutOffInv`). As long as nothing is
  `Overtaken`: the host ends so only for a fresh thread that is not open yet
  (`QuietInv`), such a thread is on its way as a request or in a recovery (`OwedInv`,
  which needs `AskedInv`), and every marker a poll compares with lies before the end of
  the transcript, or the answer to that end is still to be sent (`LagInv`). A record on
  which nothing is due then stopped where the next poll would see it (`StillRight`).

### Delivery, hosts and arbiter

`DeliveryProofs`. `LineInv` says that the worker and the monitor have one message in
line each and that a call is made for the first. A call that was given up may still
select a thread or send a message, so that neither strays nor copies are bounded by
themselves; what is bounded is a weight: the messages that stand there, the calls that
may still land, the message in line that was not seen to arrive and, for a compaction,
the breaker that has not tripped (`StrayInv`, `CopyInv`, `CompactInv`). A retry does
not raise it, because it is made only after the message was looked for and not found
(`PriorInv`).

`QueueHostsProofs`. A host is in use while it serves or has writes left. `OneServer`:
unless a server was opened beside a host in use, there is one such host. `FileInv` says
that, unless moreover a request came early or the old file was imported twice, a loaded
queue holds what was answered, and a snapshot in the chain holds the writes before it
(`Holding`); so an older snapshot written late still has every answered record, also
when the host that writes it has been unregistered.

`ModelArbiterProofs`. `TypeInv` says when the loop and the takeover wait for an answer
and what they know by then. `LeaseInv`: the observations of a companion that is being
replaced are missing, its owner is protected, and a restoration is not under way while
it owns the model. `LossInv`: before the first disturbance nobody calls beside the
cycle (`Calm`) and no thread is lost (`NoLoss`); after one, one of the two still holds,
and a queue about to be relaunched has no conflict. `RecallInv` is the same for any
number of disturbances when one of the two kinds is excluded.

`WindowRestartsProofs`:

- `TypeCorrect`: `Spec => []TypeOK`. It says more than types: no process but the
  newest host is registered beside it, claims that are old are claims, and every
  process the service or a restart remembers is one there was, so that no number is
  blamed on a host yet to come.
- `RequestsRestartOnce`: `Spec => []OneRestartPerRequest`. The bound itself is not
  inductive, since it does not say which requests may still signal. `RequestInv`
  does: a request whose file waits, or that is due (claimed and not yet signalled),
  has used up one signal less than the bound, as has a claim that nobody handles,
  because it can be put back; and a request that waits and is due at once, put back
  under the hands of the service, two less. It needs that the loop holds a request
  exactly while it handles one, that a requested restart runs only in that place,
  and that a listed file is still there (`RequestInv`).
- `RestartsHaveEvidence`: `Spec => RestartsOnEvidence`. `Evidence`: while the host
  the failures are counted for is registered and alive, there are no more of them
  than its last polls in a row found its backlog full. A new host has a number the
  count cannot name (`TypeOK`), and a poll changes both alike.

### What the attempts changed

Proving showed five properties to be true only of the instances that were checked,
and they now say what holds: `SameThread` (two disturbances that meet do replace the
session), `AcceptedThroughGates`, `VerificationBounded` and
`CorrectionsBeforeFailure` (a restart requested for an earlier failure in YOLO mode
undoes a step just as a disturbance does), `StandsStillOnlyWhen` (a second
disturbance strands a failure that was answered). TLC confirmed each on an instance
with one more disturbance.

Every invariant and every action property of the passing runs is a theorem.
Model-checked only: all liveness (`StaleQueueStops`, `CommandsReturn`, `QueuedAdvances`, `RunningEnds`, `RecordEnds`,
`HandoffsSettle`, `PreemptedRestored`, `OneRuns`, `RequestsSettle`, `WindowReturns`),
which is out of the prover's reach; and what the scans of a transcript compute beyond
the facts the proofs use, which would need induction over the log.

## 6. Plan

The modules are the ones the first plan named: the queue, the gates of a completion
claim, delivery and the handoff monitor, the abstract queue and its refinement,
the arbiter, the writer lease, restart requests. What is left:

1. `PersistBeforeDispatch` and `ResubmitsOnlyUnbound` with relaunch, one command at a
   time.
2. The conditional parts of the liveness properties: that each of their steps is
   enabled where they need it, as state predicates.

## 7. Not modelled

The command line's grammar and output, the protocol's framing, the history
journal, token usage, supervision reports, terminal and tab cleanup and the Python
viewer keep no state the queue depends on, or only format and print. Prompts,
paths and messages are not inspected: records are numbers, two sources are equal or
not (`SourceOf`), and a report is what the audits find in it (`Claims`). Timers are
nondeterministic delays, but for the order of two of them where a comment says so
(`CooldownPasses`). Lists cut to their last 20, 100 or 200 entries never reach the
cut within the bounds. Historical tasks (`resumeSessionId`), the stability window
of the completion monitor, results of messages and child sessions beyond their
outcome in `TaskQueue`, the status cache and request validation of the server, the
settings of the extension, and the expiry of legacy restart files are not
modelled. In `WindowRestarts` the queue is active throughout, the polls of an
explicit resume are left out, and no process refuses to be verified as an extension
host; in `Delivery` Cline keeps a session record for every thread, without which
`waitForLegacyMessageCompletion` has no bound.

## 8. Running

`tlc -config TaskQueueCommands.cfg MCTaskQueue`,
`tlc -config ModelArbiterSafety.cfg MCModelArbiter` and likewise for the other
configurations; `tlapm TaskQueueProofs.tla` and likewise for the other modules named
`...Proofs`. A proof module takes from seconds to some minutes;
`CompletionGatesProofs` is the longest.
