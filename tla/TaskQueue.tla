------------------------------ MODULE TaskQueue ------------------------------
(***************************************************************************)
(* One workspace's FIFO: class TaskQueue of src/extension/task_queue.ts.   *)
(*                                                                         *)
(* The extension host is a single-threaded event loop.  A step of this     *)
(* module is a piece of code between two awaits; what interleaves are the  *)
(* queue worker (process), the control commands (one slot per IPC request  *)
(* in flight), the new-task policy monitor, Cline, and the death of the    *)
(* host.  The module describes how the queue's memory, its file and the    *)
(* Cline threads move together through those interleavings.                *)
(***************************************************************************)
EXTENDS TaskFlow, Naturals, Sequences, FiniteSets

CONSTANTS
  MaxItems,     \* bound: queue records ever created
  Messages,     \* the records that are follow-up messages, the others are tasks
  SourceOf,     \* the source path of each record
  Slots,        \* control commands that may be in flight at once
  Ops,          \* the commands users of this instance issue
  MaxCommands,  \* bound: commands issued
  MaxCrashes,   \* bound: deaths of the extension host
  MaxFaults,    \* bound: failing file writes and failing calls to Cline
  MaxRounds,    \* bound: completion claims sent back for more work
  Outcomes,     \* how Cline ends a thread
  UserActs      \* what the user does in Cline's own panel

Item == 1..MaxItems
NoItem == 0

Operation ==
  {"enqueue", "message", "replace", "clean", "trim", "remove", "skipWaiting",
   "pause", "resume", "continue", "relaunch",
   "override", "confirm", "next", "clear", "purge", "removeRunning", "stop"}

\* Commands that abort the worker and the monitor and wait for both to end.
Draining == {"override", "confirm", "next", "clear", "purge", "removeRunning", "stop"}

ASSUME ConstantsAssumption ==
  /\ MaxItems \in Nat
  /\ Messages \subseteq Item
  /\ DOMAIN SourceOf = Item
  /\ Ops \subseteq Operation
  /\ MaxCommands \in Nat /\ MaxCrashes \in Nat
  /\ MaxFaults \in Nat /\ MaxRounds \in Nat
  /\ Outcomes \subseteq {"completed", "failed", "waiting"}
  /\ UserActs \subseteq {"resume", "delete", "done"}

VARIABLES
  mem,         \* this.data: the records and the queue's flags
  file,        \* the queue file, always one whole earlier value of mem
  created,     \* ids handed out by randomUUID so far
  up,          \* the extension host runs and has loaded the queue
  worker,      \* process(): where it is and the item it holds
  policy,      \* the new-task policy monitor runs
  aborted,     \* abortController.signal.aborted
  recovering,  \* restartRecoveryPending
  cmd,         \* the command in each slot
  thread,      \* Cline: the status of the newest thread of each item
  latest,      \* Cline: the item whose thread is the workspace's latest
  starts,      \* Cline: how often each item's prompt was submitted
  used         \* commands, crashes, faults and rounds consumed so far

vars == <<mem, file, created, up, worker, policy, aborted, recovering, cmd,
          thread, latest, starts, used>>

------------------------------------------------------------------------------
(* The records.  "absent" is the state of an id that is not in data.items;  *)
(* mem.order is the array order of every id that ever was.                  *)

ItemState == PersistentQueueState \cup {"absent"}
ActiveState == {"queued", "running"}

EmptyData == [state |-> [i \in Item |-> "absent"], order |-> <<>>, paused |-> FALSE,
              bound |-> {}, exempt |-> {}, last |-> NoItem]

InState(m, S) == {i \in Item : m.state[i] \in S}
Running(m) == InState(m, {"running"})
\* Mutant: a failed record is taken up again.
QueuedOrFailed(m) == InState(m, {"queued", "failed"})

Queued(m) == InState(m, {"queued"})
Active(m) == InState(m, ActiveState)

Before(m, i, j) ==
  \E p, q \in DOMAIN m.order : p < q /\ m.order[p] = i /\ m.order[q] = j

\* The first queued record of data.items.
IsHead(m, i) ==
  /\ i \in Queued(m)
  /\ \A j \in Queued(m) \ {i} : Before(m, i, j)

Without(m, S) == [m EXCEPT !.state = [i \in Item |-> IF i \in S THEN "absent" ELSE m.state[i]]]
Appended(m, i) == [m EXCEPT !.state[i] = "queued", !.order = Append(m.order, i)]
PutFirst(m, i) == [m EXCEPT !.state[i] = "queued", !.order = <<i>> \o m.order]

\* Mutant: a display projection is written as a state.
MovedToProjection(m, i, next) ==
  [m EXCEPT !.state[i] = IF next = "skipped" THEN "interrupted" ELSE next]

\* A record that was removed is a detached object: writing it changes no queue.
Moved(m, i, next) == IF m.state[i] = "absent" THEN m ELSE [m EXCEPT !.state[i] = next]
MoveThrows(m, i, next) == m.state[i] # "absent" /\ ~TransitionAccepted(m.state[i], next)

\* last is the completed record with a session that finished last.
Completed(m, i) ==
  [Moved(m, i, "completed") EXCEPT
     !.last = IF m.state[i] # "absent" /\ i \in m.bound \cup Messages
             THEN i ELSE m.last]

Exempting(m, S) == [m EXCEPT !.exempt = m.exempt \cup S]
NoneExempt(m) == [m EXCEPT !.exempt = {}]
Pausing(m, b) == [m EXCEPT !.paused = b]
Binding(m, i) == [m EXCEPT !.bound = m.bound \cup {i}]
Removing(m, i, latestLeft) == [Without(m, {i}) EXCEPT !.last = latestLeft]
ForgettingLast(m) == [m EXCEPT !.last = NoItem]
Emptied(m) == [EmptyData EXCEPT !.bound = m.bound, !.order = m.order]

\* Which record finished last once i is gone; finishedAt of the others is not kept.
LatestLeft(m, i) ==
  LET left == (InState(m, {"completed"}) \cap (m.bound \cup Messages)) \ {i}
  IN IF m.last # i THEN {m.last} ELSE IF left = {} THEN {NoItem} ELSE left

\* queueLifecycleFinished: records are left and none of them is active.
LifecycleFinished(m) == Active(m) = {} /\ InState(m, TerminalState) # {}

------------------------------------------------------------------------------
(* The processes of the host.                                               *)

Idle == [op |-> "none", pc |-> "none", item |-> NoItem]
NoWorker == [pc |-> "none", item |-> NoItem]
Worker(pc, i) == [pc |-> pc, item |-> i]

WorkerPC ==
  {"none", "start", "recoverIdle", "recoverBound", "recoverNone", "recoverSave", "loop",
   "idle", "dispatchSave", "dispatch", "monitor", "adoptSave", "retainSave", "retainSend",
   "doneSave", "cleanup", "finalSave", "resetSave", "failSave", "errorSave", "pauseSave",
   "retry", "exit"}

CommandPC ==
  {"none", "drain", "drained", "save", "reset", "activity", "interrupt", "interruptLatest",
   "status", "history", "send", "cancel", "newTask"}

\* kick() starts a worker unless there is one: one that returned counts until its
\* finally-handler has run.
Kicked(w) == IF w.pc = "none" THEN Worker("start", NoItem) ELSE w

\* The worker's promise settles; its finally-handler kicks again when work is left.
AfterExit(m) ==
  IF ~aborted /\ ~m.paused /\ Active(m) # {} THEN Worker("start", NoItem) ELSE NoWorker

\* Mutant: the worker's promise is not awaited.
DrainForgetsWorker == ~policy /\ \E c \in Slots : cmd[c].pc = "drain"

\* Continuations of a settled Promise.all run before any other event of the host.  The
\* code waits for the worker of the moment of the call; one that another command started
\* after it, on an aborted signal, is waited for here as well.
DrainCompleted ==
  /\ worker.pc = "none" /\ ~policy
  /\ \E c \in Slots : cmd[c].pc = "drain"
Resuming == DrainCompleted \/ \E c \in Slots : cmd[c].pc = "drained"

\* The workspace idle wait passes: the latest thread ended or is exempted.
Busy(m) ==
  /\ latest # NoItem
  /\ thread[latest] \in {"running", "waiting"}
  /\ latest \notin m.exempt

clineVars == <<thread, latest, starts>>
hostVars == <<created, up, policy, aborted, recovering, cmd>>

\* A new thread is the latest one; Cline leaves the one it was running.
StartThread(i) ==
  /\ thread' = [j \in Item |-> IF j = i THEN "running"
                               ELSE IF thread[j] = "running" THEN "stale" ELSE thread[j]]
  /\ latest' = i
  /\ starts' = [starts EXCEPT ![i] = @ + 1]

\* A message selects the thread it is bound to and makes it run again.
ContinueThread(i) ==
  /\ thread' = [j \in Item |-> IF j = i THEN "running"
                               ELSE IF thread[j] = "running" THEN "stale" ELSE thread[j]]
  /\ latest' = i
  /\ UNCHANGED starts

Spend(kind) == used' = [used EXCEPT ![kind] = @ + 1]
MayFault == used.faults < MaxFaults

------------------------------------------------------------------------------
Init ==
  /\ mem = EmptyData /\ file = EmptyData /\ created = 0
  /\ up = FALSE /\ worker = NoWorker /\ policy = FALSE
  /\ aborted = FALSE /\ recovering = FALSE
  /\ cmd = [c \in Slots |-> Idle]
  /\ thread = [i \in Item |-> "none"] /\ latest = NoItem
  /\ starts = [i \in Item |-> 0]
  /\ used = [commands |-> 0, crashes |-> 0, faults |-> 0, rounds |-> 0]

------------------------------------------------------------------------------
(* The worker: process() and what kick() wraps around it.                   *)

WorkerAt(pc) == up /\ worker.pc = pc
Goto(pc) == worker' = [worker EXCEPT !.pc = pc]
Hold(pc, i) == worker' = Worker(pc, i)
\* process() returns; the finally-handler is still to run.
Exit == Hold("exit", NoItem)

\* Mutants: recovery forgets the item's session; recovery is left out.
WorkerStartForgetsSession ==
  /\ WorkerAt("start")
  /\ \/ ~recovering /\ Hold("loop", NoItem)
     \/ recovering /\ Running(mem) = {} /\ Hold("recoverNone", NoItem)
     \/ recovering /\ \E i \in Running(mem) : Hold("recoverIdle", i)
  /\ UNCHANGED <<mem, file, hostVars, clineVars, used>>

WorkerStartSkipsRecovery ==
  /\ WorkerAt("start")
  /\ Hold("loop", NoItem)
  /\ UNCHANGED <<mem, file, hostVars, clineVars, used>>

WorkerStart ==
  /\ WorkerAt("start")
  /\ \/ ~recovering /\ Hold("loop", NoItem)
     \/ recovering /\ Running(mem) = {} /\ Hold("recoverNone", NoItem)
     \/ /\ recovering
        /\ \E i \in Running(mem) :
             Hold(IF i \in mem.bound THEN "recoverBound" ELSE "recoverIdle", i)
  /\ UNCHANGED <<mem, file, hostVars, clineVars, used>>

\* Mutant: the idle wait does not listen to the abort signal.
RecoverUnboundDeaf ==
  /\ WorkerAt("recoverIdle")
  /\ ~Busy(mem)
  /\ IF aborted \/ mem.paused
     THEN Exit /\ UNCHANGED mem
     ELSE Goto("recoverSave") /\ mem' = Moved(mem, worker.item, "queued")
  /\ UNCHANGED <<file, hostVars, clineVars, used>>

\* A dispatch no session was observed for goes back to the front, after the
\* workspace has been idle for the inter-task delay.
RecoverUnbound ==
  /\ WorkerAt("recoverIdle")
  /\ aborted \/ ~Busy(mem)
  /\ IF aborted \/ mem.paused
     THEN Exit /\ UNCHANGED mem
     ELSE IF MoveThrows(mem, worker.item, "queued")
     THEN Goto("retry") /\ UNCHANGED mem
     ELSE Goto("recoverSave") /\ mem' = Moved(mem, worker.item, "queued")
  /\ UNCHANGED <<file, hostVars, clineVars, used>>

\* An interrupted session that stayed unchanged for the delay is told to go on.
RecoverBound ==
  LET resumable == latest = worker.item /\ thread[latest] \in {"running", "waiting", "stale"}
  IN
  /\ WorkerAt("recoverBound")
  /\ \/ /\ resumable /\ (aborted \/ mem.paused)
        /\ Exit
        /\ UNCHANGED <<recovering, clineVars, used>>
     \/ /\ resumable /\ ~aborted /\ ~mem.paused
        /\ ContinueThread(worker.item)
        /\ recovering' = FALSE
        /\ Goto("loop")
        /\ UNCHANGED used
     \/ /\ resumable /\ ~aborted /\ ~mem.paused /\ MayFault
        /\ Spend("faults")
        /\ Goto("retry")
        /\ UNCHANGED <<recovering, clineVars>>
     \/ /\ resumable => thread[latest] = "running" /\ ~aborted /\ ~mem.paused
        /\ recovering' = FALSE
        /\ Goto("loop")
        /\ UNCHANGED <<clineVars, used>>
  /\ UNCHANGED <<mem, file, created, up, policy, aborted, cmd>>

RecoverNone ==
  /\ WorkerAt("recoverNone")
  /\ aborted \/ ~Busy(mem)
  /\ IF aborted \/ mem.paused
     THEN Exit /\ UNCHANGED recovering
     ELSE Goto("loop") /\ recovering' = FALSE
  /\ UNCHANGED <<mem, file, created, up, policy, aborted, cmd, clineVars, used>>

\* Mutant: the loop always takes the first queued record.
WorkerLoopForgetsRunning ==
  /\ WorkerAt("loop")
  /\ \/ (aborted \/ mem.paused \/ Queued(mem) = {}) /\ Exit
     \/ ~aborted /\ ~mem.paused /\ \E i \in Queued(mem) : IsHead(mem, i) /\ Hold("idle", i)
  /\ UNCHANGED <<mem, file, hostVars, clineVars, used>>

\* The head of the loop: monitor the running item, else take the first queued one.
WorkerLoop ==
  /\ WorkerAt("loop")
  /\ \/ aborted /\ Exit
     \/ ~aborted /\ \E i \in Running(mem) : Hold("monitor", i)
     \/ ~aborted /\ Running(mem) = {} /\ (mem.paused \/ Queued(mem) = {}) /\ Exit
     \/ /\ ~aborted /\ Running(mem) = {} /\ ~mem.paused
        /\ \E i \in Queued(mem) : IsHead(mem, i) /\ Hold("idle", i)
  /\ UNCHANGED <<mem, file, hostVars, clineVars, used>>

\* Mutants: pause and abort are not checked again; the write is left out.
WorkerDispatchesUnchecked ==
  /\ WorkerAt("idle")
  /\ aborted \/ ~Busy(mem)
  /\ worker.item \in Queued(mem)
  /\ mem' = NoneExempt(Moved(mem, worker.item, "running"))
  /\ Goto("dispatchSave")
  /\ UNCHANGED <<file, hostVars, clineVars, used>>

WorkerDispatchesUnsaved ==
  /\ WorkerAt("idle")
  /\ ~aborted /\ ~Busy(mem) /\ ~mem.paused
  /\ worker.item \in Queued(mem)
  /\ mem' = NoneExempt(Moved(mem, worker.item, "running"))
  /\ Goto("dispatch")
  /\ UNCHANGED <<file, hostVars, clineVars, used>>

\* The two idle waits and the cooldown between them, then the checks made again.
WorkerDispatches ==
  /\ WorkerAt("idle")
  /\ aborted \/ ~Busy(mem)
  /\ IF aborted \/ mem.paused
     THEN Exit /\ UNCHANGED mem
     ELSE IF worker.item \notin Queued(mem)
     THEN Goto("loop") /\ UNCHANGED mem
     ELSE /\ mem' = NoneExempt(Moved(mem, worker.item, "running"))
          /\ Goto("dispatchSave")
  /\ UNCHANGED <<file, hostVars, clineVars, used>>

\* newTask for a task; select and send for a message.  Only the message's calls
\* listen to the abort signal.
WorkerSubmits ==
  /\ WorkerAt("dispatch")
  /\ \/ /\ worker.item \in Messages => ~aborted
        /\ IF worker.item \in Messages THEN ContinueThread(worker.item)
                                       ELSE StartThread(worker.item)
        /\ Goto("monitor")
        /\ UNCHANGED <<mem, used>>
     \/ /\ \/ MayFault /\ Spend("faults")
           \/ worker.item \in Messages /\ aborted /\ UNCHANGED used
        /\ IF MoveThrows(mem, worker.item, "failed")
           THEN Goto("retry") /\ UNCHANGED mem
           ELSE Goto("failSave") /\ mem' = Moved(mem, worker.item, "failed")
        /\ UNCHANGED clineVars
  /\ UNCHANGED <<file, hostVars>>

\* catch (error) of the loop body: an abort preserves the item, anything else fails
\* it -- and throws out of process() when the item is already terminal.
CatchesError ==
  \/ aborted /\ Exit /\ UNCHANGED mem
  \/ ~aborted /\ MoveThrows(mem, worker.item, "failed") /\ Goto("retry") /\ UNCHANGED mem
  \/ /\ ~aborted /\ ~MoveThrows(mem, worker.item, "failed")
     /\ mem' = Moved(mem, worker.item, "failed")
     /\ Goto("errorSave")

Watching(S) ==
  /\ WorkerAt("monitor")
  /\ thread[worker.item] \in S

MonitorAborts ==
  /\ up /\ worker.pc \in {"monitor", "retainSend"} /\ aborted
  /\ Exit
  /\ UNCHANGED <<mem, file, hostVars, clineVars, used>>

\* onSessionObserved: the transcript with the item's prompt shows up.
MonitorAdopts ==
  /\ Watching({"running", "waiting", "stale", "completed", "failed"})
  /\ worker.item \notin Messages \cup mem.bound
  /\ mem' = Binding(mem, worker.item)
  /\ Goto("adoptSave")
  /\ UNCHANGED <<file, hostVars, clineVars, used>>

\* What the monitor's result does to the item: it ends, in memory first.
Ends(next, pc, exempting) ==
  IF MoveThrows(mem, worker.item, next)
  THEN CatchesError
  ELSE /\ mem' = Exempting(IF next = "completed" THEN Completed(mem, worker.item)
                                                 ELSE Moved(mem, worker.item, next),
                           exempting)
       /\ Goto(pc)

\* A standalone DONE of the user in the thread.
MonitorSeesDone ==
  /\ "done" \in UserActs
  /\ Watching({"running", "waiting", "completed"})
  /\ worker.item \in mem.bound
  /\ Ends("completed", "doneSave", {})
  /\ UNCHANGED <<file, hostVars, clineVars, used>>

\* A gate or a recovery keeps the item and sends the thread back to work.
MonitorRetains ==
  /\ Watching({"running", "completed", "failed"})
  /\ worker.item \in mem.bound
  /\ used.rounds < MaxRounds /\ Spend("rounds")
  /\ Goto("retainSave")
  /\ UNCHANGED <<mem, file, hostVars, clineVars>>

RetentionSent ==
  /\ WorkerAt("retainSend") /\ ~aborted
  /\ ContinueThread(worker.item)
  /\ Goto("loop")
  /\ UNCHANGED <<mem, file, hostVars, used>>

RetentionFails ==
  /\ WorkerAt("retainSend") /\ MayFault
  /\ Spend("faults")
  /\ CatchesError
  /\ UNCHANGED <<file, hostVars, clineVars>>

\* All gates accept the stable completion; a message ends with its session's run.
MonitorAccepts ==
  /\ Watching({"completed"})
  /\ worker.item \in mem.bound \cup Messages
  /\ Ends("completed", "cleanup", {worker.item})
  /\ UNCHANGED <<file, hostVars, clineVars, used>>

\* A terminal failure, or the limit of unchanged completion corrections.
MonitorFails ==
  /\ Watching({"completed", "failed", "waiting"})
  /\ \/ /\ worker.item \in mem.bound /\ thread[worker.item] = "failed"
        /\ Ends("failed", "finalSave", {})
     \/ /\ worker.item \in mem.bound /\ thread[worker.item] = "completed"
        /\ Ends("failed", "doneSave", {})
     \/ /\ worker.item \in Messages /\ thread[worker.item] \in {"failed", "waiting"}
        /\ Ends("failed", "finalSave", {})
  /\ UNCHANGED <<file, hostVars, clineVars, used>>

\* The thread disappeared from Cline's history: keep the item, pause the queue.
MonitorMissesThread ==
  /\ Watching({"deleted"})
  /\ worker.item \in mem.bound
  /\ mem' = Pausing(mem, TRUE)
  /\ Goto("pauseSave")
  /\ UNCHANGED <<file, hostVars, clineVars, used>>

\* Terminal cleanup and the git commit; their errors are logged only.
WorkerCleansUp ==
  /\ WorkerAt("cleanup")
  /\ Goto("finalSave")
  /\ UNCHANGED <<mem, file, hostVars, clineVars, used>>

\* Where the worker goes on after the write it waits for.
AfterSave ==
  [pc \in {"recoverSave", "dispatchSave", "adoptSave", "retainSave", "doneSave",
           "finalSave", "errorSave", "resetSave", "failSave"} |->
     CASE pc = "dispatchSave" -> "dispatch"
       [] pc = "adoptSave"    -> "monitor"
       [] pc = "retainSave"   -> "retainSend"
       [] OTHER               -> "loop"]

SavePC == DOMAIN AfterSave \cup {"pauseSave"}

\* Writes inside the try block of the loop body.
CaughtSave == {"adoptSave", "retainSave", "doneSave", "finalSave", "resetSave", "pauseSave"}

\* persist(): the write is one step.  Writes are chained in the order their
\* snapshots are taken and nothing reads the file while the host lives.
WorkerSaves ==
  /\ up /\ worker.pc \in DOMAIN AfterSave
  /\ file' = mem
  /\ recovering' = IF worker.pc = "recoverSave" THEN FALSE ELSE recovering
  /\ IF worker.pc \in {"finalSave", "errorSave"} /\ LifecycleFinished(mem)
     THEN mem' = NoneExempt(mem) /\ Goto("resetSave")
     ELSE Goto(AfterSave[worker.pc]) /\ UNCHANGED mem
  /\ UNCHANGED <<created, up, policy, aborted, cmd, clineVars, used>>

WorkerSavesPause ==
  /\ WorkerAt("pauseSave")
  /\ file' = mem
  /\ Exit
  /\ UNCHANGED <<mem, hostVars, clineVars, used>>

WorkerSaveFails ==
  /\ up /\ worker.pc \in SavePC /\ MayFault
  /\ Spend("faults")
  /\ IF worker.pc \in CaughtSave THEN CatchesError ELSE Goto("retry") /\ UNCHANGED mem
  /\ UNCHANGED <<file, hostVars, clineVars>>

\* process() rejected: a delay the abort signal cuts short.
WorkerRetries ==
  /\ WorkerAt("retry")
  /\ Exit
  /\ UNCHANGED <<mem, file, hostVars, clineVars, used>>

\* Mutant: the finally-handler does not look at the queue.
WorkerEndsBlind ==
  /\ WorkerAt("exit")
  /\ worker' = NoWorker
  /\ UNCHANGED <<mem, file, hostVars, clineVars, used>>

\* The finally-handler of kick(): a record that was added since process() looked at the
\* queue found the worker in place.
WorkerEnds ==
  /\ WorkerAt("exit")
  /\ worker' = AfterExit(mem)
  /\ UNCHANGED <<mem, file, hostVars, clineVars, used>>

WorkerStep ==
  \/ WorkerStart \/ RecoverUnbound \/ RecoverBound \/ RecoverNone
  \/ WorkerLoop \/ WorkerDispatches \/ WorkerSubmits
  \/ MonitorAborts \/ MonitorAdopts \/ MonitorSeesDone \/ MonitorRetains
  \/ RetentionSent \/ RetentionFails
  \/ MonitorAccepts \/ MonitorFails \/ MonitorMissesThread \/ WorkerCleansUp
  \/ WorkerSaves \/ WorkerSavesPause \/ WorkerSaveFails \/ WorkerRetries
  \/ WorkerEnds

\* The policy monitor leaves its loop when the signal is aborted.
PolicyStops ==
  /\ up /\ policy /\ aborted
  /\ policy' = FALSE
  /\ UNCHANGED <<mem, file, created, up, worker, aborted, recovering, cmd, clineVars, used>>

------------------------------------------------------------------------------
(* Control commands.  Issue is the part before the first await of each.     *)

Issue(c, op) ==
  /\ up /\ op \in Ops /\ cmd[c] = Idle
  /\ used.commands < MaxCommands /\ Spend("commands")

Step(c, pc) == cmd' = [cmd EXCEPT ![c].pc = pc]
Await(c, op, pc, i) == cmd' = [cmd EXCEPT ![c] = [op |-> op, pc |-> pc, item |-> i]]
At(c, op, pc) == up /\ cmd[c].op = op /\ cmd[c].pc = pc

\* The command returns or throws, having called kick() or startPolicyMonitor() or not.
Returns(c, kicks, monitors) ==
  /\ cmd' = [cmd EXCEPT ![c] = Idle]
  /\ worker' = IF kicks THEN Kicked(worker) ELSE worker
  /\ policy' = (policy \/ monitors)

CanCreate(S) == created < MaxItems /\ created + 1 \in S
Tasks == Item \ Messages

\* The source of a new task is not that of an active record.
NotDuplicate(m, i) == \A j \in Active(m) : SourceOf[j] # SourceOf[i]

hostButCmd == <<up, worker, policy, aborted, recovering>>

Enqueue(c) ==
  /\ Issue(c, "enqueue")
  /\ CanCreate(Tasks) /\ NotDuplicate(mem, created + 1)
  /\ created' = created + 1 /\ mem' = Appended(mem, created + 1)
  /\ Await(c, "enqueue", "save", created + 1)
  /\ UNCHANGED <<file, hostButCmd, clineVars>>

EnqueueMessage(c) ==
  /\ Issue(c, "message")
  /\ CanCreate(Messages)
  /\ created' = created + 1 /\ mem' = Appended(mem, created + 1)
  /\ Await(c, "message", "save", created + 1)
  /\ UNCHANGED <<file, hostButCmd, clineVars>>

\* Mutant: the running record is replaced too.
ReplaceAll(c) ==
  /\ Issue(c, "replace")
  /\ CanCreate(Tasks)
  /\ created' = created + 1
  /\ mem' = Appended(Without(mem, Active(mem)), created + 1)
  /\ Await(c, "replace", "save", created + 1)
  /\ UNCHANGED <<file, hostButCmd, clineVars>>

Replace(c) ==
  /\ Issue(c, "replace")
  /\ CanCreate(Tasks)
  /\ created' = created + 1
  /\ mem' = Appended(Without(mem, Queued(mem)), created + 1)
  /\ Await(c, "replace", "save", created + 1)
  /\ UNCHANGED <<file, hostButCmd, clineVars>>

CleanFinished(c) ==
  /\ Issue(c, "clean")
  /\ InState(mem, TerminalState) # {}
  /\ mem' = ForgettingLast(Without(mem, InState(mem, TerminalState)))
  /\ Await(c, "clean", "save", NoItem)
  /\ UNCHANGED <<file, created, hostButCmd, clineVars>>

\* Keeps the first `keep` active positions; a running record is never removed.
Trim(c) ==
  \E keep \in 1..MaxItems :
    LET removed == {i \in Queued(mem) : Cardinality({j \in Active(mem) : Before(mem, j, i)}) >= keep}
    IN /\ Issue(c, "trim")
       /\ removed # {}
       /\ mem' = Without(mem, removed)
       /\ Await(c, "trim", "save", NoItem)
       /\ UNCHANGED <<file, created, hostButCmd, clineVars>>

RemoveWaiting(c) ==
  /\ Issue(c, "remove")
  /\ \E i \in Queued(mem) : mem' = Without(mem, {i}) /\ Await(c, "remove", "save", i)
  /\ UNCHANGED <<file, created, hostButCmd, clineVars>>

\* Mutant: the exemption is not written.
SkipWaitingTaskUnsaved(c) ==
  /\ Issue(c, "skipWaiting")
  /\ latest # NoItem /\ thread[latest] = "waiting"
  /\ mem' = Exempting(mem, {latest})
  /\ Returns(c, FALSE, FALSE)
  /\ UNCHANGED <<file, created, up, aborted, recovering, clineVars>>

SkipWaitingTask(c) ==
  /\ Issue(c, "skipWaiting")
  /\ latest # NoItem /\ thread[latest] = "waiting"
  /\ mem' = Exempting(mem, {latest})
  /\ Await(c, "skipWaiting", "save", NoItem)
  /\ UNCHANGED <<file, created, hostButCmd, clineVars>>

Pause(c) ==
  /\ Issue(c, "pause")
  /\ mem' = Pausing(mem, TRUE)
  /\ Await(c, "pause", "save", NoItem)
  /\ UNCHANGED <<file, created, hostButCmd, clineVars>>

\* resume and continueCurrent both clear the pause and write it first.
Unpause(c) ==
  /\ \E op \in {"resume", "continue"} : Issue(c, op) /\ Await(c, op, "save", NoItem)
  /\ mem' = Pausing(mem, FALSE)
  /\ UNCHANGED <<file, created, hostButCmd, clineVars>>

Relaunch(c) ==
  /\ Issue(c, "relaunch")
  /\ mem' = Pausing(mem, FALSE)
  /\ \/ /\ Running(mem) \ Messages = {}
        /\ Await(c, "relaunch", "save", NoItem)
     \/ \E i \in Running(mem) \ Messages :
          Await(c, "relaunch", IF i \in mem.bound THEN "cancel" ELSE "newTask", i)
  /\ UNCHANGED <<file, created, hostButCmd, clineVars>>

\* remove selects the running item and looks up its thread first.
RemoveRunning(c) ==
  /\ Issue(c, "removeRunning")
  /\ \E i \in Running(mem) : Await(c, "removeRunning", "status", i)
  /\ UNCHANGED <<mem, file, created, hostButCmd, clineVars>>

\* The commands that stop the worker first; enqueue --force does so only while
\* an item is running.
Drain(c) ==
  /\ \/ \E op \in {"confirm", "next", "clear", "purge", "stop"} :
          Issue(c, op) /\ Await(c, op, "drain", NoItem) /\ UNCHANGED created
     \/ /\ Issue(c, "override") /\ CanCreate(Tasks) /\ Running(mem) # {}
        /\ Await(c, "override", "drain", created + 1)
        /\ created' = created + 1
  /\ aborted' = TRUE
  /\ UNCHANGED <<mem, file, up, worker, policy, recovering, clineVars>>

IssueStep(c) ==
  \/ Enqueue(c) \/ EnqueueMessage(c) \/ Replace(c) \/ CleanFinished(c) \/ Trim(c)
  \/ RemoveWaiting(c) \/ SkipWaitingTask(c) \/ Pause(c) \/ Unpause(c)
  \/ Relaunch(c) \/ RemoveRunning(c) \/ Drain(c)

------------------------------------------------------------------------------
(* After the drain: the worker and the monitor have ended, every waiting     *)
(* command gets a new controller and goes on in the same turn.               *)

Drained ==
  /\ DrainCompleted
  /\ aborted' = FALSE
  /\ cmd' = [c \in Slots |-> IF cmd[c].pc = "drain" THEN [cmd[c] EXCEPT !.pc = "drained"]
                                                    ELSE cmd[c]]
  /\ UNCHANGED <<mem, file, created, up, worker, policy, recovering, clineVars, used>>

\* No item is running any more: an ordinary enqueue, which starts no monitor.
OverrideContinues(c) ==
  LET i == cmd[c].item IN
  /\ At(c, "override", "drained")
  /\ \/ /\ Running(mem) = {} /\ ~NotDuplicate(mem, i)
        /\ Returns(c, FALSE, FALSE)
        /\ UNCHANGED mem
     \/ /\ Running(mem) = {} /\ NotDuplicate(mem, i)
        /\ mem' = Appended(mem, i)
        /\ Await(c, "enqueue", "save", i)
        /\ UNCHANGED <<worker, policy>>
     \/ \E r \in Running(mem) :
          /\ mem' = PutFirst(Moved(mem, r, "skipped"), i)
          /\ Step(c, "save")
          /\ UNCHANGED <<worker, policy>>
  /\ UNCHANGED <<file, created, up, aborted, recovering, clineVars, used>>

ConfirmContinues(c) ==
  /\ At(c, "confirm", "drained")
  /\ \/ /\ Running(mem) \ Messages = {}
        /\ Returns(c, FALSE, TRUE)
        /\ UNCHANGED mem
     \/ \E i \in Running(mem) \ Messages :
          /\ mem' = Completed(mem, i)
          /\ Await(c, "confirm", "save", i)
          /\ UNCHANGED <<worker, policy>>
  /\ UNCHANGED <<file, created, up, aborted, recovering, clineVars, used>>

NextContinues(c) ==
  /\ At(c, "next", "drained")
  /\ \/ Running(mem) = {} /\ Await(c, "next", "interruptLatest", NoItem)
     \/ \E i \in Running(mem) : Await(c, "next", "interrupt", i)
  /\ UNCHANGED <<mem, file, created, up, worker, policy, aborted, recovering, clineVars, used>>

\* adapter.interruptTask stops whatever thread Cline has active.
Interrupts ==
  /\ thread' = [j \in Item |-> IF thread[j] = "running" THEN "waiting" ELSE thread[j]]
  /\ UNCHANGED <<latest, starts>>

\* Nothing is running: a latest thread of ours that is still busy is interrupted.
NextInterruptsLatest(c) ==
  LET owned == latest # NoItem /\ latest \in mem.bound /\ thread[latest] \in {"running", "waiting"}
  IN
  /\ At(c, "next", "interruptLatest")
  /\ \/ /\ owned /\ MayFault /\ Spend("faults")
        /\ Returns(c, TRUE, TRUE)
        /\ UNCHANGED <<mem, clineVars>>
     \/ /\ IF owned THEN Interrupts ELSE UNCHANGED clineVars
        /\ mem' = Pausing(Exempting(mem, IF owned THEN {latest} ELSE {}), FALSE)
        /\ Await(c, "next", "save", NoItem)
        /\ UNCHANGED <<worker, policy, used>>
  /\ UNCHANGED <<file, created, up, aborted, recovering>>

\* The item seen right after the drain is interrupted in Cline and skipped here.
NextSkips(c) ==
  LET i == cmd[c].item
      owned == i \in mem.bound \ Messages /\ thread[i] # "none"
  IN
  /\ At(c, "next", "interrupt")
  /\ \/ /\ owned /\ MayFault /\ Spend("faults")
        /\ Returns(c, TRUE, TRUE)
        /\ UNCHANGED <<mem, clineVars>>
     \/ /\ MoveThrows(mem, i, "skipped")
        /\ Returns(c, FALSE, FALSE)
        /\ IF owned THEN Interrupts ELSE UNCHANGED clineVars
        /\ mem' = Exempting(mem, {i} \cap mem.bound)
        /\ UNCHANGED used
     \/ /\ ~MoveThrows(mem, i, "skipped")
        /\ IF owned THEN Interrupts ELSE UNCHANGED clineVars
        /\ mem' = Pausing(Exempting(Moved(mem, i, "skipped"), {i} \cap mem.bound), FALSE)
        /\ Step(c, "save")
        /\ UNCHANGED <<worker, policy, used>>
  /\ UNCHANGED <<file, created, up, aborted, recovering>>

\* Only the forced clear deletes Cline history first; a failure of it ends the command.
ClearContinues(c) ==
  /\ \/ /\ At(c, "clear", "drained")
        /\ mem' = Emptied(mem) /\ Step(c, "save")
     \/ /\ At(c, "purge", "drained")
        /\ Step(c, "history") /\ UNCHANGED mem
  /\ UNCHANGED <<file, created, up, worker, policy, aborted, recovering, clineVars, used>>

PurgesHistory(c) ==
  /\ At(c, "purge", "history")
  /\ \/ /\ mem' = Emptied(mem) /\ Step(c, "save")
        /\ UNCHANGED <<worker, policy, used>>
     \/ /\ MayFault /\ Spend("faults")
        /\ Returns(c, TRUE, FALSE)
        /\ UNCHANGED mem
  /\ UNCHANGED <<file, created, up, aborted, recovering, clineVars>>

\* The thread has ended: the item, if it still runs, is removed after a drain, and
\* if the worker has ended it meanwhile at once.
RemovalChecked(c) ==
  LET i == cmd[c].item
      ended == i \in mem.bound /\ thread[i] \in {"failed", "completed", "stale"}
  IN
  /\ At(c, "removeRunning", "status")
  /\ \/ /\ ~ended
        /\ Returns(c, FALSE, FALSE)
        /\ UNCHANGED <<mem, aborted>>
     \/ /\ ended /\ i \in Running(mem)
        /\ Step(c, "drain") /\ aborted' = TRUE
        /\ UNCHANGED <<mem, worker, policy>>
     \/ /\ ended /\ i \notin Running(mem)
        /\ \E l \in LatestLeft(mem, i) : mem' = Removing(mem, i, l)
        /\ Step(c, "save")
        /\ UNCHANGED <<worker, policy, aborted>>
  /\ UNCHANGED <<file, created, up, recovering, clineVars, used>>

RemoveRunningContinues(c) ==
  LET i == cmd[c].item IN
  /\ At(c, "removeRunning", "drained")
  /\ \E l \in LatestLeft(mem, i) :
       mem' = Removing(Exempting(mem, {i} \cap mem.bound), i, l)
  /\ Step(c, "save")
  /\ UNCHANGED <<file, created, up, worker, policy, aborted, recovering, clineVars, used>>

\* deactivate(): the queue is stopped, then the extension host ends.
HostEnds ==
  /\ up' = FALSE
  /\ mem' = file
  /\ worker' = NoWorker /\ policy' = FALSE
  /\ aborted' = FALSE /\ recovering' = FALSE
  /\ cmd' = [c \in Slots |-> Idle]
  /\ \E s \in {"stale", "waiting"} :
       thread' = [j \in Item |-> IF thread[j] = "running" THEN s ELSE thread[j]]
  /\ UNCHANGED <<file, created, latest, starts>>

StopContinues(c) ==
  /\ At(c, "stop", "drained")
  /\ HostEnds
  /\ UNCHANGED used

Resumed(c) ==
  \/ OverrideContinues(c) \/ ConfirmContinues(c) \/ NextContinues(c)
  \/ ClearContinues(c) \/ RemoveRunningContinues(c) \/ StopContinues(c)

------------------------------------------------------------------------------
(* The rest of a command: its write and what follows it.                    *)

Kicking == {"enqueue", "message", "replace", "remove", "override", "confirm", "next",
            "removeRunning"}
\* Mutant: clear leaves the policy monitor off.
MonitoringButClear == {"remove", "override", "confirm", "next", "purge", "removeRunning"}

Monitoring == {"remove", "override", "confirm", "next", "clear", "purge", "removeRunning"}

\* resume and the others start the worker only if records are active.
KicksAfterSave(c) ==
  \/ cmd[c].op \in Kicking
  \/ cmd[c].op = "relaunch" /\ cmd[c].item # NoItem
  \/ cmd[c].op \in {"resume", "continue", "relaunch"} /\ Active(mem) # {}

FinishesLifecycle(c) == cmd[c].op \in {"confirm", "next"} /\ cmd[c].item # NoItem

CommandSaves(c) ==
  /\ up /\ cmd[c].pc = "save"
  /\ file' = mem
  /\ \/ /\ FinishesLifecycle(c) /\ LifecycleFinished(mem)
        /\ mem' = NoneExempt(mem)
        /\ Step(c, "reset")
        /\ UNCHANGED <<worker, policy>>
     \/ /\ cmd[c].op \in {"resume", "continue"} /\ Running(mem) \ Messages # {}
        /\ Step(c, "activity")
        /\ UNCHANGED <<mem, worker, policy>>
     \/ /\ ~(FinishesLifecycle(c) /\ LifecycleFinished(mem))
        /\ ~(cmd[c].op \in {"resume", "continue"} /\ Running(mem) \ Messages # {})
        /\ Returns(c, KicksAfterSave(c), cmd[c].op \in Monitoring)
        /\ UNCHANGED mem
  /\ UNCHANGED <<created, up, aborted, recovering, clineVars, used>>

CommandSavesReset(c) ==
  /\ up /\ cmd[c].pc = "reset"
  /\ file' = mem
  /\ Returns(c, TRUE, TRUE)
  /\ UNCHANGED <<mem, created, up, aborted, recovering, clineVars, used>>

CommandSaveFails(c) ==
  /\ up /\ cmd[c].pc \in {"save", "reset"} /\ MayFault
  /\ Spend("faults")
  /\ Returns(c, FALSE, FALSE)
  /\ UNCHANGED <<mem, file, created, up, aborted, recovering, clineVars>>

\* resume continues a thread that waits, continue also one that has ended.
ContinuesFrom(op) ==
  IF op = "resume" THEN {"waiting"} ELSE {"waiting", "completed", "stale", "failed"}

\* currentOwnedActivity: the item that is running now, and its thread.
ReadsActivity(c) ==
  LET sendTo == {i \in (Running(mem) \ Messages) \cap mem.bound :
                   thread[i] \in ContinuesFrom(cmd[c].op)}
  IN
  /\ up /\ cmd[c].pc = "activity"
  /\ \/ /\ sendTo = {}
        /\ Returns(c, TRUE, FALSE)
     \/ \E i \in sendTo :
          /\ Await(c, cmd[c].op, "send", i)
          /\ UNCHANGED <<worker, policy>>
  /\ UNCHANGED <<mem, file, created, up, aborted, recovering, clineVars, used>>

\* A failed send ends continue; resume logs it and starts the worker all the same.
Continues(c) ==
  /\ up /\ cmd[c].pc = "send"
  /\ \/ /\ ~aborted
        /\ ContinueThread(cmd[c].item)
        /\ Returns(c, TRUE, FALSE)
        /\ UNCHANGED used
     \/ /\ \/ aborted /\ UNCHANGED used
           \/ MayFault /\ Spend("faults")
        /\ Returns(c, cmd[c].op = "resume", FALSE)
        /\ UNCHANGED clineVars
  /\ UNCHANGED <<mem, file, created, up, aborted, recovering>>

\* cancelTask listens to the abort signal, newTask does not.
RelaunchCancels(c) ==
  /\ At(c, "relaunch", "cancel")
  /\ \/ /\ ~aborted
        /\ Interrupts
        /\ Step(c, "newTask")
        /\ UNCHANGED <<worker, policy, used>>
     \/ /\ \/ aborted /\ UNCHANGED used
           \/ MayFault /\ Spend("faults")
        /\ Returns(c, FALSE, FALSE)
        /\ UNCHANGED clineVars
  /\ UNCHANGED <<mem, file, created, up, aborted, recovering>>

\* The prompt is submitted again and its new session is looked up; nothing looks
\* at the record's state again.
RelaunchSubmits(c) ==
  /\ At(c, "relaunch", "newTask")
  /\ \/ /\ StartThread(cmd[c].item)
        /\ mem' = Binding(mem, cmd[c].item)
        /\ Step(c, "save")
        /\ UNCHANGED <<worker, policy, used>>
     \/ /\ \/ aborted /\ UNCHANGED used
           \/ MayFault /\ Spend("faults")
        /\ StartThread(cmd[c].item)
        /\ Returns(c, FALSE, FALSE)
        /\ UNCHANGED mem
     \/ /\ MayFault /\ Spend("faults")
        /\ Returns(c, FALSE, FALSE)
        /\ UNCHANGED <<mem, clineVars>>
  /\ UNCHANGED <<file, created, up, aborted, recovering>>

CommandStep(c) ==
  \/ CommandSaves(c) \/ CommandSavesReset(c) \/ CommandSaveFails(c)
  \/ ReadsActivity(c) \/ Continues(c)
  \/ RelaunchCancels(c) \/ RelaunchSubmits(c)
  \/ NextInterruptsLatest(c) \/ NextSkips(c) \/ PurgesHistory(c) \/ RemovalChecked(c)

------------------------------------------------------------------------------
(* The host and Cline.                                                      *)

Crash ==
  /\ up /\ used.crashes < MaxCrashes /\ Spend("crashes")
  /\ HostEnds

\* start(): load the file; when nothing is running but records wait, the latest
\* finished session no longer blocks them.
Start ==
  LET loaded == IF Running(file) = {} /\ Queued(file) # {}
                THEN Exempting(file, {file.last} \cap Item)
                ELSE file
  IN
  /\ ~up
  /\ up' = TRUE
  /\ mem' = loaded /\ file' = loaded
  /\ recovering' = (~loaded.paused /\ Active(loaded) # {})
  /\ worker' = Worker("start", NoItem) /\ policy' = TRUE
  /\ UNCHANGED <<created, aborted, cmd, clineVars, used>>

\* What happens in Cline's window, which lives as long as the host.
ClineStops ==
  /\ up /\ latest # NoItem /\ thread[latest] = "running"
  /\ \E s \in Outcomes : thread' = [thread EXCEPT ![latest] = s]
  /\ UNCHANGED <<mem, file, hostVars, worker, latest, starts, used>>

UserResumes ==
  /\ up /\ "resume" \in UserActs
  /\ latest # NoItem /\ thread[latest] \in {"waiting", "stale"}
  /\ thread' = [thread EXCEPT ![latest] = "running"]
  /\ UNCHANGED <<mem, file, hostVars, worker, latest, starts, used>>

\* The next thread to count as the latest is any of the others.
UserDeletes ==
  /\ up /\ "delete" \in UserActs
  /\ latest # NoItem
  /\ thread' = [thread EXCEPT ![latest] = "deleted"]
  /\ latest' \in {NoItem} \cup {j \in Item \ {latest} : thread[j] \notin {"none", "deleted"}}
  /\ UNCHANGED <<mem, file, hostVars, worker, starts, used>>

Next ==
  \/ Drained
  \/ \E c \in Slots : Resumed(c)
  \/ ~Resuming /\ WorkerStep
  \/ ~Resuming /\ PolicyStops
  \/ ~Resuming /\ \E c \in Slots : IssueStep(c) \/ CommandStep(c)
  \/ ~Resuming /\ (Crash \/ Start)
  \/ ~Resuming /\ (ClineStops \/ UserResumes \/ UserDeletes)

Spec == Init /\ [][Next]_vars

\* Calls to Cline that have neither a timeout nor a signal: adapter.newTask, and
\* adapter.interruptTask for next.
WorkerAwaitsCline == worker.pc = "dispatch" /\ worker.item \notin Messages
AwaitsCline(c) == cmd[c].pc \in {"newTask", "interrupt", "interruptLatest"}

\* The event loop runs what is ready, writes and bounded calls settle, VS Code is
\* opened again and a running thread ends; nobody is obliged to issue a command, to
\* crash, or to act in Cline's panel, and a call without a bound may never return.  The
\* worker's wait for LM Studio (lmstudio_ready.ts:50) is part of a step that looks for
\* an abort: what is assumed of it is that a model gets loaded some time.
Fairness ==
  /\ WF_vars(Drained)
  /\ WF_vars(~Resuming /\ ~WorkerAwaitsCline /\ WorkerStep)
  /\ WF_vars(~Resuming /\ PolicyStops)
  /\ \A c \in Slots :
       WF_vars(Resumed(c)) /\ WF_vars(~Resuming /\ ~AwaitsCline(c) /\ CommandStep(c))
  /\ WF_vars(~Resuming /\ Start)
  /\ WF_vars(~Resuming /\ ClineStops)

FairSpec == Spec /\ Fairness

------------------------------------------------------------------------------
(* Properties.                                                              *)

Usage == [commands : Nat, crashes : Nat, faults : Nat, rounds : Nat]
ThreadStatus == {"none", "running", "waiting", "completed", "failed", "stale", "deleted"}
WorkerRecord ==
  {w \in [pc : WorkerPC, item : Item \cup {NoItem}] :
     w.pc \notin {"none", "start", "recoverNone", "loop", "retry", "exit"} => w.item \in Item}
Command ==
  {d \in [op : Operation \cup {"none"}, pc : CommandPC, item : Item \cup {NoItem}] :
     d.op = "override" \/ d.pc \in {"cancel", "newTask"} => d.item \in Item}
Data == [state : [Item -> ItemState], order : Seq(Item), paused : BOOLEAN,
         bound : SUBSET Item, exempt : SUBSET Item, last : Item \cup {NoItem}]

\* Types of every variable; where the worker or a command needs an item it has one.
TypeOK ==
  /\ mem \in Data /\ file \in Data
  /\ created \in 0..MaxItems
  /\ up \in BOOLEAN /\ policy \in BOOLEAN /\ aborted \in BOOLEAN /\ recovering \in BOOLEAN
  /\ worker \in WorkerRecord
  /\ cmd \in [Slots -> Command]
  /\ thread \in [Item -> ThreadStatus]
  /\ latest \in Item \cup {NoItem}
  /\ starts \in [Item -> Nat]
  /\ used \in Usage

\* One queue runs one item at a time, in memory and in the file a restart loads:
\* the loop of process() dispatches only when no record is running, and no
\* command or recovery brings a second one to that state.
AtMostOneRunning ==
  \A m \in {mem, file} : \A i, j \in Running(m) : i = j

\* FIFO: the record process() marks running is the first queued one at that
\* moment, although it was picked before two idle waits and a cooldown in which
\* commands may remove, replace or prepend records, pause or abort.
DispatchesHead ==
  [][up' => \A i \in Item : mem.state[i] = "queued" /\ mem'.state[i] = "running" =>
       IsHead(mem, i) /\ ~mem.paused /\ ~aborted]_vars

\* An active record leaves the queue only by a command that removes records; a
\* running one only by a clear or by the removal of that very item.
ActiveNotLost ==
  [][up /\ up' => \A i \in Active(mem) : mem'.state[i] = "absent" =>
       \E c \in Slots :
         \/ cmd[c].op \in {"clear", "purge"}
         \/ cmd[c].op = "removeRunning" /\ cmd[c].item = i
         \/ cmd'[c].op \in {"replace", "trim", "remove"} /\ i \in Queued(mem)]_vars

\* What commands and the worker changed is in the file once none of them is
\* about to write: a crash then loses nothing that was acknowledged.
AcknowledgedDurable ==
  up /\ (\A c \in Slots : cmd[c] = Idle) /\ worker.pc \notin SavePC \cup {"cleanup"} => file = mem

\* A prompt is submitted to Cline only after the file says its record runs:
\* otherwise a crash right after newTask would submit it a second time.
PersistBeforeDispatch ==
  [][\A i \in Item : starts'[i] > starts[i] => file.state[i] = "running"]_vars

\* A task a Cline session was ever bound to is not submitted again from scratch,
\* through any number of crashes and recoveries.
ResubmitsOnlyUnbound ==
  [][\A i \in Item : starts'[i] > starts[i] => i \notin mem.bound]_vars

\* The item the worker waits on is the running record of the queue, never one a
\* command has finished or removed behind its back.
MonitoredItemRunning ==
  worker.pc = "monitor" => worker.item \in Running(mem)

Quiet == up /\ ~aborted /\ \A c \in Slots : cmd[c] = Idle

\* The new-task policy monitor runs whenever no command is at work.
PolicyAlongside == Quiet => policy

\* Stopping the monitor keeps the item: while the controller is aborted no
\* running record becomes failed.
AbortPreservesItem ==
  [][aborted => \A i \in Item : ~(mem.state[i] = "running" /\ mem'.state[i] = "failed")]_vars

\* Every command returns, unless it waits for ever for a call to Cline that has no
\* bound, its own or the newTask call of the worker it drains (task_queue.ts:548-552,
\* 913): the abort ends everything else the worker and the monitor wait for.
CommandsReturn ==
  \A c \in Slots :
    \/ []<>(cmd[c] = Idle)
    \/ <>[](AwaitsCline(c) \/ (cmd[c].pc = "drain" /\ WorkerAwaitsCline))

\* The thread that is selected in Cline waits for the user.
UserIsAsked == latest # NoItem /\ thread[latest] = "waiting"

\* A record is left in the queue for ever only because the queue is paused, the user
\* is asked, or the submission of another record never returns.
QueuedAdvances ==
  \A i \in Item :
    <>[](mem.state[i] = "queued") => <>[](mem.paused \/ UserIsAsked \/ WorkerAwaitsCline)

\* A record runs for ever only because the user is asked, its thread was left for
\* another one or deleted, or its submission never returns -- through crashes and
\* recoveries too.
RunningEnds ==
  \A i \in Item : <>[](mem.state[i] = "running") =>
    <>[](UserIsAsked \/ thread[i] \in {"waiting", "stale", "deleted"} \/ WorkerAwaitsCline)
=============================================================================
