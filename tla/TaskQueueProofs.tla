--------------------------- MODULE TaskQueueProofs ---------------------------
(***************************************************************************)
(* Proofs about the workspace queue.  TypeOK is inductive as it stands: its *)
(* records say where the worker and a command must hold an item, and that   *)
(* is what keeps the operators below inside their types.                    *)
(***************************************************************************)
EXTENDS TaskQueue, SequenceTheorems, TLAPS

------------------------------------------------------------------------------
(* What the operators on the queue's data return.                           *)

\* The data of a queue without a file is well-formed.
LEMMA EmptyDataType == EmptyData \in Data
  BY EmptySeq DEF EmptyData, Data, ItemState, PersistentQueueState, NoItem

\* Setting the queue's flags keeps its data well-formed.
LEMMA PausingType ==
  ASSUME NEW m \in Data, NEW b \in BOOLEAN
  PROVE Pausing(m, b) \in Data
  BY DEF Data, Pausing

\* Forgetting the exemptions does so too.
LEMMA NoneExemptType ==
  ASSUME NEW m \in Data
  PROVE NoneExempt(m) \in Data
  BY DEF Data, NoneExempt

\* Binding a session to an item keeps the data well-formed.
LEMMA BindingType ==
  ASSUME NEW m \in Data, NEW i \in Item
  PROVE Binding(m, i) \in Data
  BY DEF Data, Binding

\* So does forgetting which record finished last.
LEMMA ForgettingLastType ==
  ASSUME NEW m \in Data
  PROVE ForgettingLast(m) \in Data
  BY DEF Data, ForgettingLast

\* A cleared queue keeps the sessions it owns and no record.
LEMMA EmptiedType ==
  ASSUME NEW m \in Data
  PROVE Emptied(m) \in Data
  BY DEF Data, Emptied, EmptyData, ItemState

\* Exempting sessions from the idle wait keeps the data well-formed.
LEMMA ExemptingType ==
  ASSUME NEW m \in Data, NEW S \in SUBSET Item
  PROVE Exempting(m, S) \in Data
  BY DEF Data, Exempting

\* Removing records and moving one of them to another state do so too.
LEMMA WithoutType ==
  ASSUME NEW m \in Data, NEW S
  PROVE Without(m, S) \in Data
  BY DEF Data, Without, ItemState

\* So does a transition of one record, also of one that was removed.
LEMMA MovedType ==
  ASSUME NEW m \in Data, NEW i, NEW next \in PersistentQueueState
  PROVE Moved(m, i, next) \in Data
  BY DEF Data, Moved, ItemState

\* And its completion, which may make it the last one completed.
LEMMA CompletedType ==
  ASSUME NEW m \in Data, NEW i \in Item
  PROVE Completed(m, i) \in Data
  BY DEF Data, Completed, Moved, ItemState, PersistentQueueState

\* Removing one record leaves another one, or none, as the last one completed.
LEMMA RemovingType ==
  ASSUME NEW m \in Data, NEW i, NEW l \in Item \cup {NoItem}
  PROVE Removing(m, i, l) \in Data
<1>1. Without(m, {i}) \in Data
  BY WithoutType
<1> QED
  BY <1>1 DEF Data, Removing

\* That one is an item of the queue.
LEMMA LatestLeftType ==
  ASSUME NEW m \in Data, NEW i
  PROVE LatestLeft(m, i) \subseteq Item \cup {NoItem}
  BY DEF LatestLeft, Data, InState

\* A new record goes to the end of the array or to its front.
LEMMA AppendedType ==
  ASSUME NEW m \in Data, NEW i \in Item
  PROVE Appended(m, i) \in Data /\ PutFirst(m, i) \in Data
<1>1. m.order \in Seq(Item) /\ <<i>> \in Seq(Item)
  BY DEF Data
<1>2. Append(m.order, i) \in Seq(Item) /\ <<i>> \o m.order \in Seq(Item)
  BY <1>1, AppendProperties, ConcatProperties
<1>3. [m.state EXCEPT ![i] = "queued"] \in [Item -> ItemState]
  BY DEF Data, ItemState, PersistentQueueState
<1> QED
  BY <1>2, <1>3 DEF Data, Appended, PutFirst

\* The sets the conditions of the code look at contain items.
LEMMA StateItems ==
  ASSUME NEW m
  PROVE Running(m) \subseteq Item /\ Queued(m) \subseteq Item
  BY DEF Running, Queued, InState

\* So do the sessions the queue owns.
LEMMA BoundItems ==
  ASSUME NEW m \in Data
  PROVE m.bound \subseteq Item /\ m.paused \in BOOLEAN
  BY DEF Data

------------------------------------------------------------------------------
(* What the operators on the worker, the commands, Cline and the bounds do.  *)

\* The worker goes to another place with the item it holds.
LEMMA GotoType ==
  ASSUME worker \in WorkerRecord, NEW pc \in WorkerPC, Goto(pc),
         \/ worker.item \in Item
         \/ pc \in {"none", "start", "recoverNone", "loop", "retry", "exit"}
  PROVE worker' \in WorkerRecord
  BY DEF Goto, WorkerRecord

\* A worker is started without an item.
LEMMA WorkerTypes == NoWorker \in WorkerRecord /\ Worker("start", NoItem) \in WorkerRecord
  BY DEF NoWorker, Worker, WorkerRecord, WorkerPC

\* The worker takes up an item, or goes on without one.
LEMMA HoldType ==
  ASSUME NEW pc \in WorkerPC, NEW i \in Item \cup {NoItem}, Hold(pc, i),
         i \in Item \/ pc \in {"none", "start", "recoverNone", "loop", "retry", "exit"}
  PROVE worker' \in WorkerRecord
  BY DEF Hold, Worker, WorkerRecord

\* process() returns without an item; then the worker is gone or started again.
LEMMA ExitType ==
  /\ Exit => worker' \in WorkerRecord
  /\ worker' = AfterExit(mem) => worker' \in WorkerRecord
  BY WorkerTypes, HoldType DEF Exit, AfterExit, WorkerPC

\* An item is at hand where the code uses one.
LEMMA WorkerHolds ==
  ASSUME worker \in WorkerRecord,
         worker.pc \notin {"none", "start", "recoverNone", "loop", "retry", "exit"}
  PROVE worker.item \in Item
  BY DEF WorkerRecord

\* And where a command uses one.
LEMMA CommandHolds ==
  ASSUME cmd \in [Slots -> Command], NEW c \in Slots
  PROVE /\ cmd[c].op = "override" => cmd[c].item \in Item
        /\ cmd[c].pc \in {"cancel", "newTask"} => cmd[c].item \in Item
        /\ cmd[c].item \in Item \cup {NoItem}
        /\ cmd[c].op \in Operation \cup {"none"}
  BY DEF Command

\* A command goes on.
LEMMA StepType ==
  ASSUME cmd \in [Slots -> Command], NEW c \in Slots, NEW pc \in CommandPC, Step(c, pc),
         pc \in {"cancel", "newTask"} => cmd[c].item \in Item
  PROVE cmd' \in [Slots -> Command]
  BY DEF Step, Command

\* A command goes on as another operation, or with another item.
LEMMA AwaitType ==
  ASSUME cmd \in [Slots -> Command], NEW c \in Slots, NEW op \in Operation \cup {"none"},
         NEW pc \in CommandPC, NEW i \in Item \cup {NoItem}, Await(c, op, pc, i),
         op = "override" \/ pc \in {"cancel", "newTask"} => i \in Item
  PROVE cmd' \in [Slots -> Command]
  BY DEF Await, Command

\* A command returns, and may start the worker and the policy monitor.
LEMMA IdleType == Idle \in Command
  BY DEF Idle, Command, CommandPC, Operation

\* A returning command leaves well-formed processes behind.
LEMMA ReturnsType ==
  ASSUME cmd \in [Slots -> Command], worker \in WorkerRecord, policy \in BOOLEAN,
         NEW c \in Slots, NEW kicks, NEW monitors, Returns(c, kicks, monitors)
  PROVE cmd' \in [Slots -> Command] /\ worker' \in WorkerRecord /\ policy' \in BOOLEAN
<1>1. cmd' \in [Slots -> Command]
  BY IdleType DEF Returns
<1>2. worker' \in WorkerRecord
  BY WorkerTypes DEF Returns, Kicked
<1>3. policy' \in BOOLEAN
  BY DEF Returns
<1> QED
  BY <1>1, <1>2, <1>3

\* Cline's threads, after a submission, a message or an interruption.
ClineType ==
  /\ thread \in [Item -> ThreadStatus]
  /\ latest \in Item \cup {NoItem}
  /\ starts \in [Item -> Nat]

\* They have known statuses, and the latest one is an item.
LEMMA ThreadsType ==
  ASSUME ClineType, NEW i \in Item \cup {NoItem}, StartThread(i) \/ ContinueThread(i) \/ Interrupts
  PROVE ClineType'
  BY DEF StartThread, ContinueThread, Interrupts, ThreadStatus, ClineType

\* One more command, crash, fault or round is counted.
LEMMA SpendType ==
  ASSUME used \in Usage, NEW kind \in {"commands", "crashes", "faults", "rounds"}, Spend(kind)
  PROVE used' \in Usage
  BY DEF Spend, Usage
------------------------------------------------------------------------------
(* One step per action.                                                     *)

\* The initial state is well-typed.
LEMMA InitType == Init => TypeOK
<1> SUFFICES ASSUME Init PROVE TypeOK
  OBVIOUS
<1>1. mem \in Data /\ file \in Data
  BY EmptyDataType DEF Init
<1>2. created \in 0..MaxItems
  BY ConstantsAssumption DEF Init
<1>3. cmd \in [Slots -> Command] /\ worker \in WorkerRecord
  BY IdleType, WorkerTypes DEF Init
<1> QED
  BY <1>1, <1>2, <1>3 DEF Init, TypeOK, ThreadStatus, Usage

\* An error in the loop body leaves or fails the item.
LEMMA CatchesType ==
  ASSUME TypeOK, worker.item \in Item, CatchesError
  PROVE mem' \in Data /\ worker' \in WorkerRecord
  BY GotoType, ExitType, MovedType
  DEF CatchesError, TypeOK, WorkerPC, PersistentQueueState

\* A result of the monitor ends the item, or counts as such an error.
LEMMA EndsType ==
  ASSUME TypeOK, WorkerAt("monitor"), NEW next \in PersistentQueueState, NEW pc \in WorkerPC,
         NEW exempting \in SUBSET Item, Ends(next, pc, exempting)
  PROVE mem' \in Data /\ worker' \in WorkerRecord
<1>1. worker.item \in Item
  BY WorkerHolds DEF WorkerAt, TypeOK
<1> QED
  BY <1>1, CatchesType, GotoType, MovedType, CompletedType, ExemptingType
  DEF Ends, TypeOK

\* The end of the host leaves the file as the queue's only data.
LEMMA HostEndsType ==
  ASSUME TypeOK, HostEnds
  PROVE /\ mem' \in Data /\ file' \in Data /\ worker' \in WorkerRecord
        /\ cmd' \in [Slots -> Command] /\ ClineType'
        /\ up' \in BOOLEAN /\ policy' \in BOOLEAN /\ aborted' \in BOOLEAN
        /\ recovering' \in BOOLEAN /\ created' \in 0..MaxItems
  BY IdleType, WorkerTypes DEF HostEnds, TypeOK, ClineType, ThreadStatus

\* Every step of the worker keeps the types.
LEMMA WorkerType == TypeOK /\ WorkerStep => TypeOK'
<1> SUFFICES ASSUME TypeOK, WorkerStep PROVE TypeOK'
  OBVIOUS
<1> USE DEF TypeOK
<1>1. CASE WorkerStart
  BY <1>1, HoldType, StateItems
  DEF WorkerStart, WorkerPC, WorkerAt, hostVars, clineVars
<1>2. CASE RecoverUnbound
  BY <1>2, GotoType, ExitType, MovedType, WorkerHolds
  DEF RecoverUnbound, WorkerPC, PersistentQueueState, WorkerAt, hostVars,
      clineVars
<1>3. CASE RecoverBound
  BY <1>3, GotoType, ExitType, ThreadsType, SpendType, WorkerHolds
  DEF RecoverBound, WorkerPC, ClineType, WorkerAt, hostVars, clineVars
<1>4. CASE RecoverNone
  BY <1>4, GotoType, ExitType
  DEF RecoverNone, WorkerPC, WorkerAt, hostVars, clineVars
<1>5. CASE WorkerLoop
  BY <1>5, HoldType, ExitType, StateItems
  DEF WorkerLoop, WorkerPC, WorkerAt, hostVars, clineVars
<1>6. CASE WorkerDispatches
  BY <1>6, GotoType, ExitType, MovedType, NoneExemptType, WorkerHolds
  DEF WorkerDispatches, WorkerPC, PersistentQueueState, WorkerAt, hostVars,
      clineVars
<1>7. CASE WorkerSubmits
  BY <1>7, GotoType, MovedType, ThreadsType, SpendType, WorkerHolds
  DEF WorkerSubmits, WorkerPC, PersistentQueueState, ClineType, WorkerAt,
      hostVars, clineVars
<1>8. CASE MonitorAborts
  BY <1>8, ExitType
  DEF MonitorAborts, WorkerAt, hostVars, clineVars
<1>9. CASE MonitorAdopts
  BY <1>9, GotoType, BindingType, WorkerHolds
  DEF MonitorAdopts, Watching, WorkerPC, WorkerAt, hostVars, clineVars
<1>10. CASE MonitorSeesDone
  BY <1>10, EndsType
  DEF MonitorSeesDone, Watching, PersistentQueueState, WorkerPC, WorkerAt,
      hostVars, clineVars
<1>11. CASE MonitorRetains
  BY <1>11, GotoType, SpendType, WorkerHolds
  DEF MonitorRetains, Watching, WorkerPC, WorkerAt, hostVars, clineVars
<1>12. CASE RetentionSent
  BY <1>12, GotoType, ThreadsType, WorkerHolds
  DEF RetentionSent, WorkerPC, ClineType, WorkerAt, hostVars, clineVars
<1>13. CASE RetentionFails
  BY <1>13, CatchesType, SpendType, WorkerHolds
  DEF RetentionFails, WorkerAt, hostVars, clineVars
<1>14. CASE MonitorAccepts
  BY <1>14, EndsType, WorkerHolds
  DEF MonitorAccepts, Watching, PersistentQueueState, WorkerPC, WorkerAt,
      hostVars, clineVars
<1>15. CASE MonitorFails
  BY <1>15, EndsType
  DEF MonitorFails, Watching, PersistentQueueState, WorkerPC, WorkerAt, hostVars,
      clineVars
<1>16. CASE MonitorMissesThread
  BY <1>16, GotoType, PausingType, WorkerHolds
  DEF MonitorMissesThread, Watching, WorkerPC, WorkerAt, hostVars, clineVars
<1>17. CASE WorkerCleansUp
  BY <1>17, GotoType, WorkerHolds
  DEF WorkerCleansUp, WorkerPC, WorkerAt, hostVars, clineVars
<1>18. CASE WorkerSaves
  BY <1>18, GotoType, NoneExemptType, WorkerHolds
  DEF WorkerSaves, AfterSave, WorkerPC, WorkerAt, hostVars, clineVars
<1>19. CASE WorkerSavesPause
  BY <1>19, ExitType
  DEF WorkerSavesPause, WorkerAt, hostVars, clineVars
<1>20. CASE WorkerSaveFails
  BY <1>20, CatchesType, GotoType, SpendType, WorkerHolds
  DEF WorkerSaveFails, SavePC, AfterSave, WorkerPC, WorkerAt, hostVars, clineVars
<1>21. CASE WorkerRetries
  BY <1>21, ExitType
  DEF WorkerRetries, WorkerAt, hostVars, clineVars
<1>22. CASE WorkerEnds
  BY <1>22, ExitType
  DEF WorkerEnds, WorkerAt, hostVars, clineVars
<1> QED
  BY <1>1, <1>2, <1>3, <1>4, <1>5, <1>6, <1>7, <1>8, <1>9, <1>10, <1>11, <1>12,
     <1>13, <1>14, <1>15, <1>16, <1>17, <1>18, <1>19, <1>20, <1>21, <1>22 DEF WorkerStep

\* The id of a new record is an item.
LEMMA CreatedType ==
  ASSUME TypeOK, NEW S, CanCreate(S)
  PROVE created + 1 \in Item /\ created + 1 \in 0..MaxItems
  BY ConstantsAssumption DEF TypeOK, CanCreate, Item

\* Every issue of a command keeps the types.
LEMMA IssueType == ASSUME NEW c \in Slots, TypeOK, IssueStep(c) PROVE TypeOK'
<1> USE DEF TypeOK
<1>1. CASE Enqueue(c)
  BY <1>1, CreatedType, AppendedType, AwaitType, SpendType
  DEF Enqueue, Issue, Operation, CommandPC, hostButCmd, clineVars
<1>2. CASE EnqueueMessage(c)
  BY <1>2, CreatedType, AppendedType, AwaitType, SpendType
  DEF EnqueueMessage, Issue, Operation, CommandPC, hostButCmd, clineVars
<1>3. CASE Replace(c)
  BY <1>3, CreatedType, AppendedType, WithoutType, AwaitType, SpendType
  DEF Replace, Issue, Operation, CommandPC, hostButCmd, clineVars
<1>4. CASE CleanFinished(c)
  BY <1>4, WithoutType, ForgettingLastType, AwaitType, SpendType
  DEF CleanFinished, Issue, Operation, CommandPC, hostButCmd, clineVars
<1>5. CASE Trim(c)
  BY <1>5, WithoutType, AwaitType, SpendType
  DEF Trim, Issue, Operation, CommandPC, hostButCmd, clineVars
<1>6. CASE RemoveWaiting(c)
  BY <1>6, WithoutType, StateItems, AwaitType, SpendType
  DEF RemoveWaiting, Issue, Operation, CommandPC, hostButCmd, clineVars
<1>7. CASE SkipWaitingTask(c)
  BY <1>7, ExemptingType, AwaitType, SpendType
  DEF SkipWaitingTask, Issue, Operation, CommandPC, hostButCmd, clineVars
<1>8. CASE Pause(c)
  BY <1>8, PausingType, AwaitType, SpendType
  DEF Pause, Issue, Operation, CommandPC, hostButCmd, clineVars
<1>9. CASE Unpause(c)
  BY <1>9, PausingType, AwaitType, SpendType
  DEF Unpause, Issue, Operation, CommandPC, hostButCmd, clineVars
<1>10. CASE Relaunch(c)
  BY <1>10, PausingType, StateItems, AwaitType, SpendType
  DEF Relaunch, Issue, Operation, CommandPC, hostButCmd, clineVars
<1>11. CASE RemoveRunning(c)
  BY <1>11, StateItems, AwaitType, SpendType
  DEF RemoveRunning, Issue, Operation, CommandPC, hostButCmd, clineVars
<1>12. CASE Drain(c)
  BY <1>12, CreatedType, AwaitType, SpendType
  DEF Drain, Issue, Operation, CommandPC, hostButCmd, clineVars
<1> QED
  BY <1>1, <1>2, <1>3, <1>4, <1>5, <1>6, <1>7, <1>8, <1>9, <1>10, <1>11, <1>12
  DEF IssueStep

\* What a command does in the turn it was drained for keeps the types.
LEMMA ResumedType == ASSUME NEW c \in Slots, TypeOK, Resumed(c) PROVE TypeOK'
<1> USE DEF TypeOK
<1>1. CASE OverrideContinues(c)
  BY <1>1, CommandHolds, AppendedType, MovedType, AwaitType, StepType, ReturnsType
  DEF OverrideContinues, At, PersistentQueueState, Operation, CommandPC, clineVars
<1>2. CASE ConfirmContinues(c)
  BY <1>2, StateItems, CompletedType, AwaitType, ReturnsType
  DEF ConfirmContinues, At, Operation, CommandPC, clineVars
<1>3. CASE NextContinues(c)
  BY <1>3, StateItems, AwaitType
  DEF NextContinues, At, Operation, CommandPC, clineVars
<1>4. CASE ClearContinues(c)
  BY <1>4, EmptiedType, StepType
  DEF ClearContinues, At, Operation, CommandPC, clineVars
<1>5. CASE RemoveRunningContinues(c)
  BY <1>5, BoundItems, ExemptingType, LatestLeftType, RemovingType, StepType
  DEF RemoveRunningContinues, At, CommandPC, clineVars
<1>6. CASE StopContinues(c)
  BY <1>6, HostEndsType
  DEF StopContinues, ClineType, Operation, CommandPC, clineVars
<1> QED
  BY <1>1, <1>2, <1>3, <1>4, <1>5, <1>6 DEF Resumed

\* What it does afterwards keeps them too.
LEMMA CommandType == ASSUME NEW c \in Slots, TypeOK, CommandStep(c) PROVE TypeOK'
<1> USE DEF TypeOK
<1>1. CASE CommandSaves(c)
  BY <1>1, NoneExemptType, StepType, ReturnsType
  DEF CommandSaves, Operation, CommandPC, clineVars
<1>2. CASE CommandSavesReset(c)
  BY <1>2, ReturnsType
  DEF CommandSavesReset, Operation, CommandPC, clineVars
<1>3. CASE CommandSaveFails(c)
  BY <1>3, ReturnsType, SpendType
  DEF CommandSaveFails, Operation, CommandPC, clineVars
<1>4. CASE ReadsActivity(c)
  BY <1>4, CommandHolds, StateItems, AwaitType, ReturnsType
  DEF ReadsActivity, Operation, CommandPC, clineVars
<1>5. CASE Continues(c)
  BY <1>5, CommandHolds, ThreadsType, ReturnsType, SpendType
  DEF Continues, ClineType, Operation, CommandPC, clineVars
<1>6. CASE RelaunchCancels(c)
  BY <1>6, CommandHolds, ThreadsType, StepType, ReturnsType, SpendType
  DEF RelaunchCancels, At, ClineType, Operation, CommandPC, clineVars
<1>7. CASE RelaunchSubmits(c)
  BY <1>7, CommandHolds, ThreadsType, BindingType, StepType, ReturnsType,
     SpendType
  DEF RelaunchSubmits, At, ClineType, Operation, CommandPC, clineVars
<1>8. CASE NextInterruptsLatest(c)
  BY <1>8, ExemptingType, PausingType, ThreadsType, AwaitType, ReturnsType,
     SpendType
  DEF NextInterruptsLatest, At, ClineType, Operation, CommandPC, clineVars
<1>9. CASE NextSkips(c)
  BY <1>9, BoundItems, ExemptingType, MovedType, PausingType, ThreadsType,
     StepType, ReturnsType, SpendType
  DEF NextSkips, At, ClineType, PersistentQueueState, Operation, CommandPC,
      clineVars
<1>10. CASE PurgesHistory(c)
  BY <1>10, EmptiedType, StepType, ReturnsType, SpendType
  DEF PurgesHistory, At, Operation, CommandPC, clineVars
<1>11. CASE RemovalChecked(c)
  <2> DEFINE i == cmd[c].item
             ended == i \in mem.bound /\ thread[i] \in {"failed", "completed", "stale"}
  <2>1. CASE ~ended
    BY <1>11, <2>1, ReturnsType DEF RemovalChecked, clineVars
  <2>2. CASE ended /\ i \in Running(mem)
    BY <1>11, <2>2, StepType DEF RemovalChecked, CommandPC, clineVars
  <2>3. CASE ended /\ i \notin Running(mem)
    <3>1. PICK l \in LatestLeft(mem, i) : mem' = Removing(mem, i, l)
      BY <1>11, <2>3 DEF RemovalChecked
    <3>2. mem' \in Data
      BY <3>1, LatestLeftType, RemovingType
    <3> QED
      BY <1>11, <2>3, <3>2, StepType DEF RemovalChecked, CommandPC, clineVars
  <2> QED
    BY <2>1, <2>2, <2>3
<1> QED
  BY <1>1, <1>2, <1>3, <1>4, <1>5, <1>6, <1>7, <1>8, <1>9, <1>10, <1>11 DEF CommandStep

\* And so do the host, Cline and its user.
LEMMA EnvironmentType ==
  ASSUME TypeOK,
         \/ Drained \/ PolicyStops \/ Crash \/ Start
         \/ ClineStops \/ UserResumes \/ UserDeletes
  PROVE TypeOK'
<1> USE DEF TypeOK
<1>1. CASE Drained
  <2>1. \A d \in Command : d.pc = "drain" => [d EXCEPT !.pc = "drained"] \in Command
    BY DEF Command, CommandPC
  <2>2. cmd' \in [Slots -> Command]
    BY <1>1, <2>1 DEF Drained
  <2> QED
    BY <1>1, <2>2 DEF Drained, clineVars
<1>2. CASE PolicyStops
  BY <1>2
  DEF PolicyStops, hostVars, clineVars, ClineType
<1>3. CASE Crash
  BY <1>3, HostEndsType, SpendType
  DEF Crash, hostVars, clineVars, ClineType
<1>4. CASE Start
  BY <1>4, ExemptingType, BoundItems, WorkerTypes
  DEF Start, hostVars, clineVars, ClineType
<1>5. CASE ClineStops
  BY <1>5, ConstantsAssumption
  DEF ClineStops, ThreadStatus, hostVars, clineVars, ClineType
<1>6. CASE UserResumes
  BY <1>6
  DEF UserResumes, ThreadStatus, hostVars, clineVars, ClineType
<1>7. CASE UserDeletes
  BY <1>7
  DEF UserDeletes, ThreadStatus, hostVars, clineVars, ClineType
<1> QED
  BY <1>1, <1>2, <1>3, <1>4, <1>5, <1>6, <1>7

\* Every step keeps the types.
LEMMA NextType == TypeOK /\ [Next]_vars => TypeOK'
<1> SUFFICES ASSUME TypeOK, [Next]_vars PROVE TypeOK'
  OBVIOUS
<1>1. CASE UNCHANGED vars
  BY <1>1 DEF vars, TypeOK
<1>2. CASE Next
  BY <1>2, WorkerType, IssueType, ResumedType, CommandType, EnvironmentType DEF Next
<1> QED
  BY <1>1, <1>2

\* Whatever the interleaving of worker, commands, crashes and users, the queue's
\* memory and file stay well-formed, and wherever the worker or a command goes on
\* with an item it holds one.
THEOREM TypeCorrect == Spec => []TypeOK
  BY InitType, NextType, PTL DEF Spec

------------------------------------------------------------------------------
(* One item at a time.  Only WorkerDispatches marks a record running.  It     *)
(* does so two idle waits after the loop saw that none was, so the invariant  *)
(* must say that none is as long as the worker is there; every other step     *)
(* leaves the running records as they are or takes some away.                 *)

OneRunning ==
  /\ AtMostOneRunning
  /\ worker.pc = "idle" => Running(mem) = {}

\* What all those other steps do.
Shrinks ==
  /\ Running(mem') \subseteq Running(mem)
  /\ file' = file \/ Running(file') \subseteq Running(mem)
  /\ worker'.pc = "idle" => worker.pc = "idle"

\* Flags, bindings and exemptions do not touch the records.
LEMMA FlagsRunning ==
  ASSUME NEW m \in Data
  PROVE /\ \A b \in BOOLEAN : Running(Pausing(m, b)) = Running(m)
        /\ \A i \in Item : Running(Binding(m, i)) = Running(m)
        /\ \A S \in SUBSET Item : Running(Exempting(m, S)) = Running(m)
        /\ Running(NoneExempt(m)) = Running(m)
        /\ Running(ForgettingLast(m)) = Running(m)
  BY DEF Data, Running, InState, Pausing, Binding, Exempting, NoneExempt, ForgettingLast

\* Removing records makes none of them running.
LEMMA WithoutRunning ==
  ASSUME NEW m \in Data, NEW S
  PROVE Running(Without(m, S)) \subseteq Running(m)
  BY DEF Data, Running, InState, Without

\* Nor does the removal of a single record.
LEMMA RemovingRunning ==
  ASSUME NEW m \in Data, NEW i, NEW l
  PROVE Running(Removing(m, i, l)) \subseteq Running(m)
  BY DEF Data, Running, InState, Without, Removing

\* A cleared queue has no running record.
LEMMA EmptiedRunning ==
  ASSUME NEW m \in Data
  PROVE Running(Emptied(m)) = {}
  BY DEF Data, Running, InState, Emptied, EmptyData

\* Neither does a transition to another state.
LEMMA MovedRunning ==
  ASSUME NEW m \in Data, NEW i, NEW next \in PersistentQueueState \ {"running"}
  PROVE Running(Moved(m, i, next)) \subseteq Running(m)
  BY DEF Data, Running, InState, Moved

\* A completion makes none running.
LEMMA CompletedRunning ==
  ASSUME NEW m \in Data, NEW i \in Item
  PROVE Running(Completed(m, i)) \subseteq Running(m)
<1>1. Moved(m, i, "completed") \in Data
  BY MovedType DEF PersistentQueueState
<1>2. Completed(m, i).state = Moved(m, i, "completed").state
  BY <1>1 DEF Completed, Data
<1> QED
  BY <1>2, MovedRunning DEF Running, InState, PersistentQueueState

\* A new record is queued, at either end.
LEMMA AddedRunning ==
  ASSUME NEW m \in Data, NEW i \in Item
  PROVE /\ Running(Appended(m, i)) \subseteq Running(m)
        /\ Running(PutFirst(m, i)) \subseteq Running(m)
  BY DEF Data, Running, InState, Appended, PutFirst

\* Marking a record running adds that record only.
LEMMA DispatchedRunning ==
  ASSUME NEW m \in Data, NEW i
  PROVE Running(NoneExempt(Moved(m, i, "running"))) \subseteq Running(m) \cup {i}
<1>1. Moved(m, i, "running") \in Data
  BY MovedType DEF PersistentQueueState
<1>2. Running(Moved(m, i, "running")) \subseteq Running(m) \cup {i}
  BY DEF Data, Running, InState, Moved
<1> QED
  BY <1>1, <1>2, FlagsRunning

\* Where the worker is after each of its moves.
LEMMA GotoPC ==
  ASSUME worker \in WorkerRecord, NEW pc, Goto(pc)
  PROVE worker'.pc = pc
  BY DEF Goto, WorkerRecord

\* Taking up an item moves the worker to the given place.
LEMMA HoldPC ==
  ASSUME NEW pc, NEW i, Hold(pc, i)
  PROVE worker'.pc = pc
  BY DEF Hold, Worker

\* A worker that returns or has ended is never waiting for an idle workspace.
LEMMA ExitPC ==
  /\ Exit => worker'.pc = "exit"
  /\ worker' = AfterExit(mem) => worker'.pc \in {"none", "start"}
  BY DEF Exit, Hold, AfterExit, Worker, NoWorker

\* A command starts a worker or leaves it where it is.
LEMMA ReturnsPC ==
  ASSUME NEW c \in Slots, NEW kicks, NEW monitors, Returns(c, kicks, monitors)
  PROVE worker'.pc \in {worker.pc, "start"}
  BY DEF Returns, Kicked, Worker

\* The end of an item, by a result or by an error, makes none running.
LEMMA CatchesShrinks ==
  ASSUME TypeOK, CatchesError
  PROVE Running(mem') \subseteq Running(mem) /\ worker'.pc # "idle"
  BY GotoPC, ExitPC, MovedRunning DEF CatchesError, TypeOK, PersistentQueueState

\* A result of the monitor makes none running either.
LEMMA EndsShrinks ==
  ASSUME TypeOK, WorkerAt("monitor"), NEW next \in PersistentQueueState \ {"running"},
         NEW pc, pc # "idle", NEW exempting \in SUBSET Item, Ends(next, pc, exempting)
  PROVE Running(mem') \subseteq Running(mem) /\ worker'.pc # "idle"
<1>1. worker.item \in Item
  BY WorkerHolds DEF WorkerAt, TypeOK
<1>2. CASE MoveThrows(mem, worker.item, next)
  BY <1>2, CatchesShrinks DEF Ends
<1>3. CASE ~MoveThrows(mem, worker.item, next)
  <2> DEFINE m == IF next = "completed" THEN Completed(mem, worker.item)
                                        ELSE Moved(mem, worker.item, next)
  <2>1. m \in Data /\ Running(m) \subseteq Running(mem)
    BY <1>1, MovedType, CompletedType, MovedRunning, CompletedRunning DEF TypeOK
  <2>2. mem' = Exempting(m, exempting) /\ Goto(pc)
    BY <1>3 DEF Ends
  <2> QED
    BY <2>1, <2>2, FlagsRunning, GotoPC DEF TypeOK
<1> QED
  BY <1>2, <1>3

\* The worker, but for its loop and its dispatch.
LEMMA WorkerShrinks ==
  ASSUME TypeOK, WorkerStep, ~WorkerLoop, ~WorkerDispatches
  PROVE Shrinks
<1> USE DEF TypeOK, Shrinks
<1>1. CASE WorkerStart
  BY <1>1, HoldPC
  DEF WorkerStart, WorkerAt, hostVars, clineVars
<1>2. CASE RecoverUnbound
  BY <1>2, GotoPC, ExitPC, MovedRunning
  DEF RecoverUnbound, PersistentQueueState, WorkerAt, hostVars, clineVars
<1>3. CASE RecoverBound
  BY <1>3, GotoPC, ExitPC
  DEF RecoverBound, WorkerAt, hostVars, clineVars
<1>4. CASE RecoverNone
  BY <1>4, GotoPC, ExitPC
  DEF RecoverNone, WorkerAt, hostVars, clineVars
<1>5. CASE WorkerSubmits
  BY <1>5, GotoPC, MovedRunning
  DEF WorkerSubmits, PersistentQueueState, WorkerAt, hostVars, clineVars
<1>6. CASE MonitorAborts
  BY <1>6, ExitPC
  DEF MonitorAborts, WorkerAt, hostVars, clineVars
<1>7. CASE MonitorAdopts
  BY <1>7, GotoPC, WorkerHolds, FlagsRunning
  DEF MonitorAdopts, Watching, WorkerAt, hostVars, clineVars
<1>8. CASE MonitorSeesDone
  BY <1>8, EndsShrinks
  DEF MonitorSeesDone, Watching, PersistentQueueState, WorkerAt, hostVars,
      clineVars
<1>9. CASE MonitorRetains
  BY <1>9, GotoPC
  DEF MonitorRetains, Watching, WorkerAt, hostVars, clineVars
<1>10. CASE RetentionSent
  BY <1>10, GotoPC
  DEF RetentionSent, WorkerAt, hostVars, clineVars
<1>11. CASE RetentionFails
  BY <1>11, CatchesShrinks
  DEF RetentionFails, WorkerAt, hostVars, clineVars
<1>12. CASE MonitorAccepts
  BY <1>12, EndsShrinks, WorkerHolds
  DEF MonitorAccepts, Watching, PersistentQueueState, WorkerAt, hostVars,
      clineVars
<1>13. CASE MonitorFails
  BY <1>13, EndsShrinks
  DEF MonitorFails, Watching, PersistentQueueState, WorkerAt, hostVars, clineVars
<1>14. CASE MonitorMissesThread
  BY <1>14, GotoPC, FlagsRunning
  DEF MonitorMissesThread, Watching, WorkerAt, hostVars, clineVars
<1>15. CASE WorkerCleansUp
  BY <1>15, GotoPC
  DEF WorkerCleansUp, WorkerAt, hostVars, clineVars
<1>16. CASE WorkerSaves
  BY <1>16, GotoPC, FlagsRunning
  DEF WorkerSaves, AfterSave, WorkerAt, hostVars, clineVars
<1>17. CASE WorkerSavesPause
  BY <1>17, ExitPC
  DEF WorkerSavesPause, WorkerAt, hostVars, clineVars
<1>18. CASE WorkerSaveFails
  BY <1>18, CatchesShrinks, GotoPC
  DEF WorkerSaveFails, WorkerAt, hostVars, clineVars
<1>19. CASE WorkerRetries
  BY <1>19, ExitPC
  DEF WorkerRetries, WorkerAt, hostVars, clineVars
<1>20. CASE WorkerEnds
  BY <1>20, ExitPC
  DEF WorkerEnds, WorkerAt, hostVars, clineVars
<1> QED
  BY <1>1, <1>2, <1>3, <1>4, <1>5, <1>6, <1>7, <1>8, <1>9, <1>10, <1>11, <1>12,
     <1>13, <1>14, <1>15, <1>16, <1>17, <1>18, <1>19, <1>20 DEF WorkerStep

\* The issue of every command.
LEMMA IssueShrinks == ASSUME NEW c \in Slots, TypeOK, IssueStep(c) PROVE Shrinks
<1> USE DEF TypeOK, Shrinks
<1>1. CASE Enqueue(c)
  BY <1>1, CreatedType, AddedRunning
  DEF Enqueue, hostButCmd
<1>2. CASE EnqueueMessage(c)
  BY <1>2, CreatedType, AddedRunning
  DEF EnqueueMessage, hostButCmd
<1>3. CASE Replace(c)
  BY <1>3, CreatedType, AddedRunning, WithoutType, WithoutRunning
  DEF Replace, hostButCmd
<1>4. CASE CleanFinished(c)
  BY <1>4, WithoutType, WithoutRunning, FlagsRunning
  DEF CleanFinished, hostButCmd
<1>5. CASE Trim(c)
  BY <1>5, WithoutRunning
  DEF Trim, hostButCmd
<1>6. CASE RemoveWaiting(c)
  BY <1>6, WithoutRunning
  DEF RemoveWaiting, hostButCmd
<1>7. CASE SkipWaitingTask(c)
  BY <1>7, FlagsRunning
  DEF SkipWaitingTask, hostButCmd
<1>8. CASE Pause(c)
  BY <1>8, FlagsRunning
  DEF Pause, hostButCmd
<1>9. CASE Unpause(c)
  BY <1>9, FlagsRunning
  DEF Unpause, hostButCmd
<1>10. CASE Relaunch(c)
  BY <1>10, FlagsRunning
  DEF Relaunch, hostButCmd
<1>11. CASE RemoveRunning(c)
  BY <1>11 DEF RemoveRunning, hostButCmd
<1>12. CASE Drain(c)
  BY <1>12 DEF Drain, hostButCmd
<1> QED
  BY <1>1, <1>2, <1>3, <1>4, <1>5, <1>6, <1>7, <1>8, <1>9, <1>10, <1>11, <1>12
  DEF IssueStep

\* What a command does after the drain, unless it ends the host.
LEMMA ResumedShrinks ==
  ASSUME NEW c \in Slots, TypeOK, Resumed(c), ~StopContinues(c)
  PROVE Shrinks
<1> USE DEF TypeOK, Shrinks
<1>1. CASE OverrideContinues(c)
  BY <1>1, CommandHolds, AddedRunning, MovedType, MovedRunning, ReturnsPC
  DEF OverrideContinues, At, PersistentQueueState
<1>2. CASE ConfirmContinues(c)
  BY <1>2, StateItems, CompletedRunning, ReturnsPC
  DEF ConfirmContinues, At
<1>3. CASE NextContinues(c)
  BY <1>3
  DEF NextContinues
<1>4. CASE ClearContinues(c)
  BY <1>4, EmptiedRunning
  DEF ClearContinues
<1>5. CASE RemoveRunningContinues(c)
  <2> DEFINE m == Exempting(mem, {cmd[c].item} \cap mem.bound)
  <2>1. m \in Data /\ Running(m) = Running(mem)
    BY BoundItems, ExemptingType, FlagsRunning
  <2> QED
    BY <1>5, <2>1, RemovingRunning DEF RemoveRunningContinues
<1> QED
  BY <1>1, <1>2, <1>3, <1>4, <1>5 DEF Resumed

\* What it does later.
LEMMA CommandShrinks == ASSUME NEW c \in Slots, TypeOK, CommandStep(c) PROVE Shrinks
<1> USE DEF TypeOK, Shrinks
<1>1. CASE CommandSaves(c)
  BY <1>1, FlagsRunning, ReturnsPC
  DEF CommandSaves
<1>2. CASE CommandSavesReset(c)
  BY <1>2, ReturnsPC
  DEF CommandSavesReset
<1>3. CASE CommandSaveFails(c)
  BY <1>3, ReturnsPC
  DEF CommandSaveFails
<1>4. CASE ReadsActivity(c)
  BY <1>4, ReturnsPC
  DEF ReadsActivity
<1>5. CASE Continues(c)
  BY <1>5, ReturnsPC
  DEF Continues
<1>6. CASE RelaunchCancels(c)
  BY <1>6, ReturnsPC
  DEF RelaunchCancels
<1>7. CASE RelaunchSubmits(c)
  <2>1. cmd[c].item \in Item
    BY <1>7, CommandHolds DEF RelaunchSubmits, At
  <2>2. mem' = mem \/ mem' = Binding(mem, cmd[c].item)
    BY <1>7 DEF RelaunchSubmits
  <2>3. Running(mem') = Running(mem)
    BY <2>1, <2>2, FlagsRunning
  <2>4. worker'.pc \in {worker.pc, "start"} /\ file' = file
    BY <1>7, ReturnsPC DEF RelaunchSubmits
  <2> QED
    BY <2>3, <2>4
<1>8. CASE NextInterruptsLatest(c)
  <2>1. \A S \in SUBSET Item : Running(Pausing(Exempting(mem, S), FALSE)) = Running(mem)
    BY ExemptingType, FlagsRunning
  <2>2. CASE \E S \in SUBSET Item : mem' = Pausing(Exempting(mem, S), FALSE)
    BY <1>8, <2>1, <2>2, ReturnsPC DEF NextInterruptsLatest
  <2>3. CASE UNCHANGED mem
    BY <1>8, <2>3, ReturnsPC DEF NextInterruptsLatest
  <2>4. (\E S \in SUBSET Item : mem' = Pausing(Exempting(mem, S), FALSE)) \/ UNCHANGED mem
    <3>1. {latest} \cap Item \in SUBSET Item /\ {} \in SUBSET Item
      OBVIOUS
    <3>2. latest # NoItem => {latest} \cap Item = {latest}
      OBVIOUS
    <3> QED
      BY <1>8, <3>1, <3>2 DEF NextInterruptsLatest
  <2> QED
    BY <2>2, <2>3, <2>4
<1>9. CASE NextSkips(c)
  <2> DEFINE i == cmd[c].item
             m == Moved(mem, i, "skipped")
             S == {i} \cap mem.bound
  <2>1. S \subseteq Item /\ m \in Data /\ Running(m) \subseteq Running(mem)
    BY BoundItems, MovedType, MovedRunning DEF PersistentQueueState
  <2>2. Running(Exempting(mem, S)) = Running(mem)
    BY <2>1, FlagsRunning
  <2>3. Running(Pausing(Exempting(m, S), FALSE)) = Running(m)
    BY <2>1, ExemptingType, FlagsRunning
  <2>4. mem' \in {mem, Exempting(mem, S), Pausing(Exempting(m, S), FALSE)}
    BY <1>9 DEF NextSkips
  <2>5. worker'.pc \in {worker.pc, "start"} /\ file' = file
    BY <1>9, ReturnsPC DEF NextSkips
  <2>6. Running(mem') \subseteq Running(mem)
    BY <2>1, <2>2, <2>3, <2>4
  <2> QED
    BY <2>5, <2>6
<1>10. CASE PurgesHistory(c)
  BY <1>10, EmptiedRunning, ReturnsPC
  DEF PurgesHistory
<1>11. CASE RemovalChecked(c)
  BY <1>11, RemovingRunning, ReturnsPC
  DEF RemovalChecked
<1> QED
  BY <1>1, <1>2, <1>3, <1>4, <1>5, <1>6, <1>7, <1>8, <1>9, <1>10, <1>11 DEF CommandStep

\* Every step keeps one running record at most.
LEMMA NextOneRunning == TypeOK /\ OneRunning /\ [Next]_vars => OneRunning'
<1> SUFFICES ASSUME TypeOK, OneRunning, [Next]_vars PROVE OneRunning'
  OBVIOUS
<1>1. ASSUME Shrinks PROVE OneRunning'
  BY <1>1 DEF Shrinks, OneRunning, AtMostOneRunning
<1>2. ASSUME HostEnds PROVE OneRunning'
  BY <1>2 DEF HostEnds, NoWorker, OneRunning, AtMostOneRunning
<1>3. CASE UNCHANGED vars
  BY <1>3, <1>1 DEF vars, Shrinks
<1>4. CASE WorkerLoop
  <2>1. worker'.pc = "idle" => Running(mem) = {}
    BY <1>4, HoldPC, ExitPC DEF WorkerLoop
  <2> QED
    BY <1>4, <2>1 DEF WorkerLoop, OneRunning, AtMostOneRunning
<1>5. CASE WorkerDispatches
  <2>1. CASE mem' = NoneExempt(Moved(mem, worker.item, "running")) /\ Goto("dispatchSave")
    <3>1. Running(mem) = {} /\ worker'.pc = "dispatchSave" /\ file' = file
      BY <1>5, <2>1, GotoPC DEF WorkerDispatches, WorkerAt, OneRunning, TypeOK
    <3>2. Running(mem') \subseteq {worker.item}
      BY <2>1, <3>1, DispatchedRunning DEF TypeOK
    <3> QED
      BY <3>1, <3>2 DEF OneRunning, AtMostOneRunning
  <2>2. CASE UNCHANGED mem /\ (Exit \/ Goto("loop"))
    BY <1>5, <2>2, <1>1, ExitPC, GotoPC DEF WorkerDispatches, Shrinks, TypeOK
  <2> QED
    BY <1>5, <2>1, <2>2 DEF WorkerDispatches
<1>6. CASE WorkerStep /\ ~WorkerLoop /\ ~WorkerDispatches
  BY <1>6, <1>1, WorkerShrinks
<1>7. ASSUME NEW c \in Slots, Resumed(c) \/ IssueStep(c) \/ CommandStep(c) PROVE OneRunning'
  <2>1. CASE StopContinues(c)
    BY <2>1, <1>2 DEF StopContinues
  <2>2. CASE ~StopContinues(c)
    BY <2>2, <1>7, <1>1, ResumedShrinks, IssueShrinks, CommandShrinks
  <2> QED
    BY <2>1, <2>2
<1>8. CASE Crash
  BY <1>8, <1>2 DEF Crash
<1>9. CASE Start
  <2>1. Running(mem') = Running(file) /\ file' = mem' /\ worker'.pc = "start"
    BY <1>9, ExemptingType, BoundItems, FlagsRunning DEF Start, Worker, TypeOK
  <2> QED
    BY <2>1 DEF OneRunning, AtMostOneRunning
<1>10. CASE Drained \/ PolicyStops \/ ClineStops \/ UserResumes \/ UserDeletes
  BY <1>10, <1>1
  DEF Drained, PolicyStops, ClineStops, UserResumes, UserDeletes, Shrinks
<1> QED
  BY <1>3, <1>4, <1>5, <1>6, <1>7, <1>8, <1>9, <1>10 DEF Next

\* The invariant itself, for the proofs that build on it.
LEMMA OneRunningAlways == Spec => []OneRunning
<1>1. Init => OneRunning
  BY DEF Init, EmptyData, NoWorker, OneRunning, AtMostOneRunning, Running, InState
<1> QED
  BY <1>1, NextOneRunning, TypeCorrect, PTL DEF Spec

\* Whatever commands, crashes and recoveries interleave with the worker, neither
\* the queue in memory nor the file a restart loads ever has two running records:
\* a workspace is never asked to work on two items at once.
THEOREM OneAtATime == Spec => []AtMostOneRunning
<1>1. OneRunning => AtMostOneRunning
  BY DEF OneRunning
<1> QED
  BY <1>1, OneRunningAlways, PTL
=============================================================================
