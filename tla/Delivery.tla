------------------------------ MODULE Delivery ------------------------------
(***************************************************************************)
(* How messages reach Cline's threads: sendToOwnedSession and              *)
(* deliverTaskBoundMessage of src/extension/task_queue.ts over the adapter *)
(* of src/integrations/cline/legacy_4_1_6.ts, and the policy monitor       *)
(* monitorNewTaskHandoffs, which answers Cline's new_task handoffs.        *)
(*                                                                         *)
(* Cline has one selected thread, takes a message for whatever thread is   *)
(* selected when the call takes effect, may lose a message it accepted,    *)
(* and may carry out a call long after its caller gave up.                 *)
(***************************************************************************)
EXTENDS Naturals, Sequences, SequencesExt, FiniteSets

CONSTANTS
  Threads,      \* the workspace's threads, 1..n, the newest last
  Owned,        \* the ones cline-console started
  WorkerThread, \* the thread of the running record
  Attempts,     \* maximumAttempts, 3 in the code
  RepeatLimit,  \* handoffs of one text that trip the breaker, 3 in the code
  MaxMessages,  \* bound: messages of the queue worker
  MaxHandoffs,  \* bound: new_task asks of Cline
  MaxDisturbances \* bound: threads the user opens, lost or slow messages, calls
                  \* that time out, aborts, reloads, ends of a queue's lifecycle

ASSUME DeliveryAssumption ==
  /\ IsFiniteSet(Threads) /\ Threads = 1..Cardinality(Threads)
  /\ Owned \subseteq Threads /\ WorkerThread \in Owned
  /\ Attempts \in Nat \ {0} /\ RepeatLimit \in Nat \ {0}
  /\ MaxMessages \in Nat /\ MaxHandoffs \in Nat
  /\ MaxDisturbances \in Nat

VARIABLES
  thread,     \* the transcript of each thread
  selected,   \* the thread Cline shows
  line,       \* deliveryChain: the deliveries that wait, the first one runs
  call,       \* where the first one is
  monitor,    \* the policy monitor: its place and the handoff it deals with
  handled,    \* handledNewTaskMarkers
  compacted,  \* compactedNewTaskMarkers; one text per thread, so the key is the thread
  late,       \* calls given up that Cline still carries out
  used        \* how much of each bound is spent

vars == <<thread, selected, line, call, monitor, handled, compacted, late, used>>

Texts == {"task", "handoff", "correct", "compact", "continue"}
Entry(text, for) == [text |-> text, for |-> for]
Job(by, to, text) == [by |-> by, to |-> to, text |-> text]
NoCall == [pc |-> "none", attempt |-> 0, prior |-> 0]
NoHandoff == <<0, 0>>
Watching(pc, marker) == [pc |-> pc, marker |-> marker]
Spend(what) == used' = [used EXCEPT ![what] = @ + 1]
Budget(what, max) == used[what] < max /\ Spend(what)
Calm == used.select + used.fault + used.reset < MaxDisturbances
Disturb(what) == Calm /\ Spend(what)

CountOf(t, text) == Cardinality({i \in DOMAIN thread[t] : thread[t][i].text = text})

Init ==
  /\ thread = [t \in Threads |-> <<Entry("task", t)>>]
  /\ selected \in Threads
  /\ line = <<>> /\ call = NoCall
  /\ monitor = Watching("poll", NoHandoff)
  /\ handled = {} /\ compacted = {} /\ late = <<>>
  /\ used = [message |-> 0, handoff |-> 0, select |-> 0, fault |-> 0, late |-> 0,
             reset |-> 0]

------------------------------------------------------------------------------
(* Cline takes effect of a call.                                            *)

Posted(t, text, for) == [thread EXCEPT ![t] = Append(@, Entry(text, for))]

LandsLate ==
  /\ late # <<>> /\ late' = Tail(late)
  /\ LET c == Head(late)
     IN IF c.call = "select"
        THEN selected' = c.to /\ UNCHANGED thread
        ELSE thread' = Posted(selected, c.text, c.to) /\ UNCHANGED selected
  /\ UNCHANGED <<line, call, monitor, handled, compacted, used>>

------------------------------------------------------------------------------
(* One delivery at a time: sendToOwnedSession.                              *)

Enqueue(job) == line' = Append(line, job)

\* The sender hears how its delivery ended.
Delivered ==
  /\ line' = Tail(line) /\ call' = NoCall
  /\ monitor' = IF Head(line).by = "worker" THEN monitor
                ELSE [monitor EXCEPT !.pc = IF @ = "compacting" THEN "settle" ELSE "ack"]

\* Mutant: the error ends the monitor's loop.
UndeliveredUncaught ==
  /\ line' = Tail(line) /\ call' = NoCall
  /\ monitor' = IF Head(line).by = "worker" THEN monitor ELSE Watching("dead", NoHandoff)

\* The error reaches the monitor's catch, and it polls again.
Undelivered ==
  /\ line' = Tail(line) /\ call' = NoCall
  /\ monitor' = IF Head(line).by = "worker" THEN monitor ELSE Watching("poll", NoHandoff)

\* The call of the moment is given up; Cline may carry it out all the same.
LeavesBehind(lands) ==
  /\ lands => call.pc \in {"select", "send"}
  /\ Calm
  /\ used' = [used EXCEPT !.fault = @ + 1, !.late = @ + (IF lands THEN 1 ELSE 0)]
  /\ late' = IF lands
             THEN Append(late, [call |-> call.pc, to |-> Head(line).to, text |-> Head(line).text])
             ELSE late

DeliveryStarts ==
  /\ line # <<>> /\ call = NoCall
  /\ LET job == Head(line)
     IN call' = [pc |-> "select", attempt |-> 1, prior |-> CountOf(job.to, job.text)]
  /\ UNCHANGED <<thread, selected, line, monitor, handled, compacted, late, used>>

\* Mutant: the message is sent without selecting its thread.
SelectsNothing ==
  /\ call.pc = "select"
  /\ call' = [call EXCEPT !.pc = "send"]
  /\ UNCHANGED <<thread, selected, line, monitor, handled, compacted, late, used>>

SelectsThread ==
  /\ call.pc = "select"
  /\ selected' = Head(line).to
  /\ call' = [call EXCEPT !.pc = "send"]
  /\ UNCHANGED <<thread, line, monitor, handled, compacted, late, used>>

SendsMessage ==
  /\ call.pc = "send"
  /\ thread' = Posted(selected, Head(line).text, Head(line).to)
  /\ call' = [call EXCEPT !.pc = "confirm"]
  /\ UNCHANGED <<selected, line, monitor, handled, compacted, late, used>>

\* The call resolves; Cline drops the message or writes it into the transcript
\* after the five seconds the sender looks at it.
MissesMessage ==
  /\ call.pc = "send"
  /\ \E lands \in BOOLEAN : LeavesBehind(lands)
  /\ call' = [call EXCEPT !.pc = "confirm"]
  /\ UNCHANGED <<thread, selected, line, monitor, handled, compacted>>

\* withAbortableTimeout gives the call up; it is not undone.
CallTimesOut ==
  /\ call.pc \in {"select", "send"}
  /\ \E lands \in BOOLEAN : LeavesBehind(lands)
  /\ Undelivered
  /\ UNCHANGED <<thread, selected, handled, compacted>>

Seen == CountOf(Head(line).to, Head(line).text) > call.prior

ConfirmsDelivery ==
  /\ call.pc = "confirm" /\ Seen
  /\ Delivered
  /\ UNCHANGED <<thread, selected, handled, compacted, late, used>>

\* Mutant: the message is sent again without looking for it.
RetriesBlindly ==
  /\ call.pc = "confirm"
  /\ call' = [call EXCEPT !.pc = "select"]
  /\ UNCHANGED <<thread, selected, line, monitor, handled, compacted, late, used>>

Retries ==
  /\ call.pc = "confirm" /\ ~Seen /\ call.attempt < Attempts
  /\ call' = [call EXCEPT !.pc = "select", !.attempt = @ + 1]
  /\ UNCHANGED <<thread, selected, line, monitor, handled, compacted, late, used>>

GivesUp ==
  /\ call.pc = "confirm" /\ ~Seen /\ call.attempt = Attempts
  /\ Undelivered
  /\ UNCHANGED <<thread, selected, handled, compacted, late, used>>

DeliverySteps ==
  \/ DeliveryStarts \/ SelectsThread \/ SendsMessage
  \/ ConfirmsDelivery \/ Retries \/ GivesUp

\* The worker sends its next message when its last one has ended.
WorkerSends ==
  /\ ~\E i \in DOMAIN line : line[i].by = "worker"
  /\ Budget("message", MaxMessages)
  /\ Enqueue(Job("worker", WorkerThread, "correct"))
  /\ UNCHANGED <<thread, selected, call, monitor, handled, compacted, late>>

------------------------------------------------------------------------------
(* monitorNewTaskHandoffs.                                                  *)

AcknowledgedAfter(t, i) == \E j \in (i + 1)..Len(thread[t]) : thread[t][j].text = "continue"

\* The last handoff of a thread, as a marker, when no answer follows it.
Requests ==
  {m \in UNION {{t} \X DOMAIN thread[t] : t \in Threads} :
     /\ thread[m[1]][m[2]].text = "handoff"
     /\ \A j \in (m[2] + 1)..Len(thread[m[1]]) : thread[m[1]][j].text # "handoff"
     /\ ~AcknowledgedAfter(m[1], m[2])}

\* getLegacyNewTaskHandoff: the request of the newest thread that has one.
Asking == {m \in Requests : \A n \in Requests : n[1] <= m[1]}

\* newTaskHandoffPolicy
Policy(t) ==
  IF t \in compacted THEN "suppress"
  ELSE IF CountOf(t, "handoff") >= RepeatLimit THEN "compact" ELSE "continue"

Due == {m \in Asking : m[1] \in Owned /\ m \notin handled}

Suppresses(m) ==
  /\ Policy(m[1]) = "suppress"
  /\ handled' = handled \cup {m}
  /\ UNCHANGED <<line, monitor, compacted>>

\* Mutant: the handoff is marked before it is answered.
AnswersMarked(m) ==
  /\ Policy(m[1]) = "continue"
  /\ handled' = handled \cup {m}
  /\ monitor' = Watching("answering", m)
  /\ Enqueue(Job("monitor", m[1], "continue"))
  /\ UNCHANGED compacted

Answers(m) ==
  /\ Policy(m[1]) = "continue"
  /\ monitor' = Watching("answering", m)
  /\ Enqueue(Job("monitor", m[1], "continue"))
  /\ UNCHANGED <<handled, compacted>>

\* Mutant: the breaker is not persisted.
CompactsUnmarked(m) ==
  /\ Policy(m[1]) = "compact"
  /\ monitor' = Watching("compacting", m)
  /\ Enqueue(Job("monitor", m[1], "compact"))
  /\ UNCHANGED <<handled, compacted>>

Compacts(m) ==
  /\ Policy(m[1]) = "compact"
  /\ compacted' = compacted \cup {m[1]}
  /\ monitor' = Watching("compacting", m)
  /\ Enqueue(Job("monitor", m[1], "compact"))
  /\ UNCHANGED handled

MonitorPolls ==
  /\ monitor.pc = "poll"
  /\ \E m \in Due : Suppresses(m) \/ Answers(m) \/ Compacts(m)
  /\ UNCHANGED <<thread, selected, call, late, used>>

MonitorSettles ==
  /\ monitor.pc = "settle"
  /\ monitor' = [monitor EXCEPT !.pc = "answering"]
  /\ Enqueue(Job("monitor", monitor.marker[1], "continue"))
  /\ UNCHANGED <<thread, selected, call, handled, compacted, late, used>>

\* waitForLegacyNewTaskHandoffAcknowledgement, then the marker is saved.
MonitorMarksHandled ==
  /\ monitor.pc = "ack"
  /\ handled' = IF AcknowledgedAfter(monitor.marker[1], monitor.marker[2])
                THEN handled \cup {monitor.marker} ELSE handled
  /\ monitor' = Watching("poll", NoHandoff)
  /\ UNCHANGED <<thread, selected, line, call, compacted, late, used>>

MonitorSteps == MonitorPolls \/ MonitorSettles \/ MonitorMarksHandled

------------------------------------------------------------------------------
(* What happens to them.                                                    *)

\* A queue command aborts the worker and the monitor; every delivery in line
\* rejects and both are started again.
QueueAborts ==
  /\ line # <<>> \/ monitor.pc # "poll"
  /\ \E lands \in BOOLEAN : LeavesBehind(lands)
  /\ line' = <<>> /\ call' = NoCall /\ monitor' = Watching("poll", NoHandoff)
  /\ UNCHANGED <<thread, selected, handled, compacted>>

\* The window is reloaded: Cline's pending calls go with the host.
HostReloads ==
  /\ Disturb("fault")
  /\ line' = <<>> /\ call' = NoCall /\ monitor' = Watching("poll", NoHandoff)
  /\ late' = <<>> /\ selected' \in Threads
  /\ UNCHANGED <<thread, handled, compacted>>

\* resetLifecycleCounters: the last record ended, or the queue was cleared.
LifecycleEnds ==
  /\ ~\E i \in DOMAIN line : line[i].by = "worker"
  /\ Disturb("reset")
  /\ handled' = {} /\ compacted' = {}
  /\ UNCHANGED <<thread, selected, line, call, monitor, late>>

\* Cline asks to go on in a new task, for the same text each time.
ClineAsksNewTask ==
  /\ Last(thread[selected]).text # "handoff"
  /\ Budget("handoff", MaxHandoffs)
  /\ thread' = Posted(selected, "handoff", selected)
  /\ UNCHANGED <<selected, line, call, monitor, handled, compacted, late>>

UserOpensThread ==
  /\ \E t \in Threads \ {selected} : selected' = t
  /\ Disturb("select")
  /\ UNCHANGED <<thread, line, call, monitor, handled, compacted, late>>

Next ==
  \/ DeliverySteps \/ MonitorSteps \/ WorkerSends
  \/ MissesMessage \/ CallTimesOut \/ LandsLate
  \/ QueueAborts \/ HostReloads \/ LifecycleEnds
  \/ ClineAsksNewTask \/ UserOpensThread

Spec == Init /\ [][Next]_vars

\* The loops go on; nothing is promised of Cline's late calls or of the user.
FairSpec == Spec /\ WF_vars(DeliverySteps) /\ WF_vars(MonitorSteps)

------------------------------------------------------------------------------
Markers == Threads \X Nat
Entries == [text : Texts, for : Threads]

\* The places of the deliveries, of the monitor and of the file fit together:
\* the monitor waits for a delivery exactly while one of its own is in line.
TypeOK ==
  /\ thread \in [Threads -> Seq(Entries)] /\ selected \in Threads
  /\ line \in Seq([by : {"worker", "monitor"}, to : Owned, text : Texts])
  /\ call \in [pc : {"none", "select", "send", "confirm"}, attempt : 0..Attempts, prior : Nat]
  /\ call # NoCall => line # <<>>
  /\ monitor.pc \in {"poll", "answering", "compacting", "settle", "ack"}
  /\ monitor.pc \in {"answering", "compacting"} <=> \E i \in DOMAIN line : line[i].by = "monitor"
  /\ handled \subseteq Markers /\ compacted \subseteq Owned
  /\ late \in Seq([call : {"select", "send"}, to : Owned, text : Texts])

Strays == {e \in UNION {{<<t, i>> : i \in DOMAIN thread[t]} : t \in Threads} :
             thread[e[1]][e[2]].for # e[1]}

\* A message written for one thread lands in another only through somebody
\* who moved Cline's selection between the select and the send, and each such
\* move costs at most one message: the user opening a thread, or a call that
\* was given up and carried out later (task_queue.ts:1773-1783, 1826).
StraysAccounted == Cardinality(Strays) <= used.select + used.late

\* Three attempts deliver one message: a text is found twice in its thread only
\* when an attempt counted as lost was carried out after all (task_queue.ts:1333).
CopiesAccounted == CountOf(WorkerThread, "correct") <= used.message + used.late

\* The breaker is saved before the compaction is sent: within one lifecycle the
\* monitor compacts a thread once, whatever fails after; what else stands there
\* was meant for another thread (task_queue.ts:798-801).
CompactsOnce ==
  \A t \in Threads :
    Cardinality({i \in DOMAIN thread[t] : thread[t][i] = Entry("compact", t)})
      <= 1 + used.reset + used.late

Answered(m) == AcknowledgedAfter(m[1], m[2])

\* A handoff is marked handled only when the answer stands after it in the
\* thread that asked, or the breaker of that thread has tripped, however
\* messages were lost, misdirected or late (task_queue.ts:806-810).
HandledOnlyAnswered == \A m \in handled : Answered(m) \/ m[1] \in compacted

\* The monitor comes to rest: every handoff of an owned thread that is the
\* newest to ask is in the end answered or suppressed (task_queue.ts:779-819).
HandoffsSettle == <>[](Due = {} /\ monitor.pc = "poll")

=============================================================================
