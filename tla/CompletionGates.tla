--------------------------- MODULE CompletionGates ---------------------------
(***************************************************************************)
(* From a completion claim to a finished record: the completion monitor    *)
(* (src/integrations/cline/completion_monitor.ts) and the gates that       *)
(* process() of src/extension/task_queue.ts puts behind it, for one task   *)
(* that runs in a Cline thread, with the recovery of that thread after the *)
(* extension host restarts.                                                *)
(*                                                                         *)
(* The monitor polls the transcript; one poll and the synchronous code     *)
(* after it up to the save of the markers is one step, each message sent   *)
(* and each later save is another.  Between two steps of the worker Cline  *)
(* and the user go on, and the host may die.                               *)
(***************************************************************************)
EXTENDS Transcript, Integers, Sequences

CONSTANTS
  MaxUnchangedRounds,  \* taskScanner.maxUnchangedCompletionCorrectionRounds
  MaxStuckRounds,      \* taskScanner.maxStuckLoopRounds
  MaxVerifications,    \* taskScanner.maxCompletionVerificationRounds
  Reflective,          \* taskScanner.reflective
  RestartOnYolo,       \* taskScanner.restartOnYoloFailure
  UserEntries,         \* what the user does in the thread
  Works,               \* what Cline does on its way
  Stops,               \* the ways a thread stops that spend a trouble
  MaxWork,             \* bound: edits, test runs
  MaxTroubles,         \* bound: stops other than a clean report of a clean run
  MaxUserActs,         \* bound: acts of the user
  MaxDisturbances      \* bound: host restarts, aborts, failing calls, lost requests

ASSUME GatesAssumption ==
  /\ MaxUnchangedRounds \in Nat \ {0} /\ MaxStuckRounds \in Nat \ {0}
  /\ MaxVerifications \in Nat \ {0}
  /\ Reflective \in BOOLEAN /\ RestartOnYolo \in BOOLEAN
  /\ UserEntries \subseteq {"nudge", "DONE", "resume", "reopened"}
  /\ Works \subseteq Edits \cup {"timeout"}
  /\ Stops \subseteq Claims \cup Failures \cup {"overflow"}
  /\ MaxWork \in Nat /\ MaxTroubles \in Nat /\ MaxUserActs \in Nat
  /\ MaxDisturbances \in Nat

VARIABLES
  log,         \* the entries of the task's threads
  live,        \* Cline is executing the newest thread
  item,        \* the queue record; a step that changes it saves it
  steps,       \* what the worker still does before it polls again
  seen,        \* the length of the transcript at the worker's last look
  recovering,  \* restartRecoveryPending
  request,     \* the restart request file: the failure it is for, 0 when absent
  used         \* how much of each bound is spent

vars == <<log, live, item, steps, seen, recovering, request, used>>

------------------------------------------------------------------------------
(* The record and the worker.                                               *)

NoPending == [kind |-> "none", marker |-> 0]
Pending(kind, marker) == [kind |-> kind, marker |-> marker]

\* claims is -1 while incompleteCompletionClaims is undefined.
NewItem ==
  [state |-> "running", error |-> "none", pending |-> NoPending,
   marker |-> 0, recovery |-> 0, failure |-> 0, timeout |-> 0, scope |-> 0,
   claims |-> -1, unchanged |-> 0, stuck |-> 0, handled |-> FALSE,
   verified |-> FALSE, rounds |-> 0, reflected |-> FALSE,
   yolo |-> 0, fresh |-> 0]

Ended == <<"ended">>
Recover == <<"restart", "observe", "pending", "recovered">>
Fresh == <<"newTask", "diagnose", "noteFresh">>
CompactAndContinue == <<"compact", "settle", "deliver">>

Monitoring == steps = <<>> /\ item.state = "running"
At(token) == steps # <<>> /\ Head(steps) = token
Spend(what) == used' = [used EXCEPT ![what] = @ + 1]

Init ==
  /\ log = <<"task">> /\ live = TRUE
  /\ item = NewItem /\ steps = <<>> /\ seen = 0
  /\ recovering = FALSE /\ request = 0
  /\ used = [work |-> 0, trouble |-> 0, user |-> 0, disturbance |-> 0]

------------------------------------------------------------------------------
(* One poll of the monitor: waitForLegacyTaskCompletion over                *)
(* findMatchingUiTask.  What it reports excludes what comes after it.       *)

New(marker, handled) == marker # 0 /\ marker # handled

Observed ==
  LET timeout == ClaimsCompletion(log) /\ UnresolvedTestTimeout(log) # 0
  IN IF UserConfirmedDone(log) # 0 THEN "user_confirmed_done"
     ELSE IF New(LatestContextOverflow(log), item.recovery) THEN "context_overflow"
     ELSE IF New(UnresolvedTaskFailure(log), item.failure) THEN "task_failed"
     ELSE IF timeout /\ CompletionMarker(log) # item.timeout THEN "test_timeout"
     ELSE IF New(ScopeViolation(log), item.scope) THEN "scope_violation"
     ELSE IF ~timeout /\ ClaimsCompletion(log) /\ CompletionMarker(log) # item.marker
     THEN "completed" ELSE "none"

\* A result that is neither a failure nor an overflow drops the continuation
\* that was still to be delivered.
Superseded ==
  IF item.pending = NoPending THEN item
  ELSE [item EXCEPT !.pending = NoPending, !.error = "none"]

Finishes(it, state) ==
  /\ item' = [it EXCEPT !.state = state]
  /\ steps' = Ended

GateDone ==
  /\ Finishes([Superseded EXCEPT !.error = "none"], "completed")
  /\ UNCHANGED <<log, live, seen, recovering, request, used>>

GateOverflow ==
  /\ LET marker == LatestContextOverflow(log)
     IN item' = [item EXCEPT !.recovery = marker, !.pending = Pending("overflow", marker)]
  /\ steps' = CompactAndContinue
  /\ UNCHANGED <<log, live, seen, recovering, request, used>>

GateFailure ==
  /\ LET marker == UnresolvedTaskFailure(log)
     IN item' = [item EXCEPT !.failure = marker, !.error = log[marker],
                             !.pending = Pending("failure", marker)]
  /\ steps' = <<"escalate">>
  /\ UNCHANGED <<log, live, seen, recovering, request, used>>

GateTimeout ==
  /\ item' = [Superseded EXCEPT !.timeout = CompletionMarker(log), !.error = "timeout"]
  /\ steps' = <<"timeoutFix">>
  /\ UNCHANGED <<log, live, seen, recovering, request, used>>

GateScope ==
  /\ item' = [Superseded EXCEPT !.scope = ScopeViolation(log)]
  /\ steps' = <<"scope">>
  /\ UNCHANGED <<log, live, seen, recovering, request, used>>

------------------------------------------------------------------------------
(* The gates of a stable completion, in the order of the code.              *)

Activity == ImplementationActivity(log, item.marker)

\* Mutant: the task progress of a report is not audited.
DeclaredIncomplete == RequiresContinuation(Report(log)) /\ ~ChecklistOnly(Report(log))

ReportIncomplete == RequiresContinuation(Report(log))

\* completionCorrectionState: the first two claims never count as unchanged.
Audited ==
  LET claims == 1 + (IF item.claims # -1 THEN item.claims
                     ELSE IF item.marker # 0 THEN 1 ELSE 0)
  IN [Superseded EXCEPT
        !.claims = claims,
        !.stuck = IF Activity THEN 0 ELSE @ + 1,
        !.marker = CompletionMarker(log),
        !.unchanged = IF claims <= 2 THEN @ ELSE IF Activity THEN 0 ELSE @ + 1]

\* Mutant: the limit reads the wrong counter.
StuckLimitReached(it) == it.stuck >= MaxUnchangedRounds

LimitReached(it) == it.claims > 2 /\ it.unchanged >= MaxUnchangedRounds
StuckLoop(it) == ~ChecklistOnly(Report(log)) /\ it.stuck = MaxStuckRounds

GateAuditFails ==
  /\ ReportIncomplete
  /\ LimitReached(Audited)
  /\ Finishes([Audited EXCEPT !.error = "limit"], "failed")
  /\ UNCHANGED <<log, live, seen, recovering, request, used>>

GateAuditCorrects ==
  /\ ReportIncomplete
  /\ ~LimitReached(Audited)
  /\ item' = Audited
  /\ steps' = IF StuckLoop(Audited) THEN <<"stuck">> ELSE <<"correct">>
  /\ UNCHANGED <<log, live, seen, recovering, request, used>>

\* The reset is in memory; the next save of this step's gate writes it.
Acceptable == [Superseded EXCEPT !.stuck = IF Activity THEN 0 ELSE @]

\* The code keeps the normalized text of every recommendation it sent back and lets
\* only new texts count.  All reports that recommend are taken to recommend the same
\* here, so one flag says whether the texts were sent.
Unhandled == Recommends(Report(log)) /\ ~item.handled

GateRecommend ==
  /\ ~ReportIncomplete /\ Unhandled
  /\ item' = [Acceptable EXCEPT !.handled = TRUE, !.marker = CompletionMarker(log)]
  /\ steps' = <<"recommend">>
  /\ UNCHANGED <<log, live, seen, recovering, request, used>>

\* Mutant: the number of rounds is not limited.
UnboundedVerification ==
  \/ ~item.verified
  \/ ~Confident(Report(log)) /\ Activity

\* completionVerificationDecision # "accept"
VerificationDue ==
  \/ ~item.verified
  \/ /\ ~Confident(Report(log))
     /\ Activity
     /\ item.rounds < MaxVerifications

\* The message first, its marker in the step that follows it.
GateVerify ==
  /\ ~ReportIncomplete /\ ~Unhandled /\ VerificationDue
  /\ item' = Superseded
  /\ seen' = CompletionMarker(log)
  /\ steps' = <<"verify", "noteVerify">>
  /\ UNCHANGED <<log, live, recovering, request, used>>

Reflection == Reflective /\ ~item.reflected

GateReflect ==
  /\ ~ReportIncomplete /\ ~Unhandled /\ ~VerificationDue
  /\ Reflection
  /\ item' = Superseded
  /\ seen' = CompletionMarker(log)
  /\ steps' = <<"reflect", "noteReflect">>
  /\ UNCHANGED <<log, live, recovering, request, used>>

GateFinish ==
  /\ ~ReportIncomplete /\ ~Unhandled /\ ~VerificationDue
  /\ ~Reflection
  /\ Finishes(Acceptable, "completed")
  /\ UNCHANGED <<log, live, seen, recovering, request, used>>

\* One poll, and the gate its result leads to.
Gates ==
  /\ Monitoring
  /\ LET status == Observed
     IN \/ status = "user_confirmed_done" /\ GateDone
        \/ status = "context_overflow" /\ GateOverflow
        \/ status = "task_failed" /\ GateFailure
        \/ status = "test_timeout" /\ GateTimeout
        \/ status = "scope_violation" /\ GateScope
        \/ status = "completed" /\ GateAuditFails
        \/ status = "completed" /\ GateAuditCorrects
        \/ status = "completed" /\ GateRecommend
        \/ status = "completed" /\ GateVerify
        \/ status = "completed" /\ GateReflect
        \/ status = "completed" /\ GateFinish

------------------------------------------------------------------------------
(* The steps that follow a poll, and those of process() after a restart.    *)

\* Mutant: the same failure asks for a restart again.
YoloRestartAgain ==
  /\ RestartOnYolo
  /\ item.pending.kind = "failure" /\ item.error = "yolo"

\* requestYoloRestartIfRequired
YoloRestartRequired ==
  /\ RestartOnYolo
  /\ item.pending.kind = "failure" /\ item.error = "yolo"
  /\ item.pending.marker # item.yolo

\* Mutant: every failure that is pending after a restart gets a fresh thread.
FreshForAnyFailure ==
  (item.yolo # 0 /\ item.yolo # item.fresh) \/ item.pending.kind = "failure"

\* yoloFreshRecoveryRequired
FreshRecoveryRequired == item.yolo # 0 /\ item.yolo # item.fresh

\* A restart was made for this very failure, which still is to be recovered.
RepeatedYoloFailure ==
  item.pending.kind = "failure" /\ item.pending.marker = item.yolo /\ item.error = "yolo"

Continuation == <<IF RepeatedYoloFailure THEN "diagnose" ELSE "continue", "noteDelivered">>

Escalate ==
  /\ At("escalate")
  /\ IF YoloRestartRequired
     THEN /\ item' = [item EXCEPT !.yolo = item.pending.marker]
          /\ steps' = <<"request">>
     ELSE /\ steps' = CompactAndContinue
          /\ UNCHANGED item
  /\ UNCHANGED <<log, live, seen, recovering, request, used>>

\* process() returns after the request; kick() starts it again.
Restarted == IF recovering THEN Recover ELSE <<>>

WriteRestartRequest ==
  /\ At("request")
  /\ request' = item.pending.marker
  /\ steps' = Restarted
  /\ UNCHANGED <<log, live, item, seen, recovering, used>>

Send ==
  /\ steps # <<>> /\ Head(steps) \in Requests
  /\ log' = Append(log, Head(steps)) /\ live' = TRUE
  /\ steps' = Tail(steps)
  /\ UNCHANGED <<item, seen, recovering, request, used>>

\* waitForLegacyMessageCompletion
Settle ==
  /\ At("settle") /\ ~live
  /\ steps' = Tail(steps)
  /\ UNCHANGED <<log, live, item, seen, recovering, request, used>>

Deliver ==
  /\ At("deliver")
  /\ steps' = Continuation
  /\ UNCHANGED <<log, live, item, seen, recovering, request, used>>

NoteDelivered ==
  /\ At("noteDelivered")
  /\ item' = [item EXCEPT !.pending = NoPending, !.error = "none"]
  /\ steps' = Tail(steps)
  /\ UNCHANGED <<log, live, seen, recovering, request, used>>

\* The counter of stuck rounds as the gate that sent the message reset it.
StuckAtClaim ==
  IF ImplementationActivity(SubSeq(log, 1, seen), item.marker) THEN 0 ELSE item.stuck

NoteVerify ==
  /\ At("noteVerify")
  /\ item' = [item EXCEPT !.verified = TRUE, !.rounds = @ + 1,
                          !.marker = seen, !.stuck = StuckAtClaim]
  /\ steps' = Tail(steps)
  /\ UNCHANGED <<log, live, seen, recovering, request, used>>

NoteReflect ==
  /\ At("noteReflect")
  /\ item' = [item EXCEPT !.reflected = TRUE, !.marker = seen, !.stuck = StuckAtClaim]
  /\ steps' = Tail(steps)
  /\ UNCHANGED <<log, live, seen, recovering, request, used>>

\* restartYoloTaskFresh, in three steps: the thread, the message, the reset.
NewTask ==
  /\ At("newTask")
  /\ log' = Append(log, "task") /\ live' = TRUE
  /\ steps' = Tail(steps)
  /\ UNCHANGED <<item, seen, recovering, request, used>>

\* Mutant: the fresh thread inherits the verification of the old one.
NoteFreshVerified ==
  /\ At("noteFresh")
  /\ item' = [item EXCEPT
               !.pending = NoPending, !.error = "none", !.fresh = item.yolo,
               !.marker = 0, !.rounds = 0, !.reflected = FALSE,
               !.claims = 0, !.unchanged = 0, !.stuck = 0]
  /\ steps' = Tail(steps)
  /\ UNCHANGED <<log, live, seen, recovering, request, used>>

NoteFresh ==
  /\ At("noteFresh")
  /\ item' = [item EXCEPT
               !.pending = NoPending, !.error = "none", !.fresh = item.yolo,
               !.marker = 0, !.verified = FALSE, !.rounds = 0, !.reflected = FALSE,
               !.claims = 0, !.unchanged = 0, !.stuck = 0]
  /\ steps' = Tail(steps)
  /\ UNCHANGED <<log, live, seen, recovering, request, used>>

RecoverRestart ==
  /\ At("restart")
  /\ IF YoloRestartRequired
     THEN /\ item' = [item EXCEPT !.yolo = item.pending.marker]
          /\ steps' = <<"request">>
     ELSE /\ steps' = (IF FreshRecoveryRequired THEN Fresh ELSE <<>>) \o Tail(steps)
          /\ UNCHANGED item
  /\ UNCHANGED <<log, live, seen, recovering, request, used>>

\* restartRecoveryDisposition: only a thread that seems to be under way is
\* looked at again after the delay.
RecoverObserve ==
  /\ At("observe")
  /\ seen' = Len(log)
  /\ steps' = (IF SessionStatus(log) \in {"running", "waiting"} THEN <<"delay">> ELSE <<>>)
                \o Tail(steps)
  /\ UNCHANGED <<log, live, item, recovering, request, used>>

\* Mutant: the continuation goes only to a thread that moved.
RecoverDelayMoved ==
  /\ At("delay")
  /\ steps' = (IF item.pending = NoPending /\ Len(log) # seen THEN <<"goOn">> ELSE <<>>)
                \o Tail(steps)
  /\ UNCHANGED <<log, live, item, seen, recovering, request, used>>

RecoverDelay ==
  /\ At("delay")
  /\ steps' = (IF item.pending = NoPending /\ Len(log) = seen THEN <<"goOn">> ELSE <<>>)
                \o Tail(steps)
  /\ UNCHANGED <<log, live, item, seen, recovering, request, used>>

RecoverPending ==
  /\ At("pending")
  /\ steps' = (IF item.pending = NoPending \/ SessionStatus(log) = "completed" THEN <<>>
               ELSE IF RepeatedYoloFailure THEN Fresh
               ELSE <<"continue", "noteDelivered">>) \o Tail(steps)
  /\ UNCHANGED <<log, live, item, seen, recovering, request, used>>

Recovered ==
  /\ At("recovered")
  /\ recovering' = FALSE /\ steps' = Tail(steps)
  /\ UNCHANGED <<log, live, item, seen, request, used>>

WorkerSteps ==
  \/ Escalate \/ WriteRestartRequest \/ Send \/ Settle \/ Deliver
  \/ NoteDelivered \/ NoteVerify \/ NoteReflect \/ NewTask \/ NoteFresh
  \/ RecoverRestart \/ RecoverObserve \/ RecoverDelay \/ RecoverPending \/ Recovered

------------------------------------------------------------------------------
(* Failures: a call to Cline that never takes effect, the end of the host,  *)
(* an abort that keeps the record, and the daemon's restarts.               *)

Disturbed == used.disturbance < MaxDisturbances /\ Spend("disturbance")

\* In the gates the error ends the record; in recovery kick() tries again.
CallFails ==
  /\ steps # <<>> /\ Head(steps) \in Requests \cup {"newTask", "request"}
  /\ Disturbed
  /\ IF recovering
     THEN steps' = Recover /\ UNCHANGED item
     ELSE Finishes([item EXCEPT !.error = "call"], "failed")
  /\ UNCHANGED <<log, live, seen, recovering, request>>

HostRestarts ==
  /\ item.state = "running"
  /\ steps' = Recover /\ recovering' = TRUE /\ live' = FALSE
  /\ UNCHANGED <<log, item, seen>>

Reload ==
  /\ Disturbed
  /\ HostRestarts
  /\ UNCHANGED request

\* A command aborted the worker, failed, and started it again.
Interrupt ==
  /\ item.state = "running" /\ steps # <<>>
  /\ Disturbed
  /\ steps' = Restarted
  /\ UNCHANGED <<log, live, item, seen, recovering, request>>

DaemonRestarts ==
  /\ request # 0 /\ request' = 0
  /\ HostRestarts
  /\ UNCHANGED used

DaemonDrops ==
  /\ item.state = "running" /\ request # 0 /\ request' = 0
  /\ Disturbed
  /\ UNCHANGED <<log, live, item, seen, steps, recovering>>

------------------------------------------------------------------------------
(* Cline and its user.                                                      *)

Answering == Last(log) \in Feedback \cup {"task"}

ClineStarts ==
  /\ item.state = "running" /\ live /\ Answering
  /\ log' = Append(log, "api")
  /\ UNCHANGED <<live, item, seen, steps, recovering, request, used>>

ClineWorks ==
  /\ item.state = "running" /\ live /\ ~Answering
  /\ used.work < MaxWork /\ Spend("work")
  /\ \E e \in Works : log' = Append(log, e)
  /\ UNCHANGED <<live, item, seen, steps, recovering, request>>

TestPasses ==
  /\ item.state = "running" /\ live /\ ~Answering
  /\ UnresolvedTestTimeout(log) # 0
  /\ log' = Append(log, "pass")
  /\ UNCHANGED <<live, item, seen, steps, recovering, request, used>>

\* A clean report is free, but over a test that timed out it is a trouble: the
\* queue would send it back any number of times.
ClineCompletes ==
  /\ item.state = "running" /\ live /\ ~Answering
  /\ UnresolvedTestTimeout(log) = 0
  /\ log' = Append(log, "clean") /\ live' = FALSE
  /\ UNCHANGED <<item, seen, steps, recovering, request, used>>

ClineStops ==
  /\ item.state = "running" /\ live /\ ~Answering
  /\ used.trouble < MaxTroubles /\ Spend("trouble")
  /\ \E e \in Stops :
       /\ e = "clean" => UnresolvedTestTimeout(log) # 0
       /\ log' = Append(log, e)
  /\ live' = FALSE
  /\ UNCHANGED <<item, seen, steps, recovering, request>>

\* The user writes, cancels the run, or opens a completed thread again.
UserActs ==
  /\ item.state = "running"
  /\ used.user < MaxUserActs /\ Spend("user")
  /\ \E e \in UserEntries :
       /\ e = "resume" => live /\ ~Answering
       /\ e = "reopened" => Last(log) \in Claims
       /\ log' = Append(log, e)
       /\ live' = (e \in Feedback)
  /\ UNCHANGED <<item, seen, steps, recovering, request>>

Next ==
  \/ Gates \/ WorkerSteps
  \/ CallFails \/ Reload \/ Interrupt \/ DaemonRestarts \/ DaemonDrops
  \/ ClineStarts \/ ClineWorks \/ TestPasses \/ ClineCompletes \/ ClineStops \/ UserActs

Spec == Init /\ [][Next]_vars

\* The event loop runs what is due, Cline answers and ends its run, the daemon
\* polls the requests.  Nobody has to act, fail or restart.
FairSpec ==
  /\ Spec
  /\ WF_vars(Gates \/ WorkerSteps)
  /\ WF_vars(ClineStarts \/ ClineCompletes)
  /\ WF_vars(DaemonRestarts)

------------------------------------------------------------------------------
(* Properties.                                                              *)

\* Tokens of the worker's plan.
Token == Requests \cup
  {"ended", "escalate", "request", "settle", "deliver", "noteDelivered", "noteVerify",
   "noteReflect", "newTask", "noteFresh", "restart", "observe", "delay", "pending",
   "recovered"}

\* The record, the plan and the transcript have their types, and every marker
\* is an entry of the transcript.
TypeOK ==
  /\ log \in Seq(Entries) /\ log # <<>>
  /\ live \in BOOLEAN /\ recovering \in BOOLEAN
  /\ item \in [state : {"running", "completed", "failed"},
               error : {"none", "yolo", "mistakes", "timeout", "limit", "call"},
               pending : [kind : {"none", "overflow", "failure"}, marker : Nat],
               marker : Nat, recovery : Nat, failure : Nat, timeout : Nat, scope : Nat,
               claims : Nat \cup {-1}, unchanged : Nat, stuck : Nat, handled : BOOLEAN,
               verified : BOOLEAN, rounds : Nat, reflected : BOOLEAN,
               yolo : Nat, fresh : Nat]
  /\ steps \in Seq(Token)
  /\ seen \in Nat /\ request \in Nat
  /\ used \in [work : Nat, trouble : Nat, user : Nat, disturbance : Nat]
  /\ \A m \in {item.marker, item.recovery, item.failure, item.timeout, item.scope,
               item.pending.marker, item.yolo, item.fresh, seen, request} : m <= Len(log)

InThread(kind) == LastOf(log, {kind}) # 0

\* The flags of the record speak of the thread it is bound to: verified and
\* reflected stand only for a request that is in that thread, also when the host
\* died between the message and the note or a fresh thread took over.
FlagsTellTruth ==
  ~FreshRecoveryRequired =>
    /\ item.verified => InThread("verify")
    /\ item.reflected => InThread("reflect")

Answered == LastOf(log, GateRequests) > LastOf(log, Claims \cup {"reopened"})

\* A completion is answered once: no gate sends a second request before Cline
\* has reported completion again, whatever was lost and retried in between.
OneRequestPerClaim ==
  [][log' # log /\ Last(log') \in GateRequests => ~Answered]_vars

\* What can come between the marker of a gate and its message: a disturbance, or a
\* restart that was requested for one failure in YOLO mode and made after the next.
Overtaken == used.disturbance > 0 \/ Count(log, {"yolo"}) > 1

\* Only DONE or all the gates complete a record.  The report that is accepted
\* declares nothing unfinished, no test of the thread is left timed out, the
\* verification (and the reflection) was asked for in this thread before the
\* report, and what was edited since the last request is either vouched for by
\* the report's confidence or beyond the bound of the verification rounds, unless
\* a request that was due to it was overtaken.  The first two exceptions are what
\* completionVerificationDecision does and README.md:524-525 says; README.md:554-560,
\* docs/flow-principles-and-state-machine.md:141-149 and docs/flow_principles.md:39-53
\* know none but DONE.
AcceptedThroughGates ==
  [][item.state = "running" /\ item'.state = "completed" /\ UserConfirmedDone(log) = 0 =>
       LET last == LastOf(log, GateRequests)
       IN /\ ClaimsCompletion(log) /\ ~RequiresContinuation(Report(log))
          /\ UnresolvedTestTimeout(log) = 0
          /\ InThread("verify") /\ (Reflective => InThread("reflect"))
          /\ After(log, last, Claims \cup {"reopened"})
          /\ \/ Confident(Report(log))
             \/ ~After(log, last, Edits)
             \/ item.rounds >= MaxVerifications
             \/ Overtaken]_vars

\* The verification loop ends: a thread is asked at most the configured number of
\* times, once more for each disturbance or restart for a failure in YOLO mode that
\* lost the note of a request.
VerificationBounded ==
  Cardinality({i \in ThreadStart(log)..Len(log) : log[i] = "verify"})
    <= MaxVerifications + used.disturbance + Count(log, {"yolo"})

\* The correction limit fails a record only after that many corrections of this
\* task, sent or lost to a disturbance or such a restart, and a last report with no
\* edit since the one before.
CorrectionsBeforeFailure ==
  [][item.state = "running" /\ item'.error = "limit" =>
       /\ Count(log, {"correct", "stuck"}) + used.disturbance + Count(log, {"yolo"})
            >= MaxUnchangedRounds
       /\ ~Activity]_vars

\* A task is started afresh only for a failure in YOLO mode: one thread for each,
\* and one more for each disturbance of a recovery from one.
FreshThreadsJustified ==
  LET yolo == Count(log, {"yolo"})
  IN Count(log, {"task"}) <= 1 + (IF yolo = 0 THEN 0 ELSE yolo + used.disturbance)

\* Nothing is left to happen, and the record still runs.
StandsStill == Monitoring /\ Observed = "none" /\ ~live /\ request = 0

\* A record stands still, with nobody working on it and nothing due, only when
\* the user cancelled the run or something came between a marker and its
\* message.  A restart alone never leaves a thread that had stopped on its way,
\* except on a failure that was handled before and whose answer was not taken up.
StandsStillOnlyWhen ==
  StandsStill =>
    \/ Last(log) = "resume"
    \/ /\ Overtaken
       /\ \/ Last(log) \in Claims \cup Failures \cup {"overflow", "reopened"}
          \/ UnresolvedTaskFailure(log) # 0

\* Every record comes to an end, or to such a standstill: no loop of requests,
\* recoveries and restarts goes on for ever.
RecordEnds == <>[](item.state # "running" \/ StandsStill)

=============================================================================
