----------------------------- MODULE Transcript -----------------------------
(***************************************************************************)
(* What the queue reads in a Cline thread: the scans of                    *)
(* src/integrations/cline/completion_monitor.ts, context_overflow.ts and   *)
(* remaining_work.ts over ui_messages.json.                                *)
(*                                                                         *)
(* A log is the sequence of the entries that matter to a scan, of all the  *)
(* threads a task had, oldest first; "task" opens a thread.  The marker of *)
(* an entry, `${sessionId}:${ts}` in the code, is its index in the log: it *)
(* names one entry of one thread.  0 stands for undefined.                 *)
(***************************************************************************)
EXTENDS Naturals, Sequences, SequencesExt, FiniteSets

\* Completion reports, by what the audits find in them.
Claims == {"unfinished", "unchecked", "recommends", "clean", "confident"}
Failures == {"yolo", "mistakes"}
Edits == {"edit", "outside"}

\* Messages of the queue: those of a completion gate, and the others.
GateRequests == {"correct", "stuck", "recommend", "verify", "reflect"}
Requests == GateRequests \cup
  {"scope", "timeoutFix", "compact", "continue", "diagnose", "goOn"}

\* Every message is a user_feedback entry, whoever wrote it.
Feedback == Requests \cup {"nudge", "DONE"}

Entries ==
  {"task", "api", "timeout", "pass", "overflow", "resume", "reopened"}
    \cup Claims \cup Failures \cup Edits \cup Feedback

------------------------------------------------------------------------------
(* Positions.                                                               *)

\* The last place of an entry of K, where there is one.
LastIn(log, K) ==
  CHOOSE i \in DOMAIN log : log[i] \in K /\ \A j \in (i + 1)..Len(log) : log[j] \notin K

\* The newest thread, and the last entry of K in it; 0 when there is none.
ThreadStart(log) == LastIn(log, {"task"})
LastOf(log, K) ==
  LET i == LastIn(log, K \cup {"task"})
  IN IF log[i] \in K THEN i ELSE 0
After(log, i, K) == \E j \in (i + 1)..Len(log) : log[j] \in K
Count(log, K) == Cardinality({i \in DOMAIN log : log[i] \in K})

------------------------------------------------------------------------------
(* The scans.                                                               *)

UserConfirmedDone(log) == LastOf(log, {"DONE"})

LatestContextOverflow(log) == LastOf(log, {"overflow"})

\* The latest failure, unless a completion report follows it, or a request to
\* recover from it (by anybody) that Cline has taken up.
UnresolvedTaskFailure(log) ==
  LET f == LastOf(log, Failures)
      recovered == \E i \in (f + 1)..Len(log) :
                     /\ log[i] \in Feedback \cup {"resume"}
                     /\ After(log, i, {"api"})
  IN IF f = 0 \/ After(log, f, Claims) \/ recovered THEN 0 ELSE f

\* A test that timed out and has not run to its end since.
UnresolvedTestTimeout(log) ==
  LET t == LastOf(log, {"timeout"})
  IN IF t = 0 \/ After(log, t, {"pass"}) THEN 0 ELSE t

\* Mutant: a report counts also when the thread went on after it.
HasClaimed(log) == LastOf(log, Claims) # 0

ClaimsCompletion(log) == Last(log) \in Claims \cup {"reopened"}

\* The report a completion is judged by; its marker is the last entry's.
Report(log) == log[LastOf(log, Claims)]
\* Mutant: off by one.
NextMarker(log) == Len(log) + 1

CompletionMarker(log) == Len(log)

\* Read only when a completion marker was saved before.
ImplementationActivity(log, marker) ==
  marker # 0 /\ \E i \in ThreadStart(log)..Len(log) : i > marker /\ log[i] \in Edits

\* In the code the marker is the sorted set of all the paths edited outside the
\* scope.  That set never shrinks within a thread, and an edit of a path that is in
\* it already is not "outside" here but "edit": the marker changes with every entry
\* "outside" and with no other, as the index of the last one does.
ScopeViolation(log) == LastOf(log, {"outside"})

\* What the audits of remaining_work.ts say of a report.
RequiresContinuation(report) == report \in {"unfinished", "unchecked"}
ChecklistOnly(report) == report = "unchecked"
Recommends(report) == report = "recommends"
Confident(report) == report = "confident"

\* The status the workspace reports, as restart recovery reads it: a reopened
\* completion counts as running.
SessionStatus(log) ==
  CASE UnresolvedTaskFailure(log) # 0 -> "failed"
    [] UnresolvedTaskFailure(log) = 0 /\ Last(log) \in Claims -> "completed"
    [] UnresolvedTaskFailure(log) = 0 /\ Last(log) = "resume" -> "waiting"
    [] OTHER -> "running"

=============================================================================
