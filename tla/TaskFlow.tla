------------------------------ MODULE TaskFlow ------------------------------
(***************************************************************************)
(* The persisted state graph of one queue item: src/extension/task_flow.ts *)
(* names the five states, lists the transitions a runtime mutation may     *)
(* make and throws on every other one.                                     *)
(***************************************************************************)

PersistentQueueState == {"queued", "running", "completed", "failed", "skipped"}

TerminalState == {"completed", "failed", "skipped"}

ALLOWED_TRANSITIONS ==
  [s \in PersistentQueueState |->
     CASE s = "queued"  -> {"running"}
       [] s = "running" -> {"queued", "completed", "failed", "skipped"}
       [] OTHER         -> {}]

\* queueStateTransition returns `next` when this holds and throws otherwise.
\* Writing the state an item already has is always accepted.
TransitionAccepted(current, next) ==
  current = next \/ next \in ALLOWED_TRANSITIONS[current]
=============================================================================
