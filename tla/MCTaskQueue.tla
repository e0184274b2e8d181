---------------------------- MODULE MCTaskQueue ----------------------------
(***************************************************************************)
(* Finite instances of TaskQueue.  Records are created in the order of     *)
(* their numbers, so Messages and SourceOf say which record is created     *)
(* when: 1 and 3 are tasks, 2 is a follow-up message where there is one.   *)
(***************************************************************************)
EXTENDS TaskQueueFifo

DistinctSources == [i \in Item |-> i]

\* relaunchCurrent submits a prompt outside the worker.  Next and the forced clear
\* await Cline with a fresh controller in place: with a second command in flight a
\* worker may run during that wait.
ConcurrentOperations == Operation \ {"relaunch", "purge", "next"}

\* The commands after which the queue must be found working.
WakingOperations == {"enqueue", "resume", "relaunch", "clear", "removeRunning", "stop"}
=============================================================================
