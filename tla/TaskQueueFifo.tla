--------------------------- MODULE TaskQueueFifo ---------------------------
(***************************************************************************)
(* The queue of task_queue.ts is a FifoQueue: the array of records gives   *)
(* the order of those that wait, the states tell the three roles apart,    *)
(* and the file is what a restart finds.                                   *)
(***************************************************************************)
EXTENDS TaskQueue

Roles(m) ==
  [waiting |-> Queued(m),
   before  |-> {p \in Queued(m) \X Queued(m) : Before(m, p[1], p[2])},
   current |-> Running(m),
   ended   |-> InState(m, TerminalState)]

Fifo == INSTANCE FifoQueue WITH Record <- Item, queue <- Roles(mem), saved <- Roles(file)

\* Every step of the worker, of the commands, of a crash and of recovery is a
\* step of the abstract queue or none: no interleaving takes a record out of
\* turn, takes two, revives an ended one, reorders those that wait, or restarts
\* with a queue nobody saved (task_queue.ts, the whole class).
ImplementsFifo == Fifo!Spec
=============================================================================
