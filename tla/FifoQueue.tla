----------------------------- MODULE FifoQueue -----------------------------
(***************************************************************************)
(* What a workspace queue promises (docs/flow-principles-and-state-machine *)
(* .md:9-36): records are taken in the order they wait in, one at a time;  *)
(* what is taken ends once and never comes back, except that a record      *)
(* whose dispatch is undone is the next one again; the waiting records are *)
(* never reordered; and a restart finds a queue that was saved.            *)
(*                                                                         *)
(* The order is a relation on the waiting records; WaitInLine says that it *)
(* puts them in a line.                                                    *)
(***************************************************************************)
CONSTANT Record

VARIABLES
  queue,  \* the records that wait, their order, the one worked on, the ended
  saved   \* the queue a restart finds

Empty == [waiting |-> {}, before |-> {}, current |-> {}, ended |-> {}]

Known(q) == q.waiting \cup q.current \cup q.ended

\* The order of those that are left.
Among(before, kept) == before \cap (kept \X kept)

Init == queue = Empty /\ saved = Empty

\* A new record waits behind the others, some of which it may replace.
Add ==
  \E r \in Record \ Known(queue), kept \in SUBSET queue.waiting :
    queue' = [waiting |-> kept \cup {r},
              before |-> Among(queue.before, kept) \cup (kept \X {r}),
              current |-> queue.current, ended |-> queue.ended]

Take ==
  \E r \in queue.waiting :
    /\ queue.current = {}
    /\ \A s \in queue.waiting \ {r} : <<r, s>> \in queue.before
    /\ queue' = [waiting |-> queue.waiting \ {r},
                 before |-> Among(queue.before, queue.waiting \ {r}),
                 current |-> {r}, ended |-> queue.ended]

End ==
  /\ queue.current # {}
  /\ queue' = [queue EXCEPT !.current = {}, !.ended = queue.ended \cup queue.current]

First(r) == queue.before \cup ({r} \X queue.waiting)

\* The record taken is the next one again.
PutBack ==
  \E r \in queue.current :
    queue' = [waiting |-> queue.waiting \cup {r}, before |-> First(r),
              current |-> {}, ended |-> queue.ended]

\* A forced record comes first and ends the one that is worked on.
Override ==
  /\ queue.current # {}
  /\ \E r \in Record \ Known(queue) :
       queue' = [waiting |-> queue.waiting \cup {r}, before |-> First(r),
                 current |-> {}, ended |-> queue.ended \cup queue.current]

\* Waiting and ended records are dropped at will, the one worked on by itself
\* or with all the others.
Discard ==
  \/ \E kept \in SUBSET (queue.waiting \cup queue.ended) :
       queue' = [waiting |-> queue.waiting \cap kept, before |-> Among(queue.before, kept),
                 current |-> queue.current, ended |-> queue.ended \cap kept]
  \/ queue' = [queue EXCEPT !.current = {}]
  \/ queue' = Empty

Save == saved' = queue /\ UNCHANGED queue
Restart == queue' = saved /\ UNCHANGED saved

Next ==
  \/ /\ Add \/ Take \/ End \/ PutBack \/ Override \/ Discard
     /\ UNCHANGED saved
  \/ Save \/ Restart

Spec == Init /\ [][Next]_<<queue, saved>>

\* Of two waiting records one comes before the other, and only one.
WaitInLine ==
  /\ \A r, s \in queue.waiting :
       /\ r = s \/ <<r, s>> \in queue.before \/ <<s, r>> \in queue.before
       /\ ~(<<r, s>> \in queue.before /\ <<s, r>> \in queue.before)
  /\ \A r, s, t \in queue.waiting :
       <<r, s>> \in queue.before /\ <<s, t>> \in queue.before => <<r, t>> \in queue.before
=============================================================================
