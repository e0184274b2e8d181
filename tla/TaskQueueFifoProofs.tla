------------------------- MODULE TaskQueueFifoProofs -------------------------
(***************************************************************************)
(* The workspace queue implements the abstract one: each effect a step has *)
(* on the records (TaskQueueSafetyProofs) is one action of FifoQueue or    *)
(* none, and the file is written with the records as they are.             *)
(***************************************************************************)
EXTENDS TaskQueueSafetyProofs, TaskQueueFifo

\* The four parts of the abstract queue.
LEMMA RolesParts ==
  ASSUME NEW m
  PROVE /\ Roles(m) = [waiting |-> Queued(m), before |-> Roles(m).before,
                       current |-> Running(m), ended |-> InState(m, TerminalState)]
        /\ Roles(m).waiting = Queued(m) /\ Roles(m).current = Running(m)
        /\ Roles(m).ended = InState(m, TerminalState)
  BY DEF Roles

\* Records that keep their states and order keep their roles.
LEMMA KeepsRoles ==
  ASSUME NEW m, NEW n, Keeps(m, n)
  PROVE Roles(n) = Roles(m)
<1>1. \A i, j : Before(n, i, j) <=> Before(m, i, j)
  BY SameOrder DEF Keeps
<1>2. \A S : InState(n, S) = InState(m, S)
  BY DEF Keeps, SameBut, InState
<1> QED
  BY <1>1, <1>2 DEF Roles, Running, Queued

\* Removed records are discarded.
LEMMA DropsRoles ==
  ASSUME NEW m, NEW n, Drops(m, n)
  PROVE \E kept \in SUBSET (Roles(m).waiting \cup Roles(m).ended) :
          Roles(n) = [waiting |-> Roles(m).waiting \cap kept,
                      before |-> Fifo!Among(Roles(m).before, kept),
                      current |-> Roles(m).current, ended |-> Roles(m).ended \cap kept]
<1> DEFINE kept == Queued(n) \cup InState(n, TerminalState)
<1>1. \A i, j : Before(n, i, j) <=> Before(m, i, j)
  BY SameOrder DEF Drops
<1>2. /\ Queued(n) = Queued(m) \cap kept /\ Running(n) = Running(m)
      /\ InState(n, TerminalState) = InState(m, TerminalState) \cap kept
      /\ kept \subseteq Queued(m) \cup InState(m, TerminalState)
  BY DEF Drops, Queued, Running, InState, TerminalState
<1>3. Roles(n).before = Fifo!Among(Roles(m).before, kept)
  BY <1>1, <1>2 DEF Roles, Fifo!Among
<1>4. Roles(n) = [waiting |-> Roles(m).waiting \cap kept,
                  before |-> Fifo!Among(Roles(m).before, kept),
                  current |-> Roles(m).current, ended |-> Roles(m).ended \cap kept]
  BY <1>2, <1>3, RolesParts
<1> HIDE DEF kept
<1> QED
  BY <1>2, <1>4 DEF Roles

\* Removing the running record leaves none that is worked on.
LEMMA DropsRunningRoles ==
  ASSUME NEW m, NEW n, DropsRunning(m, n), \A i, j \in Running(m) : i = j
  PROVE Roles(n) = [Roles(m) EXCEPT !.current = {}]
<1>1. \A i, j : Before(n, i, j) <=> Before(m, i, j)
  BY SameOrder DEF DropsRunning
<1>2. PICK i \in Running(m) : n.state[i] = "absent" /\ SameBut(m, n, {i})
  BY DEF DropsRunning
<1>3. Queued(n) = Queued(m) /\ Running(n) = {} /\ InState(n, TerminalState) = InState(m, TerminalState)
  BY <1>2 DEF SameBut, Queued, Running, InState, TerminalState
<1>4. Roles(n).before = Roles(m).before
  BY <1>1, <1>3 DEF Roles
<1> QED
  BY <1>3, <1>4, RolesParts

\* A cleared queue is the empty one.
LEMMA DropsAllRoles ==
  ASSUME NEW m, NEW n, DropsAll(m, n)
  PROVE Roles(n) = Fifo!Empty
<1>1. Queued(n) = {} /\ Running(n) = {} /\ InState(n, TerminalState) = {}
  BY DEF DropsAll, Queued, Running, InState, TerminalState
<1> QED
  BY <1>1 DEF Roles, Fifo!Empty

\* The running record ends.
LEMMA FinishesRoles ==
  ASSUME NEW m, NEW n, Finishes(m, n), \A i, j \in Running(m) : i = j
  PROVE /\ Roles(m).current # {}
        /\ Roles(n) = [Roles(m) EXCEPT !.current = {},
                                       !.ended = Roles(m).ended \cup Roles(m).current]
<1>1. \A i, j : Before(n, i, j) <=> Before(m, i, j)
  BY SameOrder DEF Finishes
<1>2. PICK i \in Running(m) : n.state[i] \in TerminalState /\ SameBut(m, n, {i})
  BY DEF Finishes
<1>3. /\ Queued(n) = Queued(m) /\ Running(n) = {} /\ Running(m) = {i}
      /\ InState(n, TerminalState) = InState(m, TerminalState) \cup Running(m)
  BY <1>2 DEF SameBut, Queued, Running, InState, TerminalState
<1>4. Roles(n).before = Roles(m).before
  BY <1>1, <1>3 DEF Roles
<1> QED
  BY <1>3, <1>4, RolesParts

\* The running record is the first of those that wait, again.
LEMMA PutsBackRoles ==
  ASSUME NEW m \in Data, NEW n, PutsBack(m, n), \A i, j \in Running(m) : i = j, InOrder(m)
  PROVE \E r \in Roles(m).current :
          Roles(n) = [waiting |-> Roles(m).waiting \cup {r},
                      before |-> Roles(m).before \cup ({r} \X Roles(m).waiting),
                      current |-> {}, ended |-> Roles(m).ended]
<1>1. \A i, j : Before(n, i, j) <=> Before(m, i, j)
  BY SameOrder DEF PutsBack
<1>2. PICK r \in Running(m) : n.state[r] = "queued" /\ SameBut(m, n, {r})
  BY DEF PutsBack
<1>3. /\ Queued(n) = Queued(m) \cup {r} /\ Running(n) = {} /\ r \notin Queued(m)
      /\ InState(n, TerminalState) = InState(m, TerminalState)
  BY <1>2 DEF SameBut, Queued, Running, InState, TerminalState
<1>4. /\ \A j \in Queued(m) : Before(m, r, j) /\ ~Before(m, j, r)
      /\ ~Before(m, r, r)
  BY BeforeStrict DEF InOrder, RunningFirst
<1>5. Roles(n).before = Roles(m).before \cup ({r} \X Queued(m))
  <2>1. ASSUME NEW i \in Queued(n), NEW j \in Queued(n)
        PROVE Before(n, i, j) <=> \/ i \in Queued(m) /\ j \in Queued(m) /\ Before(m, i, j)
                                  \/ i = r /\ j \in Queued(m)
    BY <1>1, <1>3, <1>4
  <2> QED
    BY <1>3, <2>1 DEF Roles
<1> QED
  BY <1>3, <1>5, RolesParts

\* The dispatch takes the first of those that wait.
LEMMA TakesRoles ==
  ASSUME NEW m, NEW n, Takes(m, n)
  PROVE \E r \in Roles(m).waiting :
          /\ Roles(m).current = {}
          /\ \A s \in Roles(m).waiting \ {r} : <<r, s>> \in Roles(m).before
          /\ Roles(n) = [waiting |-> Roles(m).waiting \ {r},
                         before |-> Fifo!Among(Roles(m).before, Roles(m).waiting \ {r}),
                         current |-> {r}, ended |-> Roles(m).ended]
<1>1. \A i, j : Before(n, i, j) <=> Before(m, i, j)
  BY SameOrder DEF Takes
<1>2. PICK r \in Item : IsHead(m, r) /\ n.state[r] = "running" /\ SameBut(m, n, {r})
  BY DEF Takes
<1>3. /\ Queued(n) = Queued(m) \ {r} /\ Running(n) = {r} /\ Running(m) = {} /\ r \in Queued(m)
      /\ InState(n, TerminalState) = InState(m, TerminalState)
  BY <1>2 DEF Takes, IsHead, SameBut, Queued, Running, InState, TerminalState
<1>4. Roles(n).before = Fifo!Among(Roles(m).before, Queued(m) \ {r})
  BY <1>1, <1>3 DEF Roles, Fifo!Among
<1>5. Roles(n) = [waiting |-> Roles(m).waiting \ {r},
                  before |-> Fifo!Among(Roles(m).before, Roles(m).waiting \ {r}),
                  current |-> {r}, ended |-> Roles(m).ended]
  BY <1>3, <1>4, RolesParts
<1>6. \A s \in Queued(m) \ {r} : <<r, s>> \in Roles(m).before
  BY <1>2, <1>3 DEF IsHead, Roles
<1> QED
  BY <1>3, <1>5, <1>6 DEF Roles

\* A new record waits behind the others.
LEMMA AddsRoles ==
  ASSUME NEW m \in Data, NEW n \in Data, NEW r \in Item, Adds(m, n, r), InOrder(m)
  PROVE /\ r \in Item \ Fifo!Known(Roles(m))
        /\ \E kept \in SUBSET Roles(m).waiting :
             Roles(n) = [waiting |-> kept \cup {r},
                         before |-> Fifo!Among(Roles(m).before, kept) \cup (kept \X {r}),
                         current |-> Roles(m).current, ended |-> Roles(m).ended]
<1> DEFINE kept == Queued(n) \ {r}
<1>1. r \notin Ids(m) /\ m.state[r] = "absent"
  BY DEF Adds, InOrder, Listed
<1>2. \A i, j : Before(n, i, j) <=> Before(m, i, j) \/ (i \in Ids(m) /\ j = r)
  BY AppendedBefore DEF Adds
<1>3. /\ Queued(n) = kept \cup {r} /\ Running(n) = Running(m) /\ kept \subseteq Queued(m)
      /\ InState(n, TerminalState) = InState(m, TerminalState)
  BY <1>1 DEF Adds, Queued, Running, InState, TerminalState
<1>4. kept \subseteq Ids(m) /\ \A i : ~Before(m, r, i) /\ ~Before(m, i, r)
  BY <1>1, <1>3 DEF InOrder, Listed, Queued, InState, Before, Ids
<1>5. Roles(n).before = Fifo!Among(Roles(m).before, kept) \cup (kept \X {r})
  <2>1. ASSUME NEW i \in Queued(n), NEW j \in Queued(n)
        PROVE Before(n, i, j) <=> \/ i \in kept /\ j \in kept /\ Before(m, i, j)
                                  \/ i \in kept /\ j = r
    BY <1>1, <1>2, <1>3, <1>4
  <2> QED
    BY <1>3, <2>1 DEF Roles, Fifo!Among
<1>6. Roles(n) = [waiting |-> kept \cup {r},
                  before |-> Fifo!Among(Roles(m).before, kept) \cup (kept \X {r}),
                  current |-> Roles(m).current, ended |-> Roles(m).ended]
  BY <1>3, <1>5, RolesParts
<1>7. r \in Item \ Fifo!Known(Roles(m))
  BY <1>1 DEF Fifo!Known, Roles, Queued, Running, InState, TerminalState
<1> HIDE DEF kept
<1> QED
  BY <1>3, <1>6, <1>7 DEF Roles

\* A forced record comes first and the running one ends.
LEMMA ForcesRoles ==
  ASSUME NEW m \in Data, NEW n \in Data, NEW r \in Item, Forces(m, n, r), InOrder(m),
         \A i, j \in Running(m) : i = j
  PROVE /\ r \in Item \ Fifo!Known(Roles(m)) /\ Roles(m).current # {}
        /\ Roles(n) = [waiting |-> Roles(m).waiting \cup {r},
                       before |-> Roles(m).before \cup ({r} \X Roles(m).waiting),
                       current |-> {}, ended |-> Roles(m).ended \cup Roles(m).current]
<1>1. r \notin Ids(m) /\ m.state[r] = "absent"
  BY DEF Forces, InOrder, Listed
<1>2. \A i, j : Before(n, i, j) <=> Before(m, i, j) \/ (i = r /\ j \in Ids(m))
  BY PrependedBefore DEF Forces
<1>3. PICK x \in Running(m) : n.state[x] = "skipped" /\ SameBut(m, n, {r, x})
  BY DEF Forces
<1>4. /\ Queued(n) = Queued(m) \cup {r} /\ Running(n) = {} /\ Running(m) = {x}
      /\ InState(n, TerminalState) = InState(m, TerminalState) \cup Running(m)
  BY <1>1, <1>3 DEF Forces, SameBut, Queued, Running, InState, TerminalState
<1>5. Queued(m) \subseteq Ids(m) /\ \A i : ~Before(m, r, i) /\ ~Before(m, i, r)
  BY <1>1 DEF InOrder, Listed, Queued, InState, Before, Ids
<1>6. Roles(n).before = Roles(m).before \cup ({r} \X Queued(m))
  <2>1. ASSUME NEW i \in Queued(n), NEW j \in Queued(n)
        PROVE Before(n, i, j) <=> \/ i \in Queued(m) /\ j \in Queued(m) /\ Before(m, i, j)
                                  \/ i = r /\ j \in Queued(m)
    BY <1>1, <1>2, <1>4, <1>5
  <2> QED
    BY <1>4, <2>1 DEF Roles
<1>7. r \in Item \ Fifo!Known(Roles(m))
  BY <1>1 DEF Fifo!Known, Roles, Queued, Running, InState, TerminalState
<1> QED
  BY <1>4, <1>6, <1>7 DEF Roles

------------------------------------------------------------------------------
(* Steps to steps.                                                          *)

\* Each effect is an action of the abstract queue.
LEMMA EffectAction ==
  ASSUME TypeOK, TypeOK', OneRunning, InOrder(mem), Tends(mem, mem') \/ Takes(mem, mem'),
         file' = file
  PROVE Fifo!Next
<1>1. mem \in Data /\ mem' \in Data /\ \A i, j \in Running(mem) : i = j
  BY DEF TypeOK, OneRunning, AtMostOneRunning
<1>2. Roles(file') = Roles(file)
  OBVIOUS
<1>3. CASE Keeps(mem, mem') \/ Drops(mem, mem')
  <2>1. Drops(mem, mem')
    BY <1>3 DEF Keeps, SameBut, Drops
  <2>2. Fifo!Discard
    BY <2>1, DropsRoles DEF Fifo!Discard
  <2> QED
    BY <1>2, <2>2 DEF Fifo!Next
<1>4. CASE DropsRunning(mem, mem') \/ DropsAll(mem, mem')
  <2>1. Fifo!Discard
    BY <1>1, <1>4, DropsRunningRoles, DropsAllRoles DEF Fifo!Discard
  <2> QED
    BY <1>2, <2>1 DEF Fifo!Next
<1>5. CASE Finishes(mem, mem')
  <2>1. Fifo!End
    BY <1>1, <1>5, FinishesRoles DEF Fifo!End
  <2> QED
    BY <1>2, <2>1 DEF Fifo!Next
<1>6. CASE PutsBack(mem, mem')
  <2>1. Fifo!PutBack
    BY <1>1, <1>6, PutsBackRoles DEF Fifo!PutBack, Fifo!First
  <2> QED
    BY <1>2, <2>1 DEF Fifo!Next
<1>7. CASE Takes(mem, mem')
  <2>1. Fifo!Take
    BY <1>7, TakesRoles DEF Fifo!Take
  <2> QED
    BY <1>2, <2>1 DEF Fifo!Next
<1>8. ASSUME NEW i \in Item, Adds(mem, mem', i) PROVE Fifo!Next
  <2>1. Fifo!Add
    BY <1>1, <1>8, AddsRoles DEF Fifo!Add
  <2> QED
    BY <1>2, <2>1 DEF Fifo!Next
<1>9. ASSUME NEW i \in Item, Forces(mem, mem', i) PROVE Fifo!Next
  <2>1. Fifo!Override
    BY <1>1, <1>9, ForcesRoles DEF Fifo!Override, Fifo!First
  <2> QED
    BY <1>2, <2>1 DEF Fifo!Next
<1> QED
  BY <1>3, <1>4, <1>5, <1>6, <1>7, <1>8, <1>9 DEF Tends

\* The file is written with the records as they are, by steps that leave those alone.
LEMMA FileStep ==
  ASSUME TypeOK, [Next]_vars
  PROVE file' = file \/ (file' = mem /\ Keeps(mem, mem')) \/ Start
<1>1. mem \in Data
  BY DEF TypeOK
<1>2. mem' \in {mem, NoneExempt(mem)} => Keeps(mem, mem')
  BY <1>1, FlagsAlike, FlagsEffect DEF Keeps, SameBut
<1>3. CASE WorkerSaves \/ WorkerSavesPause
  BY <1>2, <1>3 DEF WorkerSaves, WorkerSavesPause
<1>4. ASSUME NEW c \in Slots, CommandSaves(c) \/ CommandSavesReset(c)
      PROVE file' = mem /\ Keeps(mem, mem')
  BY <1>2, <1>4 DEF CommandSaves, CommandSavesReset
<1>5. CASE WorkerStep /\ ~WorkerSaves /\ ~WorkerSavesPause
  BY <1>5
  DEF WorkerStep, WorkerStart, RecoverUnbound, RecoverBound, RecoverNone, WorkerLoop,
      WorkerDispatches, WorkerSubmits, MonitorAborts, MonitorAdopts, MonitorSeesDone,
      MonitorRetains, RetentionSent, RetentionFails, MonitorAccepts, MonitorFails,
      MonitorMissesThread, WorkerCleansUp, WorkerSaveFails, WorkerRetries, WorkerEnds
<1>6. ASSUME NEW c \in Slots, IssueStep(c) PROVE file' = file
  BY <1>6, IssueMoves
<1>7. ASSUME NEW c \in Slots, Resumed(c) PROVE file' = file
  BY <1>7, ResumedMoves DEF StopContinues, HostEnds
<1>8. ASSUME NEW c \in Slots, CommandStep(c), ~CommandSaves(c), ~CommandSavesReset(c)
      PROVE file' = file
  BY <1>8
  DEF CommandStep, CommandSaveFails, ReadsActivity, Continues, RelaunchCancels,
      RelaunchSubmits, NextInterruptsLatest, NextSkips, PurgesHistory, RemovalChecked
<1>9. CASE Drained \/ PolicyStops \/ Crash \/ ClineStops \/ UserResumes \/ UserDeletes
           \/ UNCHANGED vars
  BY <1>9
  DEF Drained, PolicyStops, Crash, HostEnds, ClineStops, UserResumes, UserDeletes, vars
<1> QED
  BY <1>3, <1>4, <1>5, <1>6, <1>7, <1>8, <1>9 DEF Next

\* A host that is down after a step was down before it or ends with the step.
LEMMA DownStep ==
  ASSUME TypeOK, OrderInv, [Next]_vars, ~up'
  PROVE HostEnds \/ UNCHANGED <<mem, file>>
<1>1. ASSUME WorkerStep PROVE FALSE
  BY <1>1, WorkerMoves DEF OrderInv, InOrder
<1>2. ASSUME NEW c \in Slots, IssueStep(c) \/ CommandStep(c) PROVE FALSE
  BY <1>2, IssueMoves, CommandMoves
<1>3. ASSUME NEW c \in Slots, Resumed(c) PROVE HostEnds
  BY <1>3, ResumedMoves DEF StopContinues
<1> QED
  BY <1>1, <1>2, <1>3
  DEF Next, Drained, PolicyStops, Crash, Start, ClineStops, UserResumes, UserDeletes, vars

\* Every step of the queue is a step of the abstract one, or none.
LEMMA NextFifo ==
  ASSUME TypeOK, TypeOK', OneRunning, OrderInv, [Next]_vars
  PROVE [Fifo!Next]_<<Roles(mem), Roles(file)>>
<1>1. InOrder(mem)
  BY DEF OrderInv
<1>2. CASE HostEnds
  BY <1>2 DEF HostEnds, Fifo!Next, Fifo!Restart
<1>3. CASE ~up' /\ ~HostEnds
  BY <1>3, DownStep
<1>4. CASE Start
  <2>1. Roles(mem') = Roles(mem) /\ file' = mem' /\ mem = file
    BY <1>4, StartEffect, KeepsRoles DEF OrderInv
  <2> QED
    BY <2>1
<1>5. CASE file' = mem /\ Keeps(mem, mem')
  <2>1. Roles(mem') = Roles(mem)
    BY <1>5, KeepsRoles
  <2> QED
    BY <1>5, <2>1 DEF Fifo!Next, Fifo!Save
<1>6. CASE up' /\ file' = file
  BY <1>1, <1>6, StepEffect, EffectAction
<1> QED
  BY <1>2, <1>3, <1>4, <1>5, <1>6, FileStep

\* The workspace queue implements the abstract one: for any records, commands,
\* crashes and faults it takes records in the order they wait in, one at a time,
\* revives none, reorders none, and restarts with a queue that was saved.
THEOREM QueueIsFifo == Spec => ImplementsFifo
<1>1. Init => Fifo!Init
  <2>1. \A i \in Item : EmptyData.state[i] = "absent"
    BY DEF EmptyData
  <2>2. Queued(EmptyData) = {} /\ Running(EmptyData) = {} /\ InState(EmptyData, TerminalState) = {}
    BY <2>1 DEF Queued, Running, InState, TerminalState
  <2>3. Roles(EmptyData) = Fifo!Empty
    BY <2>2 DEF Roles, Fifo!Empty
  <2> QED
    BY <2>3 DEF Init, Fifo!Init
<1>2. TypeOK /\ TypeOK' /\ OneRunning /\ OrderInv /\ [Next]_vars
        => [Fifo!Next]_<<Roles(mem), Roles(file)>>
  BY NextFifo
<1> QED
  BY <1>1, <1>2, TypeCorrect, OneRunningAlways, OrderAlways, PTL
  DEF Spec, ImplementsFifo, Fifo!Spec

\* The relation of the abstract queue really is an order: the waiting records always
\* stand in a line, whatever was added, forced to the front,
\* put back, removed or loaded again.
THEOREM LineKept == Spec => [](Fifo!WaitInLine)
<1>1. ASSUME TypeOK, OrderInv PROVE Fifo!WaitInLine
  <2>1. mem \in Data /\ Distinct(mem) /\ Queued(mem) \subseteq Ids(mem)
    BY <1>1 DEF TypeOK, OrderInv, InOrder, Listed, Queued, InState
  <2>2. Roles(mem).waiting = Queued(mem)
    BY RolesParts
  <2>3. \A i, j \in Queued(mem) : <<i, j>> \in Roles(mem).before <=> Before(mem, i, j)
    BY DEF Roles
  <2> QED
    BY <2>1, <2>2, <2>3, BeforeStrict DEF Fifo!WaitInLine
<1> QED
  BY <1>1, TypeCorrect, OrderAlways, PTL
=============================================================================
