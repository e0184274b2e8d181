---------------------------- MODULE ModelArbiter ----------------------------
(***************************************************************************)
(* Several workspaces whose queues share one LM Studio model: the service  *)
(* (class ClineConsoleService, src/service/daemon.ts) polls them once a    *)
(* second, lets one of them run and suspends the others, and gives the     *)
(* model back when it is free.  An explicit `queue resume` takes the model *)
(* over beside that loop.                                                  *)
(*                                                                         *)
(* A step is at most the code between two awaits of the service, or one    *)
(* step of a request inside a window's server.  Identities are arbitrated  *)
(* independently of each other, so there is one.  Delays are               *)
(* nondeterministic.                                                       *)
(***************************************************************************)
EXTENDS Naturals, Sequences, SequencesExt

CONSTANTS
  Workspaces,      \* the workspaces with a queue
  Tasks,           \* bound: records in each queue
  Disturbances,    \* what may happen beside the ordinary course
  MaxDisturbances, \* bound: how much of it
  NoWorkspace

NoSession == 0
Nobody == <<NoWorkspace, NoSession>>

ASSUME ArbiterAssumption ==
  /\ NoWorkspace \notin Workspaces /\ IsFiniteSet(Workspaces)
  /\ Tasks \in [Workspaces -> Nat]
  /\ Disturbances \subseteq {"cancel", "resume", "delete", "pause", "takeover",
                             "fault", "lookup", "close", "hang", "crash"}
  /\ MaxDisturbances \in Nat

VARIABLES
  queue,      \* each workspace's queue, its head's thread and the cached model
  open,       \* workspaces whose window runs and is registered
  restarting, \* companionRestartsInFlight
  service,    \* what the service remembers
  loop,       \* arbitrateLmStudioQueues: where it is and what it read
  takeover,   \* route() of an explicit resume: where it is and what it read
  request,    \* the call each of them has made to a window
  used        \* disturbances so far

windows == <<queue, open, restarting>>
vars == <<windows, service, loop, takeover, request, used>>

owner == service.owner           \* modelOwners: workspace and session
previous == service.previous     \* previousRunningSessions
inFlight == service.inFlight     \* preemptionsInFlight
suspended == service.suspended   \* preemptedModelQueues, the latest last
released == service.released     \* modelReleasedAt: unset, within the delay, or past it
protected == service.protected   \* restartLeaseProtections

Forgotten ==
  [owner |-> Nobody, previous |-> [w \in Workspaces |-> NoSession], observed |-> {},
   inFlight |-> {}, suspended |-> <<>>, released |-> "unset", preferred |-> NoWorkspace,
   protected |-> [w \in Workspaces |-> "none"]]

Disturb(kind) ==
  /\ kind \in Disturbances /\ used < MaxDisturbances
  /\ used' = used + 1

------------------------------------------------------------------------------
(* A workspace: its active records, and of the head the Cline session, the   *)
(* state of its thread and the winner it was interrupted for.                *)

Active(w) == queue[w].session # NoSession
Conflict(w) == queue[w].conflict # NoWorkspace

Put(w, q) == queue' = [queue EXCEPT ![w] = q]
Within(w, q) == Put(w, q) /\ UNCHANGED <<open, restarting, service, loop, takeover, request>>

\* A new session asks for the model anew.
Started(q) == [q EXCEPT !.session = q.started + 1, !.started = @ + 1,
                        !.thread = "running", !.model = "unasked"]

Dispatch(w) ==
  /\ w \in open
  /\ ~Active(w) /\ ~queue[w].paused /\ queue[w].left > 0
  /\ Within(w, Started(queue[w])) /\ UNCHANGED used

\* Cline claims completion; the queue audits the claim before it advances.
Claim(w) ==
  /\ w \in open /\ queue[w].thread = "running"
  /\ Within(w, [queue[w] EXCEPT !.thread = "completed"]) /\ UNCHANGED used

\* The record ends and its conflict with it; the queue goes on unless paused.
Advance(w) ==
  /\ w \in open /\ queue[w].thread = "completed"
  /\ Within(w, [queue[w] EXCEPT !.left = @ - 1, !.session = NoSession, !.thread = "none",
                                !.conflict = NoWorkspace, !.recovering = FALSE])
  /\ UNCHANGED used

\* Cline's Cancel and Resume Task, a deleted thread, which pauses the queue,
\* and `queue pause`.
UserAct(w) ==
  LET q == queue[w] IN
  /\ w \in open
  /\ \/ Disturb("cancel") /\ q.thread = "running" /\ Within(w, [q EXCEPT !.thread = "waiting"])
     \/ Disturb("resume") /\ q.thread = "waiting" /\ Within(w, [q EXCEPT !.thread = "running"])
     \/ /\ Disturb("delete") /\ q.thread \in {"running", "waiting"}
        /\ Within(w, [q EXCEPT !.thread = "lost", !.paused = TRUE])
     \/ Disturb("pause") /\ ~q.paused /\ Within(w, [q EXCEPT !.paused = TRUE])

Halted(q) == [q EXCEPT !.thread = IF @ = "running" THEN "waiting" ELSE @,
                       !.model = "unasked", !.recovering = FALSE]
Reloaded(q) == [q EXCEPT !.recovering = ~q.paused /\ q.left > 0]

\* A window comes back with none of the requests it had.
Opens(w) ==
  /\ \A c \in DOMAIN request : request[c].at # w
  /\ open' = open \cup {w}
  /\ Put(w, Reloaded(queue[w]))

Close(w) ==
  /\ w \in open /\ Disturb("close")
  /\ open' = open \ {w}
  /\ Put(w, Halted(queue[w]))
  /\ UNCHANGED <<restarting, service, loop, takeover, request>>

\* The watchdog opens a window that closed on an active queue.
NeedsWindow(w) == queue[w].left > 0 /\ ~queue[w].paused

Reopen(w) ==
  /\ w \notin open \cup restarting /\ NeedsWindow(w)
  /\ Opens(w)
  /\ UNCHANGED <<restarting, service, loop, takeover, request, used>>

\* Restart recovery tells an interrupted session to go on.
RecoverHead(w) ==
  /\ w \in open /\ queue[w].recovering /\ ~queue[w].paused
  /\ Within(w, [queue[w] EXCEPT !.recovering = FALSE,
                                !.thread = IF @ = "waiting" THEN "running" ELSE @])
  /\ UNCHANGED used

\* The watchdog restarts a companion that stopped answering: the lease of its
\* head is held until the replacement runs, or a while after it registered.
RestartCompanion(w) ==
  /\ loop.pc = "idle" /\ w \in open \ restarting /\ NeedsWindow(w)
  /\ Disturb("hang")
  /\ service' = [service EXCEPT !.protected[w] = IF Active(w) THEN "held" ELSE @]
  /\ restarting' = restarting \cup {w}
  /\ open' = open \ {w}
  /\ Put(w, Halted(queue[w]))
  /\ UNCHANGED <<loop, takeover, request>>

CompanionReplaced(w) ==
  /\ w \in restarting
  /\ restarting' = restarting \ {w}
  /\ Opens(w)
  /\ service' = [service EXCEPT !.protected[w] = IF @ = "held" THEN "grace" ELSE @]
  /\ UNCHANGED <<loop, takeover, request, used>>

\* No replacement registered: the lease stays held.
CompanionMissing(w) ==
  /\ w \in restarting
  /\ restarting' = restarting \ {w}
  /\ UNCHANGED <<queue, open, service, loop, takeover, request, used>>

------------------------------------------------------------------------------
(* What the activity request answers.                                        *)

Missing == [status |-> "missing", session |-> NoSession, active |-> FALSE,
            orphan |-> FALSE, conflict |-> NoWorkspace, identified |-> FALSE]

\* Mutant: an interrupted head counts as orphaned too.
OrphanedInConflict(w) == queue[w].thread = "lost"

Orphaned(w) == queue[w].thread = "lost" /\ ~Conflict(w)

Activity(w, model) ==
  LET q == queue[w] IN
  [status     |-> IF q.thread \in {"running", "waiting", "completed"} THEN q.thread ELSE "idle",
   session    |-> q.session,
   active     |-> Active(w),
   orphan     |-> Orphaned(w),
   conflict   |-> q.conflict,
   identified |-> model = "known"]

\* A running session's identity is looked up once, and a failed lookup is kept.
Identities(w) ==
  IF Orphaned(w) \/ (queue[w].thread = "running" /\ queue[w].model = "unasked")
  THEN {"known", "failed"}
  ELSE IF queue[w].thread = "running" THEN {queue[w].model} ELSE {"unasked"}

\* readModelObservation: o is what the poll of w yields.
Polled(w, o) ==
  \/ /\ w \in open
     /\ \E model \in Identities(w) :
          /\ o = Activity(w, model)
          /\ Put(w, [queue[w] EXCEPT !.model = IF queue[w].thread = "running" THEN model ELSE "unasked"])
          /\ IF model = "failed" /\ queue[w].model # "failed" THEN Disturb("lookup") ELSE UNCHANGED used
  \/ w \notin open /\ o = Missing /\ UNCHANGED <<queue, used>>
  \/ w \in open /\ Disturb("fault") /\ o = Missing /\ UNCHANGED queue

PossibleObservation(w) == {Missing} \cup {Activity(w, m) : m \in {"known", "failed", "unasked"}}

Runs(o) == o.status = "running" /\ o.identified
Seen(o) == o.status # "missing"

\* modelLeaseOccupied
Occupied(o) == o.status = "running" \/ (o.active /\ o.status \in {"completed", "idle"})

------------------------------------------------------------------------------
(* Calls of the service to a window.  When the caller gives up or dies, the  *)
(* window goes on with the request: the call is moved to a line nobody reads *)
(* (one per caller at a time).                                               *)

Callers == {"loop", "takeover"}
Late == [loop |-> "lateLoop", takeover |-> "lateTakeover"]
Lines == {"loop", "takeover", "lateLoop", "lateTakeover"}

NoRequest == [op |-> "none", at |-> NoWorkspace, session |-> NoSession,
              winner |-> NoWorkspace, step |-> "none"]

Call(c, op, w, s, winner) ==
  request' = [request EXCEPT ![c] =
    [op |-> op, at |-> w, session |-> s, winner |-> winner, step |-> "first"]]

NoLoop == [pc |-> "idle", registered |-> {}, unread |-> {}, obs |-> [w \in Workspaces |-> Missing],
           winner |-> NoWorkspace, todo |-> {}, resumed |-> FALSE, index |-> 0]
NoTakeover == [pc |-> "none", target |-> NoWorkspace, session |-> NoSession,
               conflict |-> FALSE, unread |-> {}, losers |-> {}]

LoopGoes(pc) == loop' = [loop EXCEPT !.pc = pc]
TakeoverGoes(pc) == takeover' = [takeover EXCEPT !.pc = pc]

\* Mutant: the list is not searched for the entry.
PreemptedAgain(key, ok) ==
  IF ok THEN [service EXCEPT !.suspended = Append(@, key)]
  ELSE [service EXCEPT !.inFlight = @ \ {key}]

\* preemptModelCompetitor after its await.
Preempted(key, ok) ==
  IF ok THEN [service EXCEPT !.suspended = IF Contains(@, key) THEN @ ELSE Append(@, key)]
  ELSE [service EXCEPT !.inFlight = @ \ {key}]

\* restorePreemptedModelQueue after its await: the index is that of before.
Restored ==
  [service EXCEPT !.suspended = IF loop.index \in DOMAIN @ THEN RemoveAt(@, loop.index) ELSE @,
                  !.owner = Nobody, !.released = "unset"]

LoopAnswered(r, ok) ==
  /\ \/ /\ r.op = "preempt"
        /\ service' = Preempted(<<r.at, r.session>>, ok)
        /\ LoopGoes("preempt")
     \/ r.op = "resume" /\ LoopGoes("bookkeep") /\ UNCHANGED service
     \/ /\ r.op = "relaunch"
        /\ service' = IF ok THEN [service EXCEPT !.owner = <<r.at, r.session>>, !.released = "unset"]
                      ELSE service
        /\ LoopGoes("restore")
     \/ r.op = "restore" /\ ok /\ service' = Restored /\ LoopGoes("bookkeep")
     \/ /\ r.op = "restore" /\ ~ok
        /\ loop' = [loop EXCEPT !.pc = "restoring", !.index = @ - 1]
        /\ UNCHANGED service
  /\ UNCHANGED takeover

TakeoverAnswered(r, ok) ==
  /\ \/ /\ r.op = "resume"
        /\ IF ok THEN TakeoverGoes("target") ELSE takeover' = NoTakeover
        /\ UNCHANGED service
     \/ /\ r.op = "preempt"
        /\ service' = Preempted(<<r.at, r.session>>, ok)
        /\ TakeoverGoes("preempt")
     \/ /\ r.op = "restore"
        /\ service' = IF ok THEN [service EXCEPT !.suspended = RemoveFirst(@, <<r.at, r.session>>)]
                      ELSE service
        /\ takeover' = NoTakeover
  /\ UNCHANGED loop

Heard(c, ok) ==
  CASE c = "loop"     -> LoopAnswered(request[c], ok)
    [] c = "takeover" -> TakeoverAnswered(request[c], ok)
    [] OTHER          -> UNCHANGED <<service, loop, takeover>>

Ends(c, ok) == request' = [request EXCEPT ![c] = NoRequest] /\ Heard(c, ok)

Continues(c, step) ==
  /\ request' = [request EXCEPT ![c].step = step]
  /\ UNCHANGED <<service, loop, takeover>>

TimesOut(c) ==
  /\ request[c] # NoRequest /\ request[Late[c]] = NoRequest
  /\ Disturb("fault")
  /\ request' = [request EXCEPT ![c] = NoRequest, ![Late[c]] = request[c]]
  /\ Heard(c, FALSE)
  /\ UNCHANGED windows

------------------------------------------------------------------------------
(* A window's server.                                                        *)

Serving(c, op, step) ==
  /\ request[c].op = op /\ request[c].step = step /\ request[c].at \in open
  /\ UNCHANGED <<open, restarting>>

Unreachable(c) ==
  /\ request[c].op # "none" /\ request[c].at \notin open
  /\ Ends(c, FALSE)
  /\ UNCHANGED <<windows, used>>

\* preemptQueueTask: only the exact running session, ...
PreemptChecks(c) ==
  LET q == queue[request[c].at] IN
  /\ Serving(c, "preempt", "first")
  /\ IF q.thread = "running" /\ q.session = request[c].session
     THEN Continues(c, "pause") ELSE Ends(c, FALSE)
  /\ UNCHANGED <<queue, used>>

\* ... pauseForModelConflict, ...
PreemptPauses(c) ==
  LET w == request[c].at
      q == queue[w] IN
  /\ Serving(c, "preempt", "pause")
  /\ IF q.session = request[c].session
     THEN /\ Put(w, [q EXCEPT !.paused = TRUE, !.conflict = request[c].winner])
          /\ Continues(c, "interrupt")
     ELSE Ends(c, FALSE) /\ UNCHANGED queue
  /\ UNCHANGED used

\* ... and the interruption of whatever thread is in front.
PreemptInterrupts(c) ==
  LET w == request[c].at IN
  /\ Serving(c, "preempt", "interrupt")
  /\ \/ /\ Put(w, [queue[w] EXCEPT !.thread = IF @ = "running" THEN "waiting" ELSE @])
        /\ Ends(c, TRUE)
        /\ UNCHANGED used
     \/ Disturb("fault") /\ Ends(c, FALSE) /\ UNCHANGED queue

\* resumePreemptedQueueTask: the exact interrupted head is told to go on, ...
RestoreSends(c) ==
  LET w == request[c].at
      q == queue[w]
      exact == q.session = request[c].session /\ Conflict(w) IN
  /\ Serving(c, "restore", "first")
  /\ \/ /\ exact /\ q.thread # "lost"
        /\ Put(w, [q EXCEPT !.thread = "running"])
        /\ Continues(c, "clear")
        /\ UNCHANGED used
     \/ /\ ~exact \/ q.thread = "lost"
        /\ Ends(c, FALSE)
        /\ UNCHANGED <<queue, used>>
     \/ exact /\ Disturb("fault") /\ Ends(c, FALSE) /\ UNCHANGED queue

\* ... and then the conflict and the pause are cleared.
RestoreClears(c) ==
  LET w == request[c].at
      q == queue[w] IN
  /\ Serving(c, "restore", "clear")
  /\ Put(w, [q EXCEPT !.paused = FALSE,
                      !.conflict = IF q.session = request[c].session THEN NoWorkspace ELSE @])
  /\ Ends(c, TRUE)
  /\ UNCHANGED used

\* resumeQueue: the pause is lifted, the conflict stays, ...
ResumeUnpauses(c) ==
  LET w == request[c].at IN
  /\ Serving(c, "resume", "first")
  /\ Put(w, [queue[w] EXCEPT !.paused = FALSE])
  /\ Continues(c, "send")
  /\ UNCHANGED used

\* ... and a waiting head is told to go on; a failure is only logged.
ResumeSends(c) ==
  LET w == request[c].at IN
  /\ Serving(c, "resume", "send")
  /\ \/ Put(w, [queue[w] EXCEPT !.thread = IF @ = "waiting" THEN "running" ELSE @])
     \/ queue[w].thread = "waiting" /\ UNCHANGED queue
  /\ Ends(c, TRUE)
  /\ UNCHANGED used

\* relaunchQueue: the head starts over in a new session, or Cline fails to.
Relaunches(c) ==
  LET w == request[c].at
      q == [queue[w] EXCEPT !.paused = FALSE] IN
  /\ Serving(c, "relaunch", "first")
  /\ \/ /\ Put(w, IF Active(w) THEN [Started(q) EXCEPT !.conflict = NoWorkspace] ELSE q)
        /\ Ends(c, TRUE)
     \/ Active(w) /\ Put(w, q) /\ Ends(c, FALSE)
  /\ UNCHANGED used

ServerStep(c) ==
  \/ Unreachable(c)
  \/ PreemptChecks(c) \/ PreemptPauses(c) \/ PreemptInterrupts(c)
  \/ RestoreSends(c) \/ RestoreClears(c)
  \/ ResumeUnpauses(c) \/ ResumeSends(c)
  \/ Relaunches(c)

------------------------------------------------------------------------------
(* arbitrateLmStudioQueues                                                   *)

LoopAt(pc) == loop.pc = pc /\ UNCHANGED <<windows, takeover, used>>

\* Who runs on the model, and whose head has lost its session.
Group == {w \in Workspaces : Runs(loop.obs[w])}
Orphans == {w \in Workspaces : loop.obs[w].orphan /\ loop.obs[w].identified}

\* Mutant: a companion that was not observed is not protected.
ProtectsSeen(w) == protected[w] # "none" /\ loop.obs[w].status \notin {"running", "missing"}

\* restartLeaseActive, by what the cycle observed
Protects(w) == protected[w] # "none" /\ loop.obs[w].status # "running"
OwnerProtected == \E w \in Workspaces : owner[1] = w /\ Protects(w)

LoopStarts ==
  /\ LoopAt("idle")
  /\ loop' = [NoLoop EXCEPT !.pc = "poll", !.registered = open, !.unread = open]
  /\ UNCHANGED <<service, request>>

LoopPolls ==
  /\ loop.pc = "poll"
  /\ \E w \in loop.unread : \E o \in PossibleObservation(w) :
       /\ Polled(w, o)
       /\ loop' = [loop EXCEPT !.unread = @ \ {w}, !.obs[w] = o]
  /\ UNCHANGED <<open, restarting, service, takeover, request>>

\* Mutant: only the service's own preemptions are known.
OwnOnly == {suspended}

\* Preemptions the service does not know of are taken from the queues.
Recovered ==
  LET entries == {<<w, loop.obs[w].session>> : w \in {v \in Workspaces : loop.obs[v].conflict # NoWorkspace}}
  IN {suspended \o unknown : unknown \in SetToSeqs(entries \ ToSet(suspended))}

\* selectModelQueueWinner; which of several was written last is not kept.
Winners ==
  LET transitioned == {w \in Group : previous[w] # loop.obs[w].session}
      retained == {w \in Group : owner = <<w, loop.obs[w].session>>}
  IN IF service.preferred \in Group THEN {service.preferred}
     ELSE IF transitioned # {} THEN transitioned
     ELSE IF retained # {} THEN retained
     ELSE Group

LoopArbitrates ==
  /\ LoopAt("poll") /\ loop.unread = {}
  /\ \E known \in Recovered :
       LET s == [service EXCEPT
                   !.suspended = known,
                   !.protected = [w \in Workspaces |-> IF Protects(w) THEN @[w] ELSE "none"]]
       IN \/ /\ Group = {}
             /\ service' = s
             /\ LoopGoes(IF Orphans = {} THEN "restore" ELSE "orphans")
          \/ /\ Group # {} /\ OwnerProtected
             /\ service' = [s EXCEPT !.released = "unset"]
             /\ LoopGoes("bookkeep")
          \/ /\ Group # {} /\ ~OwnerProtected
             /\ \E w \in Winners :
                  /\ service' = [s EXCEPT !.released = "unset", !.owner = <<w, loop.obs[w].session>>]
                  /\ loop' = [loop EXCEPT !.pc = "preempt", !.winner = w, !.todo = Group \ {w},
                                !.resumed = w \in service.observed /\ previous[w] # loop.obs[w].session]
  /\ UNCHANGED request

LoopPreempts ==
  /\ LoopAt("preempt")
  /\ \E w \in loop.todo :
       LET key == <<w, loop.obs[w].session>> IN
       IF key \in inFlight
       THEN loop' = [loop EXCEPT !.todo = @ \ {w}] /\ UNCHANGED <<service, request>>
       ELSE /\ Call("loop", "preempt", w, key[2], loop.winner)
            /\ service' = [service EXCEPT !.inFlight = @ \cup {key}]
            /\ loop' = [loop EXCEPT !.pc = "call", !.todo = @ \ {w}]

\* A head the user resumed in Cline gets its queue resumed as well.
LoopResumesWinner ==
  /\ LoopAt("preempt") /\ loop.todo = {}
  /\ IF loop.resumed
     THEN Call("loop", "resume", loop.winner, NoSession, NoWorkspace) /\ LoopGoes("call")
     ELSE LoopGoes("bookkeep") /\ UNCHANGED request
  /\ UNCHANGED service

\* selectOrphanedModelQueue
Candidates ==
  LET retained == {w \in Orphans : owner = <<w, loop.obs[w].session>>}
  IN IF retained # {} THEN retained ELSE Orphans

Competes(w) == \E v \in Workspaces \ {w} : loop.obs[v].identified /\ Occupied(loop.obs[v])

LoopOrphans ==
  /\ LoopAt("orphans")
  /\ \E w \in Candidates :
       \/ /\ Competes(w) \/ Protects(w) \/ released = "delay"
          /\ LoopGoes("restore") /\ UNCHANGED <<service, request>>
       \/ /\ ~Competes(w) /\ ~Protects(w) /\ released = "unset"
          /\ service' = [service EXCEPT !.released = "delay"]
          /\ LoopGoes("restore") /\ UNCHANGED request
       \/ /\ ~Competes(w) /\ ~Protects(w) /\ released = "ready"
          /\ Call("loop", "relaunch", w, loop.obs[w].session, NoWorkspace)
          /\ LoopGoes("call") /\ UNCHANGED service

\* The workspace whose release is waited for.
Awaited ==
  IF owner # Nobody THEN owner[1]
  ELSE IF suspended = <<>> THEN NoWorkspace
  ELSE loop.obs[Last(suspended)[1]].conflict

Free(w) == w \in Workspaces /\ Seen(loop.obs[w]) /\ ~Occupied(loop.obs[w])

LoopRestores ==
  /\ LoopAt("restore")
  /\ \/ /\ OwnerProtected
        /\ service' = [service EXCEPT !.released = "unset"] /\ LoopGoes("bookkeep")
     \/ /\ ~OwnerProtected /\ ~Free(Awaited)
        /\ UNCHANGED service /\ LoopGoes("bookkeep")
     \/ /\ ~OwnerProtected /\ Free(Awaited) /\ released # "ready"
        /\ service' = [service EXCEPT !.released = "delay"] /\ LoopGoes("bookkeep")
     \/ /\ ~OwnerProtected /\ Free(Awaited) /\ released = "ready"
        /\ loop' = [loop EXCEPT !.pc = "restoring", !.index = Len(suspended)] /\ UNCHANGED service
  /\ UNCHANGED request

\* restorePreemptedModelQueue: the latest first, those not registered skipped.
LoopTries ==
  /\ LoopAt("restoring")
  /\ LET i == IF loop.index > Len(suspended) THEN Len(suspended) ELSE loop.index IN
     \/ /\ i = 0
        /\ service' = IF suspended = <<>> THEN [service EXCEPT !.owner = Nobody, !.released = "unset"]
                      ELSE IF owner = Nobody THEN [service EXCEPT !.released = "unset"]
                      ELSE service
        /\ LoopGoes("bookkeep") /\ UNCHANGED request
     \/ /\ i > 0 /\ suspended[i][1] \notin loop.registered
        /\ loop' = [loop EXCEPT !.index = i - 1] /\ UNCHANGED <<service, request>>
     \/ /\ i > 0 /\ suspended[i][1] \in loop.registered
        /\ Call("loop", "restore", suspended[i][1], suspended[i][2], NoWorkspace)
        /\ loop' = [loop EXCEPT !.pc = "call", !.index = i] /\ UNCHANGED service

Noted ==
  [service EXCEPT
     !.inFlight = {k \in @ : k[1] \in Group /\ loop.obs[k[1]].session = k[2]},
     !.previous = [w \in Workspaces |->
        IF ~Seen(loop.obs[w]) THEN @[w]
        ELSE IF loop.obs[w].status = "running" THEN loop.obs[w].session ELSE NoSession],
     !.observed = @ \cup {w \in Workspaces : Seen(loop.obs[w])}]

\* Mutant: preemptions stay in flight.
LoopEndsInFlight ==
  /\ LoopAt("bookkeep")
  /\ service' = [Noted EXCEPT !.inFlight = inFlight]
  /\ loop' = NoLoop
  /\ UNCHANGED request

\* updatePreviousRunningSessions and the rest of the end of the cycle.
LoopEnds ==
  /\ LoopAt("bookkeep")
  /\ service' = Noted
  /\ loop' = NoLoop
  /\ UNCHANGED request

LoopStep ==
  \/ LoopStarts \/ LoopPolls \/ LoopArbitrates \/ LoopPreempts \/ LoopResumesWinner
  \/ LoopOrphans \/ LoopRestores \/ LoopTries \/ LoopEnds

------------------------------------------------------------------------------
(* An explicit queue resume: route() and preferResumedWorkspace.             *)

TakeoverStarts(w) ==
  /\ takeover.pc = "none" /\ w \in open
  /\ Disturb("takeover")
  /\ Call("takeover", "resume", w, NoSession, NoWorkspace)
  /\ takeover' = [NoTakeover EXCEPT !.pc = "call", !.target = w]
  /\ UNCHANGED <<windows, service, loop>>

TakeoverReadsTarget ==
  /\ takeover.pc = "target"
  /\ \E o \in PossibleObservation(takeover.target) :
       /\ Polled(takeover.target, o)
       /\ IF o.identified \/ o.conflict # NoWorkspace
          THEN /\ service' = [service EXCEPT !.preferred = takeover.target]
               /\ takeover' = [takeover EXCEPT !.pc = "poll", !.session = o.session,
                                 !.conflict = o.conflict # NoWorkspace,
                                 !.unread = open \ {takeover.target}]
          ELSE takeover' = NoTakeover /\ UNCHANGED service
  /\ UNCHANGED <<open, restarting, loop, request>>

TakeoverPolls ==
  /\ takeover.pc = "poll"
  /\ IF takeover.unread = {} THEN TakeoverGoes("preempt") /\ UNCHANGED <<queue, used>>
     ELSE \E w \in takeover.unread : \E o \in PossibleObservation(w) :
       /\ Polled(w, o)
       /\ takeover' = [takeover EXCEPT !.unread = @ \ {w},
            !.losers = IF Runs(o) THEN @ \cup {<<w, o.session>>} ELSE @]
  /\ UNCHANGED <<open, restarting, service, loop, request>>

TakeoverPreempts ==
  /\ takeover.pc = "preempt"
  /\ \E key \in takeover.losers :
       IF key \in inFlight
       THEN takeover' = [takeover EXCEPT !.losers = @ \ {key}] /\ UNCHANGED <<service, request>>
       ELSE /\ Call("takeover", "preempt", key[1], key[2], takeover.target)
            /\ service' = [service EXCEPT !.inFlight = @ \cup {key}]
            /\ takeover' = [takeover EXCEPT !.pc = "call", !.losers = @ \ {key}]
  /\ UNCHANGED <<windows, loop, used>>

\* After the delay, a head that was interrupted is told to go on.
TakeoverRestores ==
  /\ takeover.pc = "preempt" /\ takeover.losers = {}
  /\ IF takeover.conflict
     THEN /\ Call("takeover", "restore", takeover.target, takeover.session, NoWorkspace)
          /\ TakeoverGoes("call")
     ELSE takeover' = NoTakeover /\ UNCHANGED request
  /\ UNCHANGED <<windows, service, loop, used>>

TakeoverStep ==
  TakeoverReadsTarget \/ TakeoverPolls \/ TakeoverPreempts \/ TakeoverRestores

------------------------------------------------------------------------------
(* The clock, and the service's death: its memory is gone, the requests are  *)
(* still served.                                                             *)

Elapses(s) == service' = s /\ UNCHANGED <<windows, loop, takeover, request, used>>

DelayPasses == released = "delay" /\ Elapses([service EXCEPT !.released = "ready"])
PreferencePasses == service.preferred # NoWorkspace /\ Elapses([service EXCEPT !.preferred = NoWorkspace])
GracePasses(w) == protected[w] = "grace" /\ Elapses([service EXCEPT !.protected[w] = "none"])

Crash ==
  /\ Disturb("crash")
  /\ \A c \in Callers : request[Late[c]] = NoRequest
  /\ service' = Forgotten /\ restarting' = {}
  /\ loop' = NoLoop /\ takeover' = NoTakeover
  /\ request' = [loop |-> NoRequest, takeover |-> NoRequest,
                 lateLoop |-> request["loop"], lateTakeover |-> request["takeover"]]
  /\ UNCHANGED <<queue, open>>

Init ==
  /\ queue = [w \in Workspaces |->
       [left |-> Tasks[w], session |-> NoSession, started |-> 0, thread |-> "none", paused |-> FALSE,
        conflict |-> NoWorkspace, recovering |-> FALSE, model |-> "unasked"]]
  /\ open = Workspaces /\ restarting = {}
  /\ service = Forgotten
  /\ loop = NoLoop /\ takeover = NoTakeover
  /\ request = [c \in Lines |-> NoRequest]
  /\ used = 0

Next ==
  \/ \E w \in Workspaces :
       \/ Dispatch(w) \/ Claim(w) \/ Advance(w) \/ UserAct(w) \/ Close(w) \/ Reopen(w)
       \/ RecoverHead(w) \/ RestartCompanion(w) \/ CompanionReplaced(w) \/ CompanionMissing(w)
       \/ GracePasses(w) \/ TakeoverStarts(w)
  \/ (\E c \in Lines : ServerStep(c)) \/ (\E c \in Callers : TimesOut(c))
  \/ LoopStep \/ TakeoverStep
  \/ DelayPasses \/ PreferencePasses \/ Crash

Spec == Init /\ [][Next]_vars

\* Windows, service, requests and timers go on by themselves; what Cline, the
\* user and the disturbances do is not fair.
Fairness ==
  /\ \A w \in Workspaces :
       /\ WF_vars(Dispatch(w)) /\ WF_vars(Advance(w)) /\ WF_vars(RecoverHead(w))
       /\ WF_vars(Reopen(w)) /\ WF_vars(CompanionReplaced(w) \/ CompanionMissing(w))
       /\ WF_vars(GracePasses(w))
  /\ \A c \in Lines : WF_vars(ServerStep(c))
  /\ WF_vars(LoopStep) /\ WF_vars(TakeoverStep)
  /\ WF_vars(DelayPasses) /\ WF_vars(PreferencePasses)

FairSpec == Spec /\ Fairness

------------------------------------------------------------------------------
WorkspaceOrNone == Workspaces \cup {NoWorkspace}
Key == (Workspaces \X Nat) \cup {Nobody}
Observation ==
  [status : {"missing", "idle", "running", "waiting", "completed"}, session : Nat, active : BOOLEAN,
   orphan : BOOLEAN, conflict : WorkspaceOrNone, identified : BOOLEAN]

\* Every variable has its type, the suspended queues are listed once each, and
\* the service reads an answer only while it waits for one.
TypeOK ==
  /\ queue \in [Workspaces ->
       [left : Nat, session : Nat, started : Nat,
        thread : {"none", "running", "waiting", "completed", "lost"}, paused : BOOLEAN,
        conflict : WorkspaceOrNone, recovering : BOOLEAN, model : {"unasked", "known", "failed"}]]
  /\ open \subseteq Workspaces /\ restarting \subseteq Workspaces \ open
  /\ owner \in Key /\ previous \in [Workspaces -> Nat] /\ service.observed \subseteq Workspaces
  /\ inFlight \subseteq Key /\ suspended \in Seq(Key) /\ IsInjective(suspended)
  /\ released \in {"unset", "delay", "ready"} /\ service.preferred \in WorkspaceOrNone
  /\ protected \in [Workspaces -> {"none", "held", "grace"}]
  /\ loop.obs \in [Workspaces -> Observation] /\ loop.unread \subseteq loop.registered
  /\ takeover.target \in WorkspaceOrNone /\ takeover.losers \subseteq Key
  /\ \A c \in Lines : request[c].at \in WorkspaceOrNone
  /\ loop.pc = "call" <=> request["loop"] # NoRequest
  /\ takeover.pc = "call" <=> request["takeover"] # NoRequest
  /\ used \in 0..MaxDisturbances

\* An interrupted head is given back in its own thread or ends there: what the
\* service does replaces its session while the conflict stands only when two
\* disturbances meet, as when a thread is deleted under a preemption that has
\* passed its check and is overtaken by the relaunch of the orphan.
SameThread ==
  [][\A w \in Workspaces : Conflict(w) /\ queue'[w].session # queue[w].session =>
       queue[w].thread = "completed" \/ used > 1]_vars

\* While the watchdog replaces the companion of the queue that owns the model,
\* neither a competitor nor the restoration of a suspended queue takes it away.
\* The service's death, which forgets the lease, and the relaunch of an orphaned
\* queue, which only looks at the orphan's own lease, are excepted.
LeaseKept ==
  [][\A w \in restarting :
       owner[1] = w /\ Active(w) /\ request["loop"].op # "relaunch" /\ service' # Forgotten =>
       owner' = owner]_vars

\* A queue suspended for another one is given the model back, through failing
\* and late requests and a restart of the service, if every thread that runs
\* ends and its own window stays open.
PreemptedRestored ==
  (\A w \in Workspaces : WF_vars(Claim(w))) =>
  \A w \in Workspaces : Conflict(w) /\ w \in open ~> ~Conflict(w) \/ w \notin open

RunningOpen == {w \in Workspaces : queue[w].thread = "running" /\ w \in open}

\* A queue that runs although the service has it on record as suspended is not
\* interrupted a second time: its key is still among those in flight.
OnRecord(w) == LET key == <<w, queue[w].session>> IN key \in inFlight /\ key \in ToSet(suspended)

\* Two queues do not go on running on one model, whether or not their threads
\* ever end, unless one of them is on record as suspended.
OneRuns ==
  (\E v, w \in RunningOpen : v # w) ~>
  ((\A v, w \in RunningOpen : v = w) \/ \E w \in RunningOpen : OnRecord(w))
=============================================================================
