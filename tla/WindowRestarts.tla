--------------------------- MODULE WindowRestarts ---------------------------
(***************************************************************************)
(* Who ends the extension host of a workspace and who brings it back: the  *)
(* restart requests the queue writes (src/service/restart_request.ts), the *)
(* window watchdog and the companion recovery of the service (src/service/ *)
(* daemon.ts), the client's own restart (src/client/ipc_client.ts), and    *)
(* restartExtension of src/extension/hangup_detector.ts, which they share. *)
(*                                                                         *)
(* One workspace, whose queue is active throughout.  Its hosts are         *)
(* numbered, and at most the newest is alive: VS Code opens a folder once. *)
(* The leases a restart takes on the model are those of ModelArbiter.      *)
(* Delays are nondeterministic, but for what a comment says of one.        *)
(***************************************************************************)
EXTENDS Naturals

CONSTANTS
  Requests,        \* restart request files, each with an identifier of its own
  NoRequest,
  MinFailures,     \* UNRESPONSIVE_COMPANION_FAILURES
  Disturbances,    \* which of Kinds happen
  MaxDisturbances  \* bound: how many of them

Kinds == {"busy",    \* a host's event loop is blocked
          "close",   \* a host dies, or the user closes its window
          "open",    \* somebody else opens the workspace
          "lost",    \* VS Code is started and no host registers
          "crash",   \* the service dies, or systemd kills it
          "second",  \* `service run` beside the running service
          "client"}  \* a client's request times out

ASSUME RestartsAssumption ==
  /\ NoRequest \notin Requests
  /\ MinFailures \in Nat \ {0}
  /\ Disturbances \subseteq Kinds /\ MaxDisturbances \in Nat

VARIABLES
  host,         \* the newest host: its pid, its state, whether it was signalled,
                \* and how many polls in a row found its backlog full
  registration, \* the pid in the registration file, 0 when there is no file
  removing,     \* somebody found a dead process in it and is about to remove it
  launches,     \* `code` processes that have had no effect yet
  file,         \* the state of each request's file
  old,          \* claims whose file is older than their lease, 30 s
  service,      \* what the service does and remembers
  job,          \* restartExtension, for each of its callers
  signalled,    \* how often each request had a host signalled
  interrupted,  \* how often claims were put back or left by another service
  used          \* how many disturbances there were

files == <<file, old>>
world == <<host, registration, removing, launches>>
counts == <<signalled, interrupted, used>>
vars == <<world, files, service, job, counts>>

Callers == {"request", "companion", "client"}
NoJob == [pc |-> "idle", pid |-> 0]

Disturb(kind) ==
  /\ kind \in Disturbances /\ used < MaxDisturbances
  /\ used' = used + 1

\* processExists
Exists(pid) == pid = host.pid /\ host.state # "dead"

\* loadRegistrations passes over the file of a dead process.
Registered == IF Exists(registration) THEN registration ELSE 0

NewHost(pid) == [pid |-> pid, state |-> "up", signalled |-> FALSE, streak |-> 0]

\* The service as it starts: nothing it remembered survives.
Fresh ==
  [pc |-> "idle", todo |-> {}, request |-> NoRequest,
   failure |-> [pid |-> 0, count |-> 0], cooling |-> FALSE,
   missing |-> "unset", attempted |-> FALSE, opening |-> FALSE]

Init ==
  /\ host = NewHost(1) /\ registration = 1 /\ removing = FALSE /\ launches = 0
  /\ file = [r \in Requests |-> "unwritten"] /\ old = {}
  /\ service = Fresh
  /\ job = [c \in Callers |-> NoJob]
  /\ signalled = [r \in Requests |-> 0] /\ interrupted = 0 /\ used = 0

------------------------------------------------------------------------------
(* The hosts, and VS Code.                                                   *)

\* The queue of a host that answers had a failure in YOLO mode.
WritesRequest(r) ==
  /\ host.state = "up" /\ file[r] = "unwritten"
  /\ file' = [file EXCEPT ![r] = "written"]
  /\ UNCHANGED <<world, old, service, job, counts>>

\* Blocked long enough, the backlog of a host's socket fills up; it may recover.
HostChanges ==
  /\ \/ /\ host.state = "up" /\ Disturb("busy")
        /\ host' = [host EXCEPT !.state = "busy"]
     \/ /\ host.state = "busy" /\ UNCHANGED used
        /\ \E state \in {"up", "full"} : host' = [host EXCEPT !.state = state]
     \/ /\ host.state = "full" /\ UNCHANGED used
        /\ host' = [host EXCEPT !.state = "up"]
  /\ UNCHANGED <<registration, removing, launches, files, service, job, signalled, interrupted>>

\* A deactivated host takes its registration with it, a killed one does not.
Dies ==
  /\ host' = [host EXCEPT !.state = "dead"]
  /\ registration' \in {registration, 0}

HostCloses ==
  /\ host.state # "dead" /\ Disturb("close")
  /\ Dies
  /\ UNCHANGED <<removing, launches, files, service, job, signalled, interrupted>>

HostTerminates ==
  /\ host.state # "dead" /\ host.signalled
  /\ Dies
  /\ UNCHANGED <<removing, launches, files, service, job, counts>>

\* A workspace that is open already is only shown.
LaunchTakesEffect ==
  /\ launches > 0 /\ launches' = launches - 1
  /\ \/ host.state # "dead" /\ UNCHANGED <<host, registration, used>>
     \/ /\ host.state = "dead"
        /\ host' = NewHost(host.pid + 1) /\ registration' = host.pid + 1
        /\ UNCHANGED used
     \/ host.state = "dead" /\ Disturb("lost") /\ UNCHANGED <<host, registration>>
  /\ UNCHANGED <<removing, files, service, job, signalled, interrupted>>

\* The user, or route() for a command that needs the window.
OtherOpens ==
  /\ Registered = 0 /\ Disturb("open")
  /\ launches' = launches + 1
  /\ UNCHANGED <<host, registration, removing, files, service, job, signalled, interrupted>>

\* The lease of a claim runs from the writing of the request: a claim may be old at
\* once.
ClaimAges(r) ==
  /\ file[r] = "claimed" /\ r \notin old
  /\ old' = old \cup {r}
  /\ UNCHANGED <<world, file, service, job, counts>>

\* loadRegistrations, in the service or in a client, removes what it read, whosever
\* registration is there by then.
FindsDead ==
  /\ registration # 0 /\ ~Exists(registration) /\ ~removing
  /\ removing' = TRUE
  /\ UNCHANGED <<host, registration, launches, files, service, job, counts>>

Removes ==
  /\ removing
  /\ registration' = 0 /\ removing' = FALSE
  /\ UNCHANGED <<host, launches, files, service, job, counts>>

------------------------------------------------------------------------------
(* restartExtension, in the service or in a client.                          *)

Caller(c, pid) == [job EXCEPT ![c] = [pc |-> "signal", pid |-> pid]]
Goes(c, pc) == job' = [job EXCEPT ![c].pc = pc]

\* What the caller does with the outcome: the request's claim is released in the
\* loop, a recovered companion is no longer counted as failing.
JobEnds(c, ok) ==
  /\ job' = [job EXCEPT ![c] = NoJob]
  /\ service' =
       CASE c = "request" -> [service EXCEPT !.pc = "release"]
         [] c = "companion" /\ ok -> [service EXCEPT !.failure = Fresh.failure]
         [] OTHER -> service

Signals(c) ==
  /\ job[c].pc = "signal"
  /\ IF Exists(job[c].pid)
     THEN /\ host' = [host EXCEPT !.signalled = TRUE]
          /\ Goes(c, "exit")
          /\ signalled' = IF c = "request" THEN [signalled EXCEPT ![service.request] = @ + 1]
                          ELSE signalled
          /\ UNCHANGED service
     ELSE JobEnds(c, FALSE) /\ UNCHANGED <<host, signalled>>
  /\ UNCHANGED <<registration, removing, launches, files, interrupted, used>>

\* Three seconds after SIGTERM.
Escalates(c) ==
  /\ job[c].pc = "exit" /\ Exists(job[c].pid)
  /\ host' = [host EXCEPT !.state = "dead"]
  /\ UNCHANGED <<registration, removing, launches, files, service, job, counts>>

Launches(c) ==
  /\ job[c].pc = "exit" /\ ~Exists(job[c].pid)
  /\ launches' = launches + 1
  /\ Goes(c, "replacement")
  /\ UNCHANGED <<host, registration, removing, files, service, counts>>

\* waitForReplacementRegistration: any other live pid will do.
FindsReplacement(c) ==
  /\ job[c].pc = "replacement"
  /\ Exists(registration) /\ registration # job[c].pid
  /\ JobEnds(c, TRUE)
  /\ UNCHANGED <<world, files, counts>>

GivesUp(c) ==
  /\ job[c].pc = "replacement"
  /\ JobEnds(c, FALSE)
  /\ UNCHANGED <<world, files, counts>>

JobSteps(c) ==
  Signals(c) \/ Escalates(c) \/ Launches(c) \/ FindsReplacement(c) \/ GivesUp(c)

\* invoke: two pings fail, whatever the host is busy with.
ClientTimesOut ==
  /\ job["client"] = NoJob /\ Registered # 0
  /\ host.state \in {"busy", "full"}
  /\ Disturb("client")
  /\ job' = Caller("client", registration)
  /\ UNCHANGED <<world, files, service, signalled, interrupted>>

------------------------------------------------------------------------------
(* The service: one loop, with restarts and openings beside it.              *)

Loop(pc) == service.pc = pc

LoopStarts ==
  /\ Loop("idle")
  /\ service' = [service EXCEPT !.pc = "requests",
                                !.todo = {r \in Requests : file[r] = "written"}]
  /\ UNCHANGED <<world, files, job, counts>>

\* Mutant: the file is read where it is.
ClaimsInPlace ==
  /\ Loop("requests")
  /\ \E r \in service.todo :
       service' = [service EXCEPT !.pc = "claimed", !.request = r, !.todo = @ \ {r}]
  /\ UNCHANGED <<world, files, job, counts>>

\* Nobody else claims: a file that was listed is still there.
Claims ==
  /\ Loop("requests")
  /\ \E r \in service.todo :
       /\ file' = [file EXCEPT ![r] = "claimed"]
       /\ service' = [service EXCEPT !.pc = "claimed", !.request = r, !.todo = @ \ {r}]
  /\ UNCHANGED <<world, old, job, counts>>

\* The registration and the process it names.
ReadsTarget ==
  /\ Loop("claimed")
  /\ IF Exists(registration)
     THEN /\ job' = Caller("request", registration)
          /\ service' = [service EXCEPT !.pc = "restart"]
     ELSE service' = [service EXCEPT !.pc = "release"] /\ UNCHANGED job
  /\ UNCHANGED <<world, files, counts>>

\* Mutant: only a restart that was made removes its claim.
ReleasesMade ==
  /\ Loop("release")
  /\ service' = [service EXCEPT !.pc = "requests", !.request = NoRequest]
  /\ IF signalled[service.request] > 0 /\ file[service.request] = "claimed"
     THEN file' = [file EXCEPT ![service.request] = "done"]
     ELSE UNCHANGED file
  /\ old' = old \ {service.request}
  /\ UNCHANGED <<world, job, counts>>

\* Whatever came of it, the claim is removed, if it is still there.
Releases ==
  /\ Loop("release")
  /\ service' = [service EXCEPT !.pc = "requests", !.request = NoRequest]
  /\ IF file[service.request] = "claimed"
     THEN file' = [file EXCEPT ![service.request] = "done"]
     ELSE UNCHANGED file
  /\ old' = old \ {service.request}
  /\ UNCHANGED <<world, job, counts>>

\* Mutant: the failures of its predecessor count against a new host.
CountedForAnyPid ==
  [pid |-> registration,
   count |-> IF service.failure.count < MinFailures THEN service.failure.count + 1
             ELSE MinFailures]

\* nextCompanionFailure, counted no further than it is compared.
Counted ==
  [pid |-> registration,
   count |-> IF service.failure.pid # registration THEN 1
             ELSE IF service.failure.count < MinFailures THEN service.failure.count + 1
             ELSE MinFailures]

\* readModelObservation: only a full backlog counts, and a time-out clears the count.
Polls ==
  /\ Loop("requests") /\ service.todo = {}
  /\ IF Registered # 0 /\ host.state = "full"
     THEN /\ service' = [service EXCEPT !.pc = "watch", !.failure = Counted]
          /\ host' = [host EXCEPT !.streak = IF @ < MinFailures THEN @ + 1 ELSE @]
     ELSE /\ service' = [service EXCEPT
                           !.pc = "watch",
                           !.failure = IF Registered = 0 THEN @ ELSE Fresh.failure]
          /\ host' = [host EXCEPT !.streak = 0]
  /\ UNCHANGED <<registration, removing, launches, files, job, counts>>

\* detectUnexpectedlyClosedWorkspaces: missing for a while, not being opened, and no
\* attempt within the cooldown.
Watches ==
  /\ Loop("watch")
  /\ \/ /\ Registered # 0
        /\ service' = [service EXCEPT !.pc = "recover", !.missing = "unset",
                                      !.attempted = FALSE]
        /\ UNCHANGED launches
     \/ /\ Registered = 0 /\ service.missing = "unset"
        /\ service' = [service EXCEPT !.pc = "recover", !.missing = "recent"]
        /\ UNCHANGED launches
     \/ /\ Registered = 0 /\ service.missing # "unset"
        /\ service.missing = "recent" \/ service.opening \/ service.attempted
        /\ service' = [service EXCEPT !.pc = "recover"]
        /\ UNCHANGED launches
     \/ /\ Registered = 0 /\ service.missing = "ripe"
        /\ ~service.opening /\ ~service.attempted
        /\ service' = [service EXCEPT !.pc = "recover", !.attempted = TRUE, !.opening = TRUE]
        /\ launches' = launches + 1
  /\ UNCHANGED <<host, registration, removing, files, job, counts>>

\* companionRecoveryReady, for the host whose failures were counted; the time they
\* must have lasted may not have passed.
CompanionFails ==
  /\ Registered # 0 /\ service.failure = [pid |-> registration, count |-> MinFailures]
  /\ job["companion"] = NoJob /\ ~service.cooling

RecoversCompanion ==
  /\ Loop("recover")
  /\ \/ /\ CompanionFails
        /\ job' = Caller("companion", registration)
        /\ service' = [service EXCEPT !.pc = "idle", !.cooling = TRUE]
     \/ service' = [service EXCEPT !.pc = "idle"] /\ UNCHANGED job
  /\ UNCHANGED <<world, files, counts>>

LoopSteps == LoopStarts \/ Claims \/ ReadsTarget \/ Releases \/ Polls \/ Watches \/ RecoversCompanion

\* Mutant: an opening that fails stays in flight.
OpeningSucceeds ==
  /\ service.opening /\ Exists(registration)
  /\ service' = [service EXCEPT !.opening = FALSE]
  /\ UNCHANGED <<world, files, job, counts>>

\* openWorkspaceWindow sees a live registration, or gives up.
OpeningEnds ==
  /\ service.opening
  /\ service' = [service EXCEPT !.opening = FALSE]
  /\ UNCHANGED <<world, files, job, counts>>

GracePasses ==
  /\ service.missing = "recent"
  /\ service' = [service EXCEPT !.missing = "ripe"]
  /\ UNCHANGED <<world, files, job, counts>>

\* The cooldown of a minute outlasts the 45 s of an opening, and `code` takes effect
\* or fails within it.
CooldownPasses ==
  /\ service.attempted /\ ~service.opening /\ launches = 0
  /\ service' = [service EXCEPT !.attempted = FALSE]
  /\ UNCHANGED <<world, files, job, counts>>

CompanionCooldownPasses ==
  /\ service.cooling
  /\ service' = [service EXCEPT !.cooling = FALSE]
  /\ UNCHANGED <<world, files, job, counts>>

\* recoverRestartArtifacts: only an old claim is put back.
PutBack ==
  /\ file' = [r \in Requests |-> IF r \in old THEN "written" ELSE file[r]]
  /\ old' = {}

ServiceDies ==
  /\ service.pc # "down" /\ Disturb("crash")
  /\ service' = [Fresh EXCEPT !.pc = "down"]
  /\ job' = [job EXCEPT !["request"] = NoJob, !["companion"] = NoJob]
  /\ interrupted' = interrupted + 1
  /\ UNCHANGED <<world, files, signalled>>

ServiceStarts ==
  /\ service.pc = "down"
  /\ PutBack
  /\ service' = Fresh
  /\ UNCHANGED <<world, job, counts>>

\* It puts the claims back before it sees that it is not alone.
SecondServiceStarts ==
  /\ service.pc # "down" /\ Disturb("second")
  /\ PutBack
  /\ interrupted' = interrupted + 1
  /\ UNCHANGED <<world, service, job, signalled>>

------------------------------------------------------------------------------

Passes == OpeningEnds \/ GracePasses \/ CooldownPasses \/ CompanionCooldownPasses

Next ==
  \/ \E r \in Requests : WritesRequest(r) \/ ClaimAges(r)
  \/ HostChanges \/ HostCloses \/ HostTerminates \/ LaunchTakesEffect \/ OtherOpens
  \/ FindsDead \/ Removes
  \/ \E c \in Callers : JobSteps(c)
  \/ ClientTimesOut
  \/ LoopSteps \/ Passes
  \/ ServiceDies \/ ServiceStarts \/ SecondServiceStarts

Spec == Init /\ [][Next]_vars

\* The service's loop and timers run, a restart goes through its steps, VS Code
\* starts, and systemd starts the service again.  Nobody has to close, open,
\* request or block anything.
FairSpec ==
  /\ Spec
  /\ WF_vars(LoopSteps) /\ WF_vars(ServiceStarts)
  /\ WF_vars(OpeningEnds) /\ WF_vars(GracePasses) /\ WF_vars(CooldownPasses)
  /\ \A c \in Callers : WF_vars(JobSteps(c))
  /\ WF_vars(LaunchTakesEffect)

------------------------------------------------------------------------------
(* Properties.                                                               *)

LoopPlace ==
  {"idle", "requests", "claimed", "restart", "release", "watch", "recover", "down"}
HostState ==
  [pid : Nat \ {0}, state : {"up", "busy", "full", "dead"}, signalled : BOOLEAN,
   streak : 0..MinFailures]

\* Of a service, and of a restart, that have known the first n hosts.
ServiceState(n) ==
  [pc : LoopPlace, todo : SUBSET Requests, request : Requests \cup {NoRequest},
   failure : [pid : 0..n, count : 0..MinFailures], cooling : BOOLEAN,
   missing : {"unset", "recent", "ripe"}, attempted : BOOLEAN, opening : BOOLEAN]
JobState(n) == [pc : {"idle", "signal", "exit", "replacement"}, pid : 0..n]

\* What is remembered of the hosts names hosts there were, and no host but the one
\* alive is registered beside it.
TypeOK ==
  /\ host \in HostState
  /\ registration \in 0..host.pid /\ launches \in Nat
  /\ host.state # "dead" => registration \in {host.pid, 0}
  /\ removing \in BOOLEAN
  /\ file \in [Requests -> {"unwritten", "written", "claimed", "done"}]
  /\ old \subseteq {r \in Requests : file[r] = "claimed"}
  /\ service \in ServiceState(host.pid)
  /\ job \in [Callers -> JobState(host.pid)]
  /\ signalled \in [Requests -> Nat] /\ interrupted \in Nat /\ used \in 0..MaxDisturbances

\* A request has a host ended once, and once more for each time another service
\* put its claim back: a service that died over it, or one that was refused.
OneRestartPerRequest ==
  \A r \in Requests : signalled[r] <= 1 + interrupted

Starts(c) == job[c] = NoJob /\ job'[c] # NoJob

\* The service restarts a host on its own account only on evidence against this very
\* host: the last polls, as many as configured, all found its backlog full.  What its
\* predecessor was seen doing, in whatever order hosts and polls come, is none.
RestartsOnEvidence ==
  [][Starts("companion") => job'["companion"].pid = host.pid /\ host.streak = MinFailures]_vars

\* Every request is executed or refused in the end.  A claim is left behind only
\* when another service interrupted it, and then nobody reads it.
RequestsSettle ==
  \A r \in Requests :
    <>[](\/ file[r] \in {"unwritten", "done"}
         \/ file[r] = "claimed" /\ service.request # r /\ interrupted > 0)

\* A live host whose registration was removed for its predecessor's.
Robbed == host.state # "dead" /\ registration = 0

\* A workspace with an active queue that is without a host gets another, whatever
\* failed, restarted or was closed in between, unless it has one already that a
\* reader of the registrations made invisible.
WindowReturns == Registered = 0 ~> (Registered # 0 \/ Robbed)

=============================================================================
