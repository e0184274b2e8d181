------------------------ MODULE WindowRestartsProofs ------------------------
(***************************************************************************)
(* Proofs about the hosts of a workspace and those who restart them.       *)
(***************************************************************************)
EXTENDS WindowRestarts, TLAPS

------------------------------------------------------------------------------
(* Type correctness.                                                        *)

\* Each field of what the service remembers may be set by itself.
LEMMA ServiceFields ==
  ASSUME NEW n \in Nat, NEW s \in ServiceState(n)
  PROVE /\ \A x \in LoopPlace : [s EXCEPT !.pc = x] \in ServiceState(n)
        /\ \A x \in SUBSET Requests : [s EXCEPT !.todo = x] \in ServiceState(n)
        /\ \A x \in Requests \cup {NoRequest} : [s EXCEPT !.request = x] \in ServiceState(n)
        /\ \A x \in [pid : 0..n, count : 0..MinFailures] :
             [s EXCEPT !.failure = x] \in ServiceState(n)
        /\ \A x \in BOOLEAN : /\ [s EXCEPT !.cooling = x] \in ServiceState(n)
                             /\ [s EXCEPT !.attempted = x] \in ServiceState(n)
                             /\ [s EXCEPT !.opening = x] \in ServiceState(n)
        /\ \A x \in {"unset", "recent", "ripe"} : [s EXCEPT !.missing = x] \in ServiceState(n)
  BY DEF ServiceState

\* A service that starts has known no host.
LEMMA FreshType ==
  ASSUME NEW n \in Nat
  PROVE /\ Fresh \in ServiceState(n)
        /\ Fresh.failure \in [pid : 0..n, count : 0..MinFailures]
  BY RestartsAssumption DEF Fresh, ServiceState, LoopPlace

\* What has known n hosts may have known more.
LEMMA MoreHosts ==
  ASSUME NEW m \in Nat, NEW n \in Nat, m <= n
  PROVE ServiceState(m) \subseteq ServiceState(n) /\ JobState(m) \subseteq JobState(n)
  BY DEF ServiceState, JobState

\* What a host is seen doing changes neither its number nor its type.
LEMMA HostFields ==
  ASSUME NEW h \in HostState
  PROVE /\ h.pid \in Nat \ {0} /\ h.state \in {"up", "busy", "full", "dead"}
        /\ h.streak \in 0..MinFailures
        /\ \A x \in {"up", "busy", "full", "dead"} :
             /\ [h EXCEPT !.state = x] \in HostState
             /\ [h EXCEPT !.state = x].pid = h.pid /\ [h EXCEPT !.state = x].state = x
        /\ /\ [h EXCEPT !.signalled = TRUE] \in HostState
           /\ [h EXCEPT !.signalled = TRUE].pid = h.pid
           /\ [h EXCEPT !.signalled = TRUE].state = h.state
        /\ \A x \in 0..MinFailures :
             /\ [h EXCEPT !.streak = x] \in HostState
             /\ [h EXCEPT !.streak = x].pid = h.pid /\ [h EXCEPT !.streak = x].state = h.state
             /\ [h EXCEPT !.streak = x].streak = x
  BY DEF HostState

\* What the hosts and VS Code do keeps every type.
LEMMA WorldTypes ==
  ASSUME TypeOK,
         \/ \E r \in Requests : WritesRequest(r) \/ ClaimAges(r)
         \/ HostChanges \/ HostCloses \/ HostTerminates \/ LaunchTakesEffect \/ OtherOpens
         \/ FindsDead \/ Removes
  PROVE TypeOK'
<1> USE RestartsAssumption DEF TypeOK, world, files, counts
<1>1. CASE \E r \in Requests : WritesRequest(r)
  BY <1>1 DEF WritesRequest
<1>2. CASE \E r \in Requests : ClaimAges(r)
  BY <1>2 DEF ClaimAges
<1>3. CASE HostChanges
  <2>1. host' \in HostState /\ host'.pid = host.pid
    BY <1>3 DEF HostChanges, HostState
  <2>2. host.state # "dead"
    BY <1>3 DEF HostChanges
  <2> QED
    BY <1>3, <2>1, <2>2 DEF HostChanges, Disturb
<1>4. CASE HostCloses \/ HostTerminates
  <2>1. host' = [host EXCEPT !.state = "dead"] /\ registration' \in {registration, 0}
    BY <1>4 DEF HostCloses, HostTerminates, Dies
  <2>2. host' \in HostState /\ host'.pid = host.pid /\ host'.state = "dead"
    BY <2>1 DEF HostState
  <2>3. registration' \in 0..host.pid
    BY <2>1 DEF HostState
  <2> QED
    BY <1>4, <2>2, <2>3 DEF HostCloses, HostTerminates, Disturb
<1>5. CASE LaunchTakesEffect
  <2>1. CASE UNCHANGED <<host, registration>>
    BY <1>5, <2>1 DEF LaunchTakesEffect, Disturb
  <2>2. CASE host' = NewHost(host.pid + 1) /\ registration' = host.pid + 1
    <3>1. host' \in HostState /\ host'.pid = host.pid + 1 /\ host'.state = "up"
      BY <2>2 DEF NewHost, HostState
    <3>2. host.pid \in Nat /\ host'.pid \in Nat /\ host.pid <= host'.pid
      BY <3>1 DEF HostState
    <3>3. /\ ServiceState(host.pid) \subseteq ServiceState(host'.pid)
          /\ JobState(host.pid) \subseteq JobState(host'.pid)
      BY <3>2, MoreHosts
    <3>4. service \in ServiceState(host'.pid) /\ job \in [Callers -> JobState(host'.pid)]
      BY <3>3
    <3>5. registration' \in 0..host'.pid /\ registration' = host'.pid
      BY <2>2, <3>1, <3>2
    <3> QED
      BY <1>5, <2>2, <3>1, <3>4, <3>5 DEF LaunchTakesEffect, Disturb
  <2> QED
    BY <1>5, <2>1, <2>2 DEF LaunchTakesEffect
<1>6. CASE OtherOpens
  BY <1>6 DEF OtherOpens, Disturb
<1>7. CASE FindsDead
  BY <1>7 DEF FindsDead
<1>8. CASE Removes
  <2>1. 0 \in 0..host.pid
    BY DEF HostState
  <2>2. /\ registration' = 0 /\ removing' = FALSE
        /\ UNCHANGED <<host, launches, file, old, service, job, signalled, interrupted, used>>
    BY <1>8 DEF Removes
  <2> HIDE DEF TypeOK
  <2> QED
    BY <2>1, <2>2 DEF TypeOK
<1> QED
  BY <1>1, <1>2, <1>3, <1>4, <1>5, <1>6, <1>7, <1>8

\* A restart that is begun, goes on or ends is one of the hosts known.
LEMMA JobFields ==
  ASSUME NEW n \in Nat, NEW j \in [Callers -> JobState(n)], NEW c \in Callers
  PROVE /\ [j EXCEPT ![c] = NoJob] \in [Callers -> JobState(n)]
        /\ \A x \in {"idle", "signal", "exit", "replacement"} :
             [j EXCEPT ![c].pc = x] \in [Callers -> JobState(n)]
        /\ \A pid \in 0..n :
             [j EXCEPT ![c] = [pc |-> "signal", pid |-> pid]] \in [Callers -> JobState(n)]
  BY DEF JobState, NoJob

\* What the caller makes of the end of a restart.
LEMMA JobEndsType ==
  ASSUME TypeOK, NEW c \in Callers, NEW ok \in BOOLEAN, JobEnds(c, ok)
  PROVE job' \in [Callers -> JobState(host.pid)] /\ service' \in ServiceState(host.pid)
<1>1. host.pid \in Nat
  BY HostFields DEF TypeOK
<1>2. job' \in [Callers -> JobState(host.pid)]
  BY <1>1, JobFields DEF TypeOK, JobEnds
<1>3. service' \in {service, [service EXCEPT !.pc = "release"],
                    [service EXCEPT !.failure = Fresh.failure]}
  BY DEF JobEnds
<1> QED
  <2>1. /\ [service EXCEPT !.pc = "release"] \in ServiceState(host.pid)
        /\ [service EXCEPT !.failure = Fresh.failure] \in ServiceState(host.pid)
    BY <1>1, FreshType DEF TypeOK, ServiceState, LoopPlace
  <2> QED
    BY <1>2, <1>3, <2>1 DEF TypeOK

\* So does a restart, whoever makes it.
LEMMA JobTypes ==
  ASSUME TypeOK, NEW c \in Callers, JobSteps(c)
  PROVE TypeOK'
<1> USE RestartsAssumption DEF TypeOK, world, files, counts
<1>0. host.pid \in Nat
  BY HostFields
<1>1. CASE Signals(c)
  <2>1. CASE Exists(job[c].pid)
    <3>1. host' \in HostState /\ host'.pid = host.pid /\ host'.state = host.state
      BY <1>1, <2>1 DEF Signals, HostState
    <3>2. job' \in [Callers -> JobState(host.pid)]
      BY <1>1, <2>1, <1>0 DEF Signals, Goes, JobState
    <3>3. signalled' \in [Requests -> Nat]
      BY <1>1, <2>1 DEF Signals
    <3> QED
      BY <1>1, <2>1, <3>1, <3>2, <3>3 DEF Signals
  <2>2. CASE ~Exists(job[c].pid)
    BY <1>1, <2>2, JobEndsType DEF Signals
  <2> QED
    BY <2>1, <2>2
<1>2. CASE Escalates(c)
  <2>1. host' \in HostState /\ host'.pid = host.pid /\ host'.state = "dead"
    BY <1>2, HostFields DEF Escalates
  <2> QED
    BY <1>2, <2>1 DEF Escalates
<1>3. CASE Launches(c)
  <2>1. job' \in [Callers -> JobState(host.pid)]
    BY <1>3, <1>0, JobFields DEF Launches, Goes
  <2> QED
    BY <1>3, <2>1 DEF Launches
<1>4. CASE FindsReplacement(c)
  BY <1>4, JobEndsType DEF FindsReplacement
<1>5. CASE GivesUp(c)
  BY <1>5, JobEndsType DEF GivesUp
<1> QED
  BY <1>1, <1>2, <1>3, <1>4, <1>5 DEF JobSteps

\* So do the service and its timers, a client, and another service.
LEMMA ServiceTypes ==
  ASSUME TypeOK,
         ClientTimesOut \/ LoopSteps \/ Passes
           \/ ServiceDies \/ ServiceStarts \/ SecondServiceStarts
  PROVE TypeOK'
<1> USE RestartsAssumption DEF TypeOK, world, files, counts
<1>0. host.pid \in Nat
  BY HostFields
<1>1. CASE ClientTimesOut
  <2>1. job' \in [Callers -> JobState(host.pid)]
    BY <1>1, <1>0, JobFields DEF ClientTimesOut, Caller, Callers
  <2> QED
    BY <1>1, <2>1 DEF ClientTimesOut, Disturb
<1>2. CASE LoopStarts
  <2>1. service' \in ServiceState(host.pid)
    BY <1>2 DEF LoopStarts, ServiceState, LoopPlace
  <2> QED
    BY <1>2, <2>1 DEF LoopStarts
<1>3. CASE Claims
  <2> PICK r \in service.todo :
        /\ file' = [file EXCEPT ![r] = "claimed"]
        /\ service' = [service EXCEPT !.pc = "claimed", !.request = r, !.todo = @ \ {r}]
    BY <1>3 DEF Claims
  <2>1. r \in Requests /\ service' \in ServiceState(host.pid)
    BY DEF ServiceState, LoopPlace
  <2> QED
    BY <1>3, <2>1 DEF Claims
<1>4. CASE ReadsTarget
  <2>1. service' \in ServiceState(host.pid)
    BY <1>4 DEF ReadsTarget, ServiceState, LoopPlace
  <2>2. job' \in [Callers -> JobState(host.pid)]
    BY <1>4, <1>0 DEF ReadsTarget, Caller, Callers, JobState
  <2> QED
    BY <1>4, <2>1, <2>2 DEF ReadsTarget
<1>5. CASE Releases
  <2>1. service' \in ServiceState(host.pid)
    BY <1>5 DEF Releases, ServiceState, LoopPlace
  <2> QED
    BY <1>5, <2>1 DEF Releases
<1>6. CASE Polls
  <2>1. Counted \in [pid : 0..host.pid, count : 0..MinFailures]
    BY DEF Counted, ServiceState
  <2>2. Fresh.failure \in [pid : 0..host.pid, count : 0..MinFailures]
    BY <1>0, FreshType
  <2>3. service.failure \in [pid : 0..host.pid, count : 0..MinFailures]
    BY DEF ServiceState
  <2>4. \E f \in [pid : 0..host.pid, count : 0..MinFailures] :
          service' = [service EXCEPT !.pc = "watch", !.failure = f]
    BY <1>6, <2>1, <2>2, <2>3 DEF Polls
  <2>5. service' \in ServiceState(host.pid)
    BY <2>4 DEF ServiceState, LoopPlace
  <2>6. host' \in HostState /\ host'.pid = host.pid /\ host'.state = host.state
    BY <1>6 DEF Polls, HostState
  <2> QED
    BY <1>6, <2>5, <2>6 DEF Polls
<1>7. CASE Watches
  <2>1. service' \in ServiceState(host.pid)
    <3>1. CASE service' = [service EXCEPT !.pc = "recover", !.missing = "unset",
                                          !.attempted = FALSE]
      BY <3>1 DEF ServiceState, LoopPlace
    <3>2. CASE service' = [service EXCEPT !.pc = "recover", !.missing = "recent"]
      BY <3>2 DEF ServiceState, LoopPlace
    <3>3. CASE service' = [service EXCEPT !.pc = "recover"]
      BY <3>3 DEF ServiceState, LoopPlace
    <3>4. CASE service' = [service EXCEPT !.pc = "recover", !.attempted = TRUE,
                                          !.opening = TRUE]
      BY <3>4 DEF ServiceState, LoopPlace
    <3> QED
      BY <1>7, <3>1, <3>2, <3>3, <3>4 DEF Watches
  <2> QED
    BY <1>7, <2>1 DEF Watches
<1>8. CASE RecoversCompanion
  <2>1. service' \in ServiceState(host.pid)
    <3>1. CASE service' = [service EXCEPT !.pc = "idle", !.cooling = TRUE]
      BY <3>1 DEF ServiceState, LoopPlace
    <3>2. CASE service' = [service EXCEPT !.pc = "idle"]
      BY <3>2 DEF ServiceState, LoopPlace
    <3> QED
      BY <1>8, <3>1, <3>2 DEF RecoversCompanion
  <2>2. job' \in [Callers -> JobState(host.pid)]
    BY <1>8, <1>0 DEF RecoversCompanion, Caller, Callers, JobState
  <2> QED
    BY <1>8, <2>1, <2>2 DEF RecoversCompanion
<1>9. CASE Passes
  <2>1. service' \in ServiceState(host.pid)
    <3>1. \/ service' = [service EXCEPT !.opening = FALSE]
          \/ service' = [service EXCEPT !.missing = "ripe"]
          \/ service' = [service EXCEPT !.attempted = FALSE]
          \/ service' = [service EXCEPT !.cooling = FALSE]
      BY <1>9 DEF Passes, OpeningEnds, GracePasses, CooldownPasses, CompanionCooldownPasses
    <3>2. /\ [service EXCEPT !.opening = FALSE] \in ServiceState(host.pid)
          /\ [service EXCEPT !.attempted = FALSE] \in ServiceState(host.pid)
          /\ [service EXCEPT !.cooling = FALSE] \in ServiceState(host.pid)
      BY DEF ServiceState
    <3>3. [service EXCEPT !.missing = "ripe"] \in ServiceState(host.pid)
      BY DEF ServiceState
    <3> QED
      BY <3>1, <3>2, <3>3
  <2> QED
    BY <1>9, <2>1
    DEF Passes, OpeningEnds, GracePasses, CooldownPasses, CompanionCooldownPasses
<1>10. CASE ServiceDies
  <2>1. service' \in ServiceState(host.pid)
    BY <1>10, <1>0, ServiceFields, FreshType DEF ServiceDies, LoopPlace
  <2>2. job' \in [Callers -> JobState(host.pid)]
    <3> DEFINE without == [job EXCEPT !["request"] = NoJob]
    <3>1. without \in [Callers -> JobState(host.pid)]
      BY <1>0, JobFields DEF Callers
    <3>2. job' = [without EXCEPT !["companion"] = NoJob]
      BY <1>10 DEF ServiceDies
    <3> HIDE DEF without
    <3> QED
      BY <1>0, <3>1, <3>2, JobFields DEF Callers
  <2> QED
    BY <1>10, <2>1, <2>2 DEF ServiceDies, Disturb
<1>11. CASE ServiceStarts
  BY <1>11, <1>0, FreshType DEF ServiceStarts, PutBack
<1>12. CASE SecondServiceStarts
  BY <1>12 DEF SecondServiceStarts, PutBack, Disturb
<1> QED
  BY <1>1, <1>2, <1>3, <1>4, <1>5, <1>6, <1>7, <1>8, <1>9, <1>10, <1>11, <1>12
  DEF LoopSteps

\* Hosts are numbered in the order they come, and all that is remembered of them,
\* by the files, the service and the restarts, names hosts there were.
THEOREM TypeCorrect == Spec => []TypeOK
<1>1. Init => TypeOK
  <2> SUFFICES ASSUME Init PROVE TypeOK
    OBVIOUS
  <2>1. host \in HostState /\ host.pid = 1
    BY RestartsAssumption DEF Init, NewHost, HostState
  <2>2. service \in ServiceState(host.pid)
    BY <2>1, FreshType DEF Init
  <2>3. job \in [Callers -> JobState(host.pid)]
    BY <2>1 DEF Init, NoJob, JobState
  <2> QED
    <3>1. file \in [Requests -> {"unwritten", "written", "claimed", "done"}]
      BY DEF Init
    <3>2. registration \in 0..host.pid /\ registration \in {host.pid, 0}
      BY <2>1 DEF Init
    <3>3. signalled \in [Requests -> Nat] /\ used \in 0..MaxDisturbances
      BY RestartsAssumption DEF Init
    <3> QED
      BY <2>1, <2>2, <2>3, <3>1, <3>2, <3>3 DEF Init, TypeOK
<1>2. TypeOK /\ [Next]_vars => TypeOK'
  <2> SUFFICES ASSUME TypeOK, [Next]_vars PROVE TypeOK'
    OBVIOUS
  <2>1. CASE UNCHANGED vars
    BY <2>1 DEF TypeOK, vars, world, files, counts
  <2> QED
    BY <2>1, WorldTypes, JobTypes, ServiceTypes DEF Next
<1> QED
  BY <1>1, <1>2, PTL DEF Spec

------------------------------------------------------------------------------
(* How often a request has a host signalled.                                *)

Waiting == {"unwritten", "written"}
Handling == {"claimed", "restart", "release"}

\* The service is about to have a host signalled for r.
Due(r) ==
  /\ service.request = r
  /\ \/ service.pc = "claimed"
     \/ service.pc = "restart" /\ job["request"].pc = "signal"

\* A request that may still have a host signalled, because its file is there, is
\* being handled, or is a claim that can be put back, has used up one signal less;
\* and one that may twice, because its claim was put back under the service's
\* hands, two less.
Paid(r) ==
  /\ signalled[r] <= 1 + interrupted
  /\ file[r] \in Waiting \/ Due(r) => signalled[r] <= interrupted
  /\ file[r] \in Waiting /\ Due(r) => signalled[r] + 1 <= interrupted
  /\ file[r] = "claimed" /\ service.request # r => signalled[r] <= interrupted

RequestInv ==
  /\ service.request = NoRequest <=> service.pc \notin Handling
  /\ job["request"].pc # "idle" => service.pc = "restart"
  /\ \A r \in service.todo : file[r] = "written"
  /\ \A r \in Requests : Paid(r)

\* A step that is not about the requests: the loop stays where it is, or moves
\* between places where it handles none.
LEMMA Elsewhere ==
  ASSUME TypeOK, RequestInv,
         UNCHANGED <<file, signalled, interrupted>>,
         service'.request = service.request, job'["request"] = job["request"],
         \/ service'.pc = service.pc
         \/ service.pc \notin Handling /\ service'.pc \notin Handling,
         \A r \in service'.todo : file[r] = "written"
  PROVE RequestInv'
<1>1. ASSUME NEW r \in Requests PROVE Due(r)' <=> Due(r)
  BY DEF RequestInv, Due, Handling
<1>2. ASSUME NEW r \in Requests PROVE Paid(r)'
  BY <1>1 DEF RequestInv, Paid, Waiting
<1> QED
  BY <1>2 DEF RequestInv, Handling

\* What the hosts, VS Code, a client and the timers do is not.
LEMMA WorldPays ==
  ASSUME TypeOK, RequestInv,
         \/ \E r \in Requests : ClaimAges(r)
         \/ HostChanges \/ HostCloses \/ HostTerminates \/ LaunchTakesEffect \/ OtherOpens
         \/ FindsDead \/ Removes \/ ClientTimesOut \/ Passes
  PROVE RequestInv'
<1>1. UNCHANGED <<file, signalled, interrupted>>
  BY DEF ClaimAges, HostChanges, HostCloses, HostTerminates, LaunchTakesEffect, OtherOpens,
         FindsDead, Removes, ClientTimesOut, Passes, OpeningEnds, GracePasses, CooldownPasses,
         CompanionCooldownPasses, files, counts
<1>2. job'["request"] = job["request"]
  BY DEF ClaimAges, HostChanges, HostCloses, HostTerminates, LaunchTakesEffect, OtherOpens,
         FindsDead, Removes, ClientTimesOut, Caller, Callers, Passes, OpeningEnds, GracePasses,
         CooldownPasses, CompanionCooldownPasses, TypeOK
<1>3. \/ service' = service
      \/ service' = [service EXCEPT !.opening = FALSE]
      \/ service' = [service EXCEPT !.missing = "ripe"]
      \/ service' = [service EXCEPT !.attempted = FALSE]
      \/ service' = [service EXCEPT !.cooling = FALSE]
  BY DEF ClaimAges, HostChanges, HostCloses, HostTerminates, LaunchTakesEffect, OtherOpens,
         FindsDead, Removes, ClientTimesOut, Passes, OpeningEnds, GracePasses, CooldownPasses,
         CompanionCooldownPasses
<1>4. /\ service'.request = service.request /\ service'.pc = service.pc
      /\ service'.todo = service.todo
  BY <1>3 DEF TypeOK, ServiceState
<1> QED
  BY <1>1, <1>2, <1>4, Elsewhere DEF RequestInv

\* The end of a restart nobody requested is not; that of one that was requested
\* leaves nothing due.
LEMMA JobEndsPays ==
  ASSUME TypeOK, RequestInv, NEW c \in Callers, NEW ok \in BOOLEAN,
         JobEnds(c, ok), job[c].pc # "idle",
         UNCHANGED <<file, signalled, interrupted>>
  PROVE RequestInv'
<1>1. CASE c = "request"
  <2>1. service' = [service EXCEPT !.pc = "release"]
    BY <1>1 DEF JobEnds
  <2>2. /\ service'.request = service.request /\ service'.pc = "release"
        /\ service'.todo = service.todo
    BY <2>1 DEF TypeOK, ServiceState
  <2>3. service.pc = "restart"
    BY <1>1 DEF RequestInv
  <2>4. job'["request"].pc = "idle"
    BY <1>1 DEF JobEnds, NoJob, TypeOK
  <2>5. ASSUME NEW r \in Requests PROVE ~Due(r)'
    BY <2>2 DEF Due
  <2>6. ASSUME NEW r \in Requests PROVE Paid(r)'
    BY <2>2, <2>5 DEF RequestInv, Paid, Waiting
  <2> QED
    BY <2>2, <2>3, <2>4, <2>6 DEF RequestInv, Handling
<1>2. CASE c # "request"
  <2>1. job'["request"] = job["request"]
    BY <1>2 DEF JobEnds, TypeOK, Callers
  <2>2. service' = service \/ service' = [service EXCEPT !.failure = Fresh.failure]
    BY <1>2 DEF JobEnds
  <2>3. /\ service'.request = service.request /\ service'.pc = service.pc
        /\ service'.todo = service.todo
    BY <2>2 DEF TypeOK, ServiceState
  <2> QED
    BY <2>1, <2>3, Elsewhere DEF RequestInv
<1> QED
  BY <1>1, <1>2

\* A restart that was requested signals once, as was due.
LEMMA JobPays ==
  ASSUME TypeOK, RequestInv, NEW c \in Callers, JobSteps(c)
  PROVE RequestInv'
<1>1. CASE Signals(c)
  <2>1. CASE ~Exists(job[c].pid)
    BY <1>1, <2>1, JobEndsPays DEF Signals, files
  <2>2. CASE Exists(job[c].pid)
    <3>1. /\ job[c].pc = "signal" /\ job' = [job EXCEPT ![c].pc = "exit"]
          /\ service' = service /\ file' = file /\ interrupted' = interrupted
      BY <1>1, <2>2 DEF Signals, Goes, files
    <3>2. CASE c = "request"
      <4> PICK q \in Requests : q = service.request
        BY <3>1, <3>2 DEF RequestInv, Handling, TypeOK, ServiceState
      <4>1. service.pc = "restart" /\ Due(q)
        BY <3>1, <3>2 DEF RequestInv, Due
      <4>2. signalled' = [signalled EXCEPT ![q] = @ + 1]
        BY <1>1, <2>2, <3>2 DEF Signals
      <4>3. job'["request"].pc = "exit"
        BY <3>1, <3>2 DEF TypeOK, JobState
      <4>4. ASSUME NEW r \in Requests PROVE ~Due(r)'
        BY <3>1, <4>1, <4>3 DEF Due
      <4>5. Paid(q)'
        BY <3>1, <4>1, <4>2, <4>4 DEF RequestInv, Paid, TypeOK
      <4>6. ASSUME NEW r \in Requests, r # q PROVE Paid(r)'
        BY <3>1, <4>1, <4>2, <4>4, <4>6 DEF RequestInv, Paid, Due, TypeOK
      <4> QED
        BY <3>1, <4>1, <4>5, <4>6 DEF RequestInv, Handling
    <3>3. CASE c # "request"
      <4>1. job'["request"] = job["request"]
        BY <3>1, <3>3 DEF TypeOK, Callers
      <4>2. signalled' = signalled
        BY <1>1, <2>2, <3>3 DEF Signals
      <4> QED
        BY <3>1, <4>1, <4>2, Elsewhere DEF RequestInv
    <3> QED
      BY <3>2, <3>3
  <2> QED
    BY <2>1, <2>2
<1>2. CASE Escalates(c)
  BY <1>2, Elsewhere DEF Escalates, RequestInv, files, counts
<1>3. CASE Launches(c)
  <2>1. /\ job[c].pc = "exit" /\ job' = [job EXCEPT ![c].pc = "replacement"]
        /\ UNCHANGED <<service, file, signalled, interrupted>>
    BY <1>3 DEF Launches, Goes, files, counts
  <2>2. CASE c = "request"
    <3>1. job["request"].pc = "exit" /\ job'["request"].pc = "replacement"
      BY <2>1, <2>2 DEF TypeOK, JobState
    <3>2. ASSUME NEW r \in Requests PROVE Due(r)' <=> Due(r)
      BY <2>1, <3>1 DEF Due
    <3>3. ASSUME NEW r \in Requests PROVE Paid(r)'
      BY <2>1, <3>2 DEF RequestInv, Paid, Waiting
    <3> QED
      BY <2>1, <3>1, <3>3 DEF RequestInv, Handling
  <2>3. CASE c # "request"
    <3>1. job'["request"] = job["request"]
      BY <2>1, <2>3 DEF TypeOK, Callers
    <3> QED
      BY <2>1, <3>1, Elsewhere DEF RequestInv
  <2> QED
    BY <2>2, <2>3
<1>4. CASE FindsReplacement(c)
  BY <1>4, JobEndsPays DEF FindsReplacement, files, counts
<1>5. CASE GivesUp(c)
  BY <1>5, JobEndsPays DEF GivesUp, files, counts
<1> QED
  BY <1>1, <1>2, <1>3, <1>4, <1>5 DEF JobSteps

\* The loop handles one request at a time, whose file it has taken away.
LEMMA LoopPays ==
  ASSUME TypeOK, RequestInv, LoopSteps
  PROVE RequestInv'
<1>1. CASE LoopStarts
  <2>1. /\ service'.pc = "requests" /\ service'.request = service.request
        /\ service'.todo = {r \in Requests : file[r] = "written"}
        /\ service.pc = "idle"
    BY <1>1 DEF LoopStarts, Loop, TypeOK, ServiceState
  <2> QED
    BY <1>1, <2>1, Elsewhere DEF LoopStarts, files, counts, Handling
<1>2. CASE Claims
  <2> PICK q \in service.todo :
        /\ file' = [file EXCEPT ![q] = "claimed"]
        /\ service' = [service EXCEPT !.pc = "claimed", !.request = q, !.todo = @ \ {q}]
    BY <1>2 DEF Claims
  <2>1. /\ q \in Requests /\ service'.pc = "claimed" /\ service'.request = q
        /\ service'.todo = service.todo \ {q}
    BY DEF TypeOK, ServiceState
  <2>2. UNCHANGED <<job, signalled, interrupted>> /\ service.pc = "requests"
    BY <1>2 DEF Claims, Loop, counts
  <2>3. service.request = NoRequest /\ job["request"].pc = "idle"
    BY <2>2 DEF RequestInv, Handling
  <2>4. Paid(q)'
    BY <2>1, <2>2 DEF RequestInv, Paid, TypeOK, Waiting
  <2>5. ASSUME NEW r \in Requests, r # q PROVE Paid(r)'
    <3>1. ~Due(r)' /\ file'[r] = file[r] /\ service.request # r
      BY <2>1, <2>3, <2>5, RestartsAssumption DEF Due, TypeOK
    <3> QED
      BY <2>2, <3>1 DEF RequestInv, Paid, Waiting
  <2>6. \A r \in service'.todo : file'[r] = "written"
    BY <2>1 DEF RequestInv, TypeOK, ServiceState
  <2> QED
    BY <2>1, <2>2, <2>3, <2>4, <2>5, <2>6, RestartsAssumption DEF RequestInv, Handling
<1>3. CASE ReadsTarget
  <2>1. service.pc = "claimed" /\ UNCHANGED <<file, signalled, interrupted>>
    BY <1>3 DEF ReadsTarget, Loop, files, counts
  <2>2. /\ service'.request = service.request /\ service'.todo = service.todo
        /\ service'.pc \in {"restart", "release"}
    BY <1>3 DEF ReadsTarget, TypeOK, ServiceState
  <2>3. job["request"].pc = "idle"
    BY <2>1 DEF RequestInv
  <2>4. service'.pc = "release" => job' = job
    BY <1>3, <2>2 DEF ReadsTarget, TypeOK, ServiceState
  <2>5. ASSUME NEW r \in Requests PROVE Due(r)' => Due(r)
    BY <2>1, <2>2 DEF Due
  <2>6. ASSUME NEW r \in Requests PROVE Paid(r)'
    BY <2>1, <2>2, <2>5 DEF RequestInv, Paid, Waiting
  <2> QED
    BY <2>1, <2>2, <2>3, <2>4, <2>6 DEF RequestInv, Handling
<1>4. CASE Releases
  <2> PICK q \in Requests : q = service.request
    BY <1>4 DEF Releases, Loop, RequestInv, Handling, TypeOK, ServiceState
  <2>1. service.pc = "release" /\ UNCHANGED <<job, signalled, interrupted>>
    BY <1>4 DEF Releases, Loop, counts
  <2>2. /\ service'.pc = "requests" /\ service'.request = NoRequest
        /\ service'.todo = service.todo
    BY <1>4 DEF Releases, TypeOK, ServiceState
  <2>3. file' = IF file[q] = "claimed" THEN [file EXCEPT ![q] = "done"] ELSE file
    BY <1>4 DEF Releases
  <2>4. ASSUME NEW r \in Requests PROVE ~Due(r)'
    BY <2>2 DEF Due
  <2>5. Paid(q)'
    BY <2>1, <2>3, <2>4 DEF RequestInv, Paid, TypeOK, Waiting
  <2>6. ASSUME NEW r \in Requests, r # q PROVE Paid(r)'
    <3>1. file'[r] = file[r]
      BY <2>3, <2>6 DEF TypeOK
    <3> QED
      BY <2>1, <2>4, <2>6, <3>1 DEF RequestInv, Paid, Waiting
  <2>7. \A r \in service'.todo : file'[r] = "written"
    BY <2>2, <2>3 DEF RequestInv, TypeOK, ServiceState
  <2>8. job'["request"].pc = "idle"
    BY <2>1 DEF RequestInv
  <2> QED
    BY <2>2, <2>5, <2>6, <2>7, <2>8 DEF RequestInv, Handling
<1>5. CASE Polls
  <2>1. UNCHANGED <<file, job, signalled, interrupted>> /\ service.pc = "requests"
    BY <1>5 DEF Polls, Loop, files, counts
  <2>2. /\ service'.request = service.request /\ service'.pc = "watch"
        /\ service'.todo = service.todo
    BY <1>5 DEF Polls, TypeOK, ServiceState
  <2> QED
    BY <2>1, <2>2, Elsewhere DEF RequestInv, Handling
<1>6. CASE Watches
  <2>1. UNCHANGED <<file, job, signalled, interrupted>> /\ service.pc = "watch"
    BY <1>6 DEF Watches, Loop, files, counts
  <2>2. /\ service'.request = service.request /\ service'.pc = "recover"
        /\ service'.todo = service.todo
    BY <1>6 DEF Watches, TypeOK, ServiceState
  <2> QED
    BY <2>1, <2>2, Elsewhere DEF RequestInv, Handling
<1>7. CASE RecoversCompanion
  <2>1. /\ UNCHANGED <<file, signalled, interrupted>> /\ service.pc = "recover"
        /\ job'["request"] = job["request"]
    BY <1>7 DEF RecoversCompanion, Loop, files, counts, Caller, Callers, TypeOK
  <2>2. /\ service'.request = service.request /\ service'.pc = "idle"
        /\ service'.todo = service.todo
    BY <1>7 DEF RecoversCompanion, TypeOK, ServiceState
  <2> QED
    BY <2>1, <2>2, Elsewhere DEF RequestInv, Handling
<1> QED
  BY <1>1, <1>2, <1>3, <1>4, <1>5, <1>6, <1>7 DEF LoopSteps

\* A service that is interrupted, by its end or by another beside it, has one signal
\* more; claims are put back only then, or when none is being handled.
LEMMA ServicePays ==
  ASSUME TypeOK, RequestInv, ServiceDies \/ ServiceStarts \/ SecondServiceStarts
  PROVE RequestInv'
<1>1. CASE ServiceDies
  <2>1. /\ UNCHANGED <<file, signalled>> /\ interrupted' = interrupted + 1
        /\ service' = [Fresh EXCEPT !.pc = "down"]
        /\ job' = [job EXCEPT !["request"] = NoJob, !["companion"] = NoJob]
    BY <1>1 DEF ServiceDies, files
  <2>2. /\ service'.pc = "down" /\ service'.request = NoRequest /\ service'.todo = {}
        /\ job'["request"].pc = "idle"
    BY <2>1 DEF Fresh, NoJob, Callers, TypeOK
  <2>3. ASSUME NEW r \in Requests PROVE Paid(r)'
    <3>1. ~Due(r)'
      BY <2>2, RestartsAssumption DEF Due
    <3>2. signalled[r] \in Nat /\ interrupted \in Nat
      BY DEF TypeOK
    <3> QED
      BY <2>1, <3>1, <3>2 DEF RequestInv, Paid, Waiting
  <2> QED
    BY <2>2, <2>3 DEF RequestInv, Handling
<1>2. CASE ServiceStarts
  <2>1. /\ service.pc = "down" /\ service' = Fresh
        /\ UNCHANGED <<job, signalled, interrupted>>
        /\ file' = [r \in Requests |-> IF r \in old THEN "written" ELSE file[r]]
    BY <1>2 DEF ServiceStarts, PutBack, counts
  <2>2. service'.pc = "idle" /\ service'.request = NoRequest /\ service'.todo = {}
    BY <2>1 DEF Fresh
  <2>3. service.request = NoRequest /\ job'["request"].pc = "idle"
    BY <2>1 DEF RequestInv, Handling
  <2>4. ASSUME NEW r \in Requests PROVE Paid(r)'
    <3>1. ~Due(r)' /\ service.request # r
      BY <2>2, <2>3, RestartsAssumption DEF Due
    <3>2. r \in old => file[r] = "claimed"
      BY DEF TypeOK
    <3> QED
      BY <2>1, <3>1, <3>2 DEF RequestInv, Paid, Waiting
  <2> QED
    BY <2>2, <2>3, <2>4 DEF RequestInv, Handling
<1>3. CASE SecondServiceStarts
  <2>1. /\ UNCHANGED <<service, job, signalled>> /\ interrupted' = interrupted + 1
        /\ file' = [r \in Requests |-> IF r \in old THEN "written" ELSE file[r]]
    BY <1>3 DEF SecondServiceStarts, PutBack
  <2>2. ASSUME NEW r \in Requests PROVE Paid(r)'
    <3>1. Due(r)' <=> Due(r)
      BY <2>1 DEF Due
    <3>2. r \in old => file[r] = "claimed"
      BY DEF TypeOK
    <3>3. /\ file'[r] = IF r \in old THEN "written" ELSE file[r]
          /\ signalled[r] \in Nat /\ interrupted \in Nat
      BY <2>1 DEF TypeOK
    <3> QED
      BY <2>1, <3>1, <3>2, <3>3 DEF RequestInv, Paid, Waiting
  <2>3. \A r \in service'.todo : file'[r] = "written"
    BY <2>1 DEF RequestInv, TypeOK, ServiceState
  <2> QED
    BY <2>1, <2>2, <2>3 DEF RequestInv
<1> QED
  BY <1>1, <1>2, <1>3

\* The queue that fails writes a request once.
LEMMA WritePays ==
  ASSUME TypeOK, RequestInv, NEW q \in Requests, WritesRequest(q)
  PROVE RequestInv'
<1>1. /\ UNCHANGED <<service, job, signalled, interrupted>> /\ file[q] = "unwritten"
      /\ file' = [file EXCEPT ![q] = "written"]
  BY DEF WritesRequest, counts
<1>2. ASSUME NEW r \in Requests PROVE Paid(r)'
  <2>1. Due(r)' <=> Due(r)
    BY <1>1 DEF Due
  <2>2. file'[r] = IF r = q THEN "written" ELSE file[r]
    BY <1>1 DEF TypeOK
  <2> QED
    BY <1>1, <2>1, <2>2 DEF RequestInv, Paid, Waiting
<1>3. \A r \in service'.todo : file'[r] = "written"
  BY <1>1 DEF RequestInv, TypeOK, ServiceState
<1> QED
  BY <1>1, <1>2, <1>3 DEF RequestInv

\* A restart request ends a host once, and once more for every time a service that
\* died, or one that was refused, left its claim to be put back: whatever the number
\* of requests, and in whatever order their files are claimed, aged, put back and
\* removed while hosts come and go.
THEOREM RequestsRestartOnce == Spec => []OneRestartPerRequest
<1>1. Init => RequestInv
  <2> SUFFICES ASSUME Init PROVE RequestInv
    OBVIOUS
  <2>1. /\ service.pc = "idle" /\ service.request = NoRequest /\ service.todo = {}
        /\ job["request"].pc = "idle"
    BY DEF Init, Fresh, NoJob, Callers
  <2>2. ASSUME NEW r \in Requests PROVE Paid(r)
    BY <2>1 DEF Init, Paid, Due
  <2> QED
    BY <2>1, <2>2 DEF RequestInv, Handling
<1>2. TypeOK /\ RequestInv /\ [Next]_vars => RequestInv'
  <2> SUFFICES ASSUME TypeOK, RequestInv, [Next]_vars PROVE RequestInv'
    OBVIOUS
  <2>1. CASE UNCHANGED vars
    BY <2>1, Elsewhere DEF vars, files, counts, RequestInv
  <2> QED
    BY <2>1, WorldPays, WritePays, JobPays, LoopPays, ServicePays DEF Next
<1>3. RequestInv => OneRestartPerRequest
  BY DEF RequestInv, Paid, OneRestartPerRequest
<1> QED
  BY <1>1, <1>2, <1>3, TypeCorrect, PTL DEF Spec

------------------------------------------------------------------------------
(* What the service restarts a companion on.                                *)

\* The failures counted against the host that is alive are polls in a row that found
\* its backlog full.
Evidence ==
  Registered # 0 /\ service.failure.pid = host.pid => service.failure.count <= host.streak

\* A host that goes on or ends, and a count that is kept or given up, leave it so.
LEMMA SameEvidence ==
  ASSUME TypeOK, Evidence,
         host'.pid = host.pid, host'.streak = host.streak,
         Registered' # 0 => Registered # 0,
         \/ service'.failure = service.failure
         \/ service'.failure = Fresh.failure
  PROVE Evidence'
<1>1. host.pid # 0
  BY DEF TypeOK, HostState
<1>2. CASE service'.failure = service.failure
  BY <1>2 DEF Evidence
<1>3. CASE service'.failure = Fresh.failure
  BY <1>1, <1>3 DEF Evidence, Fresh
<1> QED
  BY <1>2, <1>3

\* A new host is no host the service has counted failures of.
LEMMA NewHostUnblamed ==
  ASSUME TypeOK, Evidence, LaunchTakesEffect
  PROVE Evidence'
<1>1. CASE UNCHANGED <<host, registration>>
  BY <1>1 DEF LaunchTakesEffect, Evidence, Registered, Exists
<1>2. CASE host' = NewHost(host.pid + 1)
  <2>1. host'.pid = host.pid + 1 /\ service' = service
    BY <1>2 DEF NewHost, LaunchTakesEffect
  <2>2. service.failure.pid \in 0..host.pid /\ host.pid \in Nat
    BY DEF TypeOK, ServiceState, HostState
  <2> QED
    BY <2>1, <2>2 DEF Evidence
<1> QED
  BY <1>1, <1>2 DEF LaunchTakesEffect

\* A poll counts for the service what it counts for the host.
LEMMA PollsAgree ==
  ASSUME TypeOK, Evidence, Polls
  PROVE Evidence'
<1>1. /\ host'.pid = host.pid /\ registration' = registration /\ host'.state = host.state
      /\ host.streak \in 0..MinFailures /\ host.pid # 0
  BY DEF Polls, TypeOK, HostState
<1>2. Registered' = Registered
  BY <1>1 DEF Registered, Exists
<1>3. CASE Registered # 0 /\ host.state = "full"
  <2>1. service'.failure = Counted
    BY <1>3 DEF Polls, TypeOK, ServiceState
  <2>2. host'.streak = IF host.streak < MinFailures THEN host.streak + 1 ELSE host.streak
    BY <1>3 DEF Polls, TypeOK, HostState
  <2>3. registration = host.pid
    BY <1>3 DEF Registered, Exists
  <2>4. CASE service.failure.pid # registration
    BY <1>1, <2>1, <2>2, <2>4, RestartsAssumption DEF Evidence, Counted
  <2>5. CASE service.failure.pid = registration
    <3>1. service.failure.count <= host.streak
      BY <1>3, <2>3, <2>5 DEF Evidence
    <3>2. service.failure.count \in 0..MinFailures
      BY DEF TypeOK, ServiceState
    <3>3. Counted.count <= host'.streak
      BY <1>1, <2>2, <2>5, <3>1, <3>2, RestartsAssumption DEF Counted
    <3> QED
      BY <2>1, <3>3 DEF Evidence
  <2> QED
    BY <2>4, <2>5
<1>4. CASE Registered # 0 /\ host.state # "full"
  <2>1. service'.failure = Fresh.failure
    BY <1>4 DEF Polls, TypeOK, ServiceState
  <2> QED
    BY <1>1, <2>1 DEF Evidence, Fresh
<1>5. CASE Registered = 0
  BY <1>2, <1>5 DEF Evidence
<1> QED
  BY <1>3, <1>4, <1>5

\* No other step adds to the evidence.
LEMMA StepsAgree ==
  ASSUME TypeOK, Evidence, [Next]_vars
  PROVE Evidence'
<1>1. CASE \E r \in Requests : WritesRequest(r) \/ ClaimAges(r)
  BY <1>1, SameEvidence DEF WritesRequest, ClaimAges, world, Registered, Exists
<1>2. CASE HostChanges \/ HostCloses \/ HostTerminates
  <2>1. host'.pid = host.pid /\ host'.streak = host.streak /\ service' = service
    BY <1>2 DEF HostChanges, HostCloses, HostTerminates, Dies, TypeOK, HostState
  <2>2. host.state # "dead" /\ registration' \in {registration, 0}
    BY <1>2 DEF HostChanges, HostCloses, HostTerminates, Dies
  <2>3. Registered' # 0 => Registered # 0
    BY <2>1, <2>2 DEF Registered, Exists
  <2> QED
    BY <2>1, <2>3, SameEvidence
<1>3. CASE OtherOpens \/ FindsDead \/ Removes
  <2>1. host' = host /\ service' = service /\ registration' \in {registration, 0}
    BY <1>3 DEF OtherOpens, FindsDead, Removes
  <2> QED
    BY <2>1, SameEvidence DEF Registered, Exists
<1>4. ASSUME NEW c \in Callers, JobSteps(c) PROVE Evidence'
  <2>1. /\ host'.pid = host.pid /\ host'.streak = host.streak
        /\ registration' = registration
        /\ host'.state \in {host.state, "dead"}
    BY <1>4 DEF JobSteps, Signals, Escalates, Launches, FindsReplacement, GivesUp, world,
                TypeOK, HostState
  <2>2. \/ service' = service
        \/ service' = [service EXCEPT !.pc = "release"]
        \/ service' = [service EXCEPT !.failure = Fresh.failure]
    BY <1>4 DEF JobSteps, Signals, Escalates, Launches, FindsReplacement, GivesUp, JobEnds
  <2>3. service'.failure = service.failure \/ service'.failure = Fresh.failure
    BY <2>2 DEF TypeOK, ServiceState
  <2>4. Registered' # 0 => Registered # 0
    BY <2>1 DEF Registered, Exists
  <2> QED
    BY <2>1, <2>3, <2>4, SameEvidence
<1>5. CASE LoopStarts \/ Claims \/ ReadsTarget \/ Releases \/ Watches \/ RecoversCompanion
  <2>1. host' = host /\ registration' = registration /\ service'.failure = service.failure
    BY <1>5 DEF LoopStarts, Claims, ReadsTarget, Releases, Watches, RecoversCompanion, world,
                TypeOK, ServiceState
  <2> QED
    BY <2>1, SameEvidence DEF Registered, Exists
<1>6. CASE ClientTimesOut \/ Passes \/ ServiceDies \/ ServiceStarts \/ SecondServiceStarts
  <2>1. host' = host /\ registration' = registration
    BY <1>6 DEF ClientTimesOut, Passes, OpeningEnds, GracePasses, CooldownPasses,
                CompanionCooldownPasses, ServiceDies, ServiceStarts, SecondServiceStarts, world
  <2>2. service'.failure = service.failure \/ service'.failure = Fresh.failure
    BY <1>6 DEF ClientTimesOut, Passes, OpeningEnds, GracePasses, CooldownPasses,
                CompanionCooldownPasses, ServiceDies, ServiceStarts, SecondServiceStarts,
                Fresh, TypeOK, ServiceState
  <2> QED
    BY <2>1, <2>2, SameEvidence DEF Registered, Exists
<1>7. CASE UNCHANGED vars
  BY <1>7, SameEvidence DEF vars, world, Registered, Exists
<1> QED
  BY <1>1, <1>2, <1>3, <1>4, <1>5, <1>6, <1>7, NewHostUnblamed, PollsAgree DEF Next, LoopSteps

\* A host the service restarts on its own account is alive, and its last polls, as
\* many as are required, all found its backlog full: for any number of hosts that
\* came before it, and whatever they were seen doing.
THEOREM RestartsHaveEvidence == Spec => RestartsOnEvidence
<1>1. Init => Evidence
  BY DEF Init, Evidence, Fresh, NewHost
<1>2. TypeOK /\ Evidence /\ [Next]_vars => Evidence'
  BY StepsAgree
<1>3. ASSUME TypeOK, Evidence, [Next]_vars, Starts("companion")
      PROVE job'["companion"].pid = host.pid /\ host.streak = MinFailures
  <2>1. RecoversCompanion /\ CompanionFails /\ job' = Caller("companion", registration)
    <3>1. job["companion"] = NoJob /\ job'["companion"] # NoJob /\ NoJob.pc = "idle"
      BY <1>3 DEF Starts, NoJob
    <3>2. ~UNCHANGED job
      BY <3>1
    <3>3. ASSUME NEW c \in Callers, JobSteps(c) PROVE FALSE
      <4>1. c # "companion"
        BY <3>1, <3>3 DEF JobSteps, Signals, Escalates, Launches, FindsReplacement, GivesUp
      <4> QED
        BY <1>3, <3>1, <3>3, <4>1 DEF JobSteps, Signals, Escalates, Launches, FindsReplacement,
                                GivesUp, Goes, JobEnds, Callers, TypeOK
    <3>4. ~ClientTimesOut /\ ~ReadsTarget /\ ~ServiceDies
      BY <1>3, <3>1 DEF ClientTimesOut, ReadsTarget, ServiceDies, Caller, Callers, TypeOK
    <3>5. RecoversCompanion
      BY <1>3, <3>2, <3>3, <3>4
      DEF Next, LoopSteps, vars, WritesRequest, ClaimAges, HostChanges, HostCloses,
          HostTerminates, LaunchTakesEffect, OtherOpens, FindsDead, Removes, LoopStarts, Claims,
          Releases, Polls, Watches, Passes, OpeningEnds, GracePasses, CooldownPasses,
          CompanionCooldownPasses, ServiceStarts, SecondServiceStarts
    <3> QED
      BY <3>2, <3>5 DEF RecoversCompanion
  <2>2. /\ Registered # 0 /\ service.failure.pid = registration
        /\ service.failure.count = MinFailures /\ registration = host.pid
    BY <2>1 DEF CompanionFails, Registered, Exists
  <2>3. MinFailures <= host.streak
    BY <1>3, <2>2 DEF Evidence
  <2>4. job'["companion"].pid = registration
    BY <1>3, <2>1 DEF Caller, Callers, TypeOK
  <2> QED
    BY <1>3, <2>2, <2>3, <2>4, RestartsAssumption DEF TypeOK, HostState
<1>4. TypeOK /\ Evidence /\ [Next]_vars =>
        [Starts("companion") =>
           job'["companion"].pid = host.pid /\ host.streak = MinFailures]_vars
  BY <1>3
<1> QED
  BY <1>1, <1>2, <1>4, TypeCorrect, PTL DEF Spec, RestartsOnEvidence
=============================================================================
