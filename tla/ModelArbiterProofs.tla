------------------------- MODULE ModelArbiterProofs -------------------------
(***************************************************************************)
(* The arbitration of one model among any number of workspaces, whatever   *)
(* their users, windows and requests do and however often: an interrupted  *)
(* head keeps its session, and a queue whose window is being replaced      *)
(* keeps the model.                                                        *)
(***************************************************************************)
EXTENDS ModelArbiter, SequenceTheorems, FiniteSetTheorems, TLAPS

QueueState ==
  [left : Nat, session : Nat, started : Nat,
   thread : {"none", "running", "waiting", "completed", "lost"}, paused : BOOLEAN,
   conflict : WorkspaceOrNone, recovering : BOOLEAN, model : {"unasked", "known", "failed"}]

ServiceState ==
  [owner : Key, previous : [Workspaces -> Nat], observed : SUBSET Workspaces,
   inFlight : SUBSET Key, suspended : Seq(Key), released : {"unset", "delay", "ready"},
   preferred : WorkspaceOrNone, protected : [Workspaces -> {"none", "held", "grace"}]]

LoopState ==
  [pc : {"idle", "poll", "preempt", "call", "orphans", "restore", "restoring", "bookkeep"},
   registered : SUBSET Workspaces, unread : SUBSET Workspaces,
   obs : [Workspaces -> Observation], winner : WorkspaceOrNone, todo : SUBSET Workspaces,
   resumed : BOOLEAN, index : Nat]

TakeoverState ==
  [pc : {"none", "call", "target", "poll", "preempt"}, target : WorkspaceOrNone, session : Nat,
   conflict : BOOLEAN, unread : SUBSET Workspaces, losers : SUBSET (Workspaces \X Nat)]

RequestState ==
  [op : {"none", "preempt", "restore", "resume", "relaunch"}, at : WorkspaceOrNone,
   session : Nat, winner : WorkspaceOrNone,
   step : {"none", "first", "pause", "interrupt", "clear", "send"}]

\* A queue has a thread exactly while it has a session, which is a record's, and only
\* an active head is in conflict.
QueueFits(q) ==
  /\ q.session # NoSession <=> q.thread # "none"
  /\ q.session # NoSession => q.left > 0
  /\ q.conflict # NoWorkspace => q.session # NoSession

WindowsInv ==
  /\ queue \in [Workspaces -> QueueState]
  /\ open \subseteq Workspaces /\ restarting \subseteq Workspaces \ open
  /\ \A w \in Workspaces : QueueFits(queue[w])

ServiceInv == service \in ServiceState /\ IsInjective(suspended)

\* A request is made to a workspace, and a preemption names a session.
RequestFits(r) ==
  /\ r.op = "none" <=> r = NoRequest
  /\ r.op # "none" => r.at \in Workspaces
  /\ r.op = "preempt" => r.session # NoSession

\* The cycle waits for an answer exactly while a request of its own is under way, and
\* what it goes on to ask for is known.
LoopFits ==
  /\ loop.unread \subseteq loop.registered
  /\ loop.pc = "call" <=> request["loop"].op # "none"
  /\ request["loop"].op = "restore" => loop.index > 0
  /\ loop.pc = "preempt" \/ request["loop"].op = "preempt" => loop.winner \in Workspaces
  /\ loop.pc = "poll" => loop.todo = {}
  /\ \A w \in Workspaces : loop.obs[w].status = "running" => loop.obs[w].session # NoSession
  /\ \A w \in loop.todo : loop.obs[w].session # NoSession

TakeoverFits ==
  /\ takeover.pc = "call" <=> request["takeover"].op # "none"
  /\ takeover.pc # "none" => takeover.target \in Workspaces
  /\ \A key \in takeover.losers : key[2] # NoSession

CallsInv ==
  /\ loop \in LoopState /\ takeover \in TakeoverState /\ request \in [Lines -> RequestState]
  /\ \A c \in Lines : RequestFits(request[c])
  /\ LoopFits /\ TakeoverFits

UsedInv == used \in 0..MaxDisturbances

TypeInv == WindowsInv /\ ServiceInv /\ CallsInv /\ UsedInv

LEMMA TypesImplied == TypeInv => TypeOK
<1> SUFFICES ASSUME TypeInv PROVE TypeOK
  OBVIOUS
<1>1. /\ owner \in Key /\ previous \in [Workspaces -> Nat] /\ service.observed \subseteq Workspaces
      /\ inFlight \subseteq Key /\ suspended \in Seq(Key) /\ IsInjective(suspended)
      /\ released \in {"unset", "delay", "ready"} /\ service.preferred \in WorkspaceOrNone
      /\ protected \in [Workspaces -> {"none", "held", "grace"}]
  BY DEF TypeInv, ServiceInv, ServiceState, owner, previous, inFlight, suspended, released,
         protected
<1>2. /\ loop.obs \in [Workspaces -> Observation] /\ loop.unread \subseteq loop.registered
      /\ takeover.target \in WorkspaceOrNone
      /\ takeover.losers \subseteq Workspaces \X Nat
      /\ \A c \in Lines : request[c].at \in WorkspaceOrNone
  BY DEF TypeInv, CallsInv, LoopState, TakeoverState, RequestState, LoopFits
<1>3. /\ loop.pc = "call" <=> request["loop"] # NoRequest
      /\ takeover.pc = "call" <=> request["takeover"] # NoRequest
  BY DEF TypeInv, CallsInv, LoopFits, TakeoverFits, RequestFits, Lines
<1> QED
  BY <1>1, <1>2, <1>3 DEF TypeInv, WindowsInv, UsedInv, TypeOK, QueueState, Key

LEMMA InitTypes == Init => TypeInv
<1> SUFFICES ASSUME Init PROVE TypeInv
  OBVIOUS
<1>1. WindowsInv
  BY ArbiterAssumption
  DEF Init, WindowsInv, QueueState, QueueFits, NoSession, WorkspaceOrNone
<1>2. ServiceInv
  <2>1. <<>> \in Seq(Key) /\ IsInjective(<<>>)
    BY EmptySeq DEF IsInjective
  <2>2. \A none \in Seq(Key) :
          service = [owner |-> Nobody, previous |-> [w \in Workspaces |-> NoSession],
                     observed |-> {}, inFlight |-> {}, suspended |-> none,
                     released |-> "unset", preferred |-> NoWorkspace,
                     protected |-> [w \in Workspaces |-> "none"]]
            => service \in ServiceState /\ suspended = none
    BY DEF ServiceState, suspended, Key, NoSession, WorkspaceOrNone
  <2> QED
    BY <2>1, <2>2 DEF Init, Forgotten, ServiceInv
<1>3. CallsInv
  BY DEF Init, CallsInv, NoLoop, NoTakeover, NoRequest, LoopState, TakeoverState, RequestState,
         RequestFits, LoopFits, TakeoverFits, Lines, Observation, Missing, NoSession,
         WorkspaceOrNone
<1> QED
  BY <1>1, <1>2, <1>3, ArbiterAssumption DEF TypeInv, UsedInv, Init

------------------------------------------------------------------------------
(* Windows.                                                                 *)

LEMMA PutKept ==
  ASSUME WindowsInv, NEW w \in Workspaces, NEW q \in QueueState, QueueFits(q), Put(w, q),
         open' \subseteq Workspaces, restarting' \subseteq Workspaces \ open'
  PROVE WindowsInv' /\ queue'[w] = q /\ \A v \in Workspaces \ {w} : queue'[v] = queue[v]
  BY DEF WindowsInv, Put

\* The records a queue is replaced by.
LEMMA QueueRecords ==
  ASSUME NEW q \in QueueState, QueueFits(q)
  PROVE /\ q.left > 0 => Started(q) \in QueueState /\ QueueFits(Started(q))
        /\ Halted(q) \in QueueState /\ QueueFits(Halted(q))
        /\ Reloaded(q) \in QueueState /\ QueueFits(Reloaded(q))
        /\ \A paused \in BOOLEAN :
             [q EXCEPT !.paused = paused] \in QueueState /\ QueueFits([q EXCEPT !.paused = paused])
        /\ \A thread \in {"running", "waiting", "completed", "lost"} :
             q.thread # "none" =>
               [q EXCEPT !.thread = thread] \in QueueState /\ QueueFits([q EXCEPT !.thread = thread])
<1>1. q.left > 0 => Started(q) \in QueueState /\ QueueFits(Started(q))
  <2> DEFINE next == q.started + 1
  <2>1. next \in Nat /\ next # 0
    BY DEF QueueState
  <2>2. Started(q) = [q EXCEPT !.session = next, !.started = next, !.thread = "running",
                               !.model = "unasked"]
    BY DEF Started
  <2> HIDE DEF next
  <2>3. q.left > 0 => Started(q) \in QueueState /\ QueueFits(Started(q))
    BY <2>1, <2>2 DEF QueueState, QueueFits, NoSession
  <2> QED
    BY <2>3
<1>2. Halted(q) \in QueueState /\ QueueFits(Halted(q))
  BY DEF QueueState, QueueFits, Halted
<1>3. Reloaded(q) \in QueueState /\ QueueFits(Reloaded(q))
  BY DEF QueueState, QueueFits, Reloaded
<1>4. \A paused \in BOOLEAN :
        [q EXCEPT !.paused = paused] \in QueueState /\ QueueFits([q EXCEPT !.paused = paused])
  BY DEF QueueState, QueueFits
<1>5. \A thread \in {"running", "waiting", "completed", "lost"} :
        q.thread # "none" =>
          [q EXCEPT !.thread = thread] \in QueueState /\ QueueFits([q EXCEPT !.thread = thread])
  BY DEF QueueState, QueueFits
<1> QED
  BY <1>1, <1>2, <1>3, <1>4, <1>5

LEMMA OwnActions ==
  ASSUME WindowsInv, UsedInv, NEW w \in Workspaces,
         Dispatch(w) \/ Claim(w) \/ Advance(w) \/ UserAct(w) \/ RecoverHead(w)
  PROVE /\ WindowsInv' /\ UsedInv' /\ used' >= used
        /\ UNCHANGED <<open, restarting, service, loop, takeover, request>>
<1>1. queue[w] \in QueueState /\ QueueFits(queue[w])
  BY DEF WindowsInv
<1>2. /\ UNCHANGED <<open, restarting, service, loop, takeover, request>>
      /\ UsedInv' /\ used' >= used
  BY ArbiterAssumption
  DEF Dispatch, Claim, Advance, UserAct, RecoverHead, Within, Disturb, UsedInv
<1>3. PICK q \in QueueState : QueueFits(q) /\ Put(w, q)
  <2>1. CASE Dispatch(w)
    BY <1>1, <2>1, QueueRecords DEF Dispatch, Within
  <2>2. CASE Claim(w)
    BY <1>1, <2>2, QueueRecords DEF Claim, Within
  <2>3. CASE Advance(w)
    <3> DEFINE q == [queue[w] EXCEPT !.left = @ - 1, !.session = NoSession, !.thread = "none",
                                     !.conflict = NoWorkspace, !.recovering = FALSE]
    <3>1. queue[w].left \in Nat /\ queue[w].left > 0
      BY <1>1, <2>3 DEF Advance, QueueFits, QueueState
    <3>2. queue[w].left - 1 \in Nat
      BY <3>1
    <3>3. q \in QueueState /\ QueueFits(q)
      BY <1>1, <3>2 DEF QueueState, QueueFits, NoSession, WorkspaceOrNone
    <3> QED
      BY <2>3, <3>3 DEF Advance, Within
  <2>4. CASE UserAct(w)
    <3>1. \/ queue[w].thread # "none"
             /\ \E t \in {"running", "waiting", "completed", "lost"} :
                  Put(w, [queue[w] EXCEPT !.thread = t])
          \/ queue[w].thread # "none" /\ Put(w, [queue[w] EXCEPT !.thread = "lost", !.paused = TRUE])
          \/ Put(w, [queue[w] EXCEPT !.paused = TRUE])
      BY <2>4 DEF UserAct, Within
    <3>2. queue[w].thread # "none" =>
            /\ [queue[w] EXCEPT !.thread = "lost", !.paused = TRUE] \in QueueState
            /\ QueueFits([queue[w] EXCEPT !.thread = "lost", !.paused = TRUE])
      BY <1>1 DEF QueueState, QueueFits
    <3> QED
      BY <1>1, <3>1, <3>2, QueueRecords
  <2>5. CASE RecoverHead(w)
    <3> DEFINE q == [queue[w] EXCEPT !.recovering = FALSE,
                                     !.thread = IF @ = "waiting" THEN "running" ELSE @]
    <3>1. q \in QueueState /\ QueueFits(q)
      BY <1>1 DEF QueueState, QueueFits
    <3> QED
      BY <2>5, <3>1 DEF RecoverHead, Within
  <2> QED
    BY <2>1, <2>2, <2>3, <2>4, <2>5
<1> QED
  BY <1>2, <1>3, PutKept DEF WindowsInv

\* The service's part of a restarted companion is its lease.
LEMMA WindowActions ==
  ASSUME WindowsInv, ServiceInv, UsedInv, NEW w \in Workspaces,
         \/ Close(w) \/ Reopen(w) \/ RestartCompanion(w) \/ CompanionReplaced(w)
         \/ CompanionMissing(w)
  PROVE /\ WindowsInv' /\ ServiceInv' /\ UsedInv' /\ used' >= used
        /\ UNCHANGED <<loop, takeover, request>>
        /\ \A v \in Workspaces : queue'[v].session = queue[v].session
             /\ queue'[v].conflict = queue[v].conflict
             /\ (queue'[v].thread = "lost" <=> queue[v].thread = "lost")
        /\ \E p \in [Workspaces -> {"none", "held", "grace"}] :
             service' = [service EXCEPT !.protected = p]
<1>1. queue[w] \in QueueState /\ QueueFits(queue[w])
  BY DEF WindowsInv
<1>2. UsedInv' /\ used' >= used /\ UNCHANGED <<loop, takeover, request>>
  BY ArbiterAssumption
  DEF Close, Reopen, RestartCompanion, CompanionReplaced, CompanionMissing, Disturb, UsedInv
<1>3. open' \subseteq Workspaces /\ restarting' \subseteq Workspaces \ open'
  BY DEF Close, Reopen, RestartCompanion, CompanionReplaced, CompanionMissing, Opens, WindowsInv
<1>4. Put(w, Halted(queue[w])) \/ Put(w, Reloaded(queue[w])) \/ UNCHANGED queue
  BY DEF Close, Reopen, RestartCompanion, CompanionReplaced, CompanionMissing, Opens
<1>5. WindowsInv'
  BY <1>1, <1>3, <1>4, QueueRecords, PutKept DEF WindowsInv
<1>6. \A v \in Workspaces : queue'[v].session = queue[v].session
             /\ queue'[v].conflict = queue[v].conflict
             /\ (queue'[v].thread = "lost" <=> queue[v].thread = "lost")
  <2>1. /\ Halted(queue[w]).session = queue[w].session
        /\ Halted(queue[w]).conflict = queue[w].conflict
        /\ Halted(queue[w]).thread = "lost" <=> queue[w].thread = "lost"
        /\ Reloaded(queue[w]).session = queue[w].session
        /\ Reloaded(queue[w]).conflict = queue[w].conflict
        /\ Reloaded(queue[w]).thread = queue[w].thread
    BY <1>1 DEF Halted, Reloaded, QueueState
  <2> QED
    <3>1. CASE Put(w, Halted(queue[w]))
      BY <1>1, <2>1, <3>1 DEF Put, WindowsInv
    <3>2. CASE Put(w, Reloaded(queue[w]))
      BY <1>1, <2>1, <3>2 DEF Put, WindowsInv
    <3> QED
      BY <1>4, <3>1, <3>2
<1>7. PICK p \in [Workspaces -> {"none", "held", "grace"}] :
        service' = [service EXCEPT !.protected = p]
  <2>1. service \in ServiceState
    BY DEF ServiceInv
  <2>2. UNCHANGED service \/ \E x \in {"none", "held", "grace"} :
                               service' = [service EXCEPT !.protected[w] = x]
    <3>1. service.protected[w] \in {"none", "held", "grace"}
      BY <2>1 DEF ServiceState
    <3> QED
      BY <3>1 DEF Close, Reopen, RestartCompanion, CompanionReplaced, CompanionMissing
  <2>3. CASE UNCHANGED service
    <3>1. service' = [service EXCEPT !.protected = service.protected]
      BY <2>1, <2>3 DEF ServiceState
    <3> QED
      BY <2>1, <3>1 DEF ServiceState
  <2>4. ASSUME NEW x \in {"none", "held", "grace"}, service' = [service EXCEPT !.protected[w] = x]
        PROVE \E p \in [Workspaces -> {"none", "held", "grace"}] :
                service' = [service EXCEPT !.protected = p]
    <3>1. [service.protected EXCEPT ![w] = x] \in [Workspaces -> {"none", "held", "grace"}]
      BY <2>1 DEF ServiceState
    <3>2. service' = [service EXCEPT !.protected = [service.protected EXCEPT ![w] = x]]
      BY <2>1, <2>4 DEF ServiceState
    <3> QED
      BY <3>1, <3>2
  <2> QED
    BY <2>2, <2>3, <2>4
<1>8. ServiceInv'
  BY <1>7 DEF ServiceInv, ServiceState, suspended
<1> QED
  BY <1>2, <1>5, <1>6, <1>7, <1>8

------------------------------------------------------------------------------
(* The list of the suspended queues.                                        *)

Listed(s) == s \in Seq(Key) /\ IsInjective(s)

LEMMA ListedAppend ==
  ASSUME NEW s, Listed(s), NEW key \in Key, ~Contains(s, key)
  PROVE Listed(Append(s, key))
<1>1. /\ Append(s, key) \in Seq(Key) /\ Len(Append(s, key)) = Len(s) + 1
      /\ \A i \in 1..Len(s) : Append(s, key)[i] = s[i]
      /\ Append(s, key)[Len(s) + 1] = key
      /\ Len(s) \in Nat
  BY AppendProperties DEF Listed
<1>2. DOMAIN Append(s, key) = 1..(Len(s) + 1) /\ DOMAIN s = 1..Len(s)
  BY <1>1 DEF Listed
<1> QED
  BY <1>1, <1>2 DEF Listed, IsInjective, Contains

LEMMA ListedRemoveAt ==
  ASSUME NEW s, Listed(s), NEW i \in DOMAIN s
  PROVE Listed(RemoveAt(s, i))
<1> DEFINE n == Len(s)
           r == RemoveAt(s, i)
<1>1. n \in Nat /\ i \in 1..n /\ s \in [1..n -> Key]
  BY DEF Listed
<1>2. /\ r \in Seq(Key) /\ Len(r) = n - 1
      /\ \A j \in 1..(n - 1) : r[j] = IF j < i THEN s[j] ELSE s[j + 1]
  <2> DEFINE x == SubSeq(s, 1, i - 1)
             y == SubSeq(s, i + 1, n)
  <2>1. x \in Seq(Key) /\ Len(x) = i - 1 /\ \A j \in 1..(i - 1) : x[j] = s[j]
    BY <1>1 DEF Listed
  <2>2. y \in Seq(Key) /\ Len(y) = n - i /\ \A j \in 1..(n - i) : y[j] = s[i + j]
    <3>1. /\ y \in Seq(Key) /\ Len(y) = IF i + 1 <= n THEN n - (i + 1) + 1 ELSE 0
          /\ \A j \in 1..(n - (i + 1) + 1) : y[j] = s[(i + 1) + j - 1]
      <4>1. i + 1 \in Int /\ n \in Int /\ \A j \in (i + 1)..n : s[j] \in Key
        BY <1>1
      <4> QED
        BY <4>1, SubSeqProperties
    <3>2. n - (i + 1) + 1 = n - i /\ \A j \in 1..(n - i) : (i + 1) + j - 1 = i + j
      BY <1>1
    <3> QED
      BY <1>1, <3>1, <3>2
  <2> HIDE DEF x, y
  <2>3. /\ x \o y \in Seq(Key) /\ Len(x \o y) = n - 1
        /\ \A j \in 1..(n - 1) : (x \o y)[j] = IF j <= i - 1 THEN x[j] ELSE y[j - (i - 1)]
    <3>1. /\ x \o y \in Seq(Key) /\ Len(x \o y) = Len(x) + Len(y)
          /\ \A j \in 1..(Len(x) + Len(y)) :
               (x \o y)[j] = IF j <= Len(x) THEN x[j] ELSE y[j - Len(x)]
      BY <2>1, <2>2, ConcatProperties
    <3>2. Len(x) + Len(y) = n - 1
      BY <1>1, <2>1, <2>2
    <3> QED
      BY <2>1, <3>1, <3>2
  <2>4. r = x \o y
    BY DEF x, y, RemoveAt
  <2>5. ASSUME NEW j \in 1..(n - 1) PROVE r[j] = IF j < i THEN s[j] ELSE s[j + 1]
    <3>1. CASE j < i
      BY <1>1, <2>1, <2>3, <2>4, <3>1
    <3>2. CASE ~(j < i)
      <4>1. r[j] = y[j - (i - 1)] /\ j - (i - 1) \in 1..(n - i)
        BY <1>1, <2>3, <2>4, <3>2
      <4>2. i + (j - (i - 1)) = j + 1
        BY <1>1
      <4> QED
        BY <2>2, <3>2, <4>1, <4>2
    <3> QED
      BY <3>1, <3>2
  <2> QED
    BY <2>3, <2>4, <2>5
<1>3. DOMAIN r = 1..(n - 1)
  BY <1>2
<1>4. ASSUME NEW a \in DOMAIN r, NEW b \in DOMAIN r, r[a] = r[b] PROVE a = b
  <2> DEFINE At1(j) == IF j < i THEN j ELSE j + 1
  <2>1. /\ At1(a) \in DOMAIN s /\ At1(b) \in DOMAIN s
        /\ r[a] = s[At1(a)] /\ r[b] = s[At1(b)]
    BY <1>1, <1>2, <1>3
  <2>2. At1(a) = At1(b)
    BY <1>4, <2>1 DEF Listed, IsInjective
  <2> QED
    BY <1>1, <1>3, <2>2
<1> QED
  BY <1>2, <1>4 DEF Listed, IsInjective

LEMMA ListedRemoveFirst ==
  ASSUME NEW s, Listed(s), NEW key
  PROVE Listed(RemoveFirst(s, key))
<1>1. CASE \E i \in 1..Len(s) : s[i] = key
  <2>1. PICK i \in 1..Len(s) : s[i] = key
    BY <1>1
  <2>2. {j \in 1..Len(s) : s[j] = key} = {i}
    BY <2>1 DEF Listed, IsInjective
  <2>3. SelectInSeq(s, LAMBDA v : v = key) = i
    BY <2>1, <2>2 DEF SelectInSeq, Min, Listed
  <2>4. RemoveFirst(s, key) = RemoveAt(s, i)
    BY <1>1, <2>3 DEF RemoveFirst
  <2> QED
    BY <2>1, <2>4, ListedRemoveAt DEF Listed
<1>2. CASE ~\E i \in 1..Len(s) : s[i] = key
  BY <1>2 DEF RemoveFirst
<1> QED
  BY <1>1, <1>2

LEMMA ListedConcat ==
  ASSUME NEW s, Listed(s), NEW S \in SUBSET Key, IsFiniteSet(S), S \cap ToSet(s) = {},
         NEW t \in SetToSeqs(S)
  PROVE Listed(s \o t)
<1> DEFINE n == Len(s)
           m == Cardinality(S)
<1>1. m \in Nat /\ n \in Nat /\ s \in [1..n -> Key]
  BY FS_CardinalityType DEF Listed
<1>2. t \in [1..m -> S] /\ \A i, j \in 1..m : i # j => t[i] # t[j]
  BY DEF SetToSeqs
<1>3. t \in Seq(Key) /\ Len(t) = m
  BY <1>1, <1>2
<1>4. /\ s \o t \in Seq(Key) /\ Len(s \o t) = n + m
      /\ \A i \in 1..(n + m) : (s \o t)[i] = IF i <= n THEN s[i] ELSE t[i - n]
  BY <1>1, <1>3, ConcatProperties DEF Listed
<1>5. DOMAIN (s \o t) = 1..(n + m)
  BY <1>1, <1>4
<1>6. \A i \in 1..n : s[i] \notin S
  BY <1>1 DEF ToSet
<1>7. ASSUME NEW a \in 1..(n + m), NEW b \in 1..(n + m), (s \o t)[a] = (s \o t)[b] PROVE a = b
  <2>1. CASE a <= n /\ b <= n
    BY <1>1, <1>4, <1>7, <2>1 DEF Listed, IsInjective
  <2>2. CASE a > n /\ b > n
    <3>1. a - n \in 1..m /\ b - n \in 1..m /\ t[a - n] = t[b - n]
      BY <1>1, <1>4, <1>7, <2>2
    <3> QED
      BY <1>1, <1>2, <3>1
  <2>3. CASE a <= n /\ b > n
    <3>1. a \in 1..n /\ b - n \in 1..m /\ s[a] = t[b - n]
      BY <1>1, <1>4, <1>7, <2>3
    <3> QED
      BY <1>2, <1>6, <3>1
  <2>4. CASE a > n /\ b <= n
    <3>1. b \in 1..n /\ a - n \in 1..m /\ s[b] = t[a - n]
      BY <1>1, <1>4, <1>7, <2>4
    <3> QED
      BY <1>2, <1>6, <3>1
  <2> QED
    BY <1>1, <2>1, <2>2, <2>3, <2>4
<1> QED
  BY <1>4, <1>5, <1>7 DEF Listed, IsInjective

------------------------------------------------------------------------------
(* Calls and their answers.                                                 *)

\* A change of the service's record that leaves the list alone, or replaces it.
LEMMA ServiceKept ==
  ASSUME ServiceInv, service' \in ServiceState, Listed(service'.suspended)
  PROVE ServiceInv'
  BY DEF ServiceInv, suspended, Listed

LEMMA ServiceRecords ==
  ASSUME ServiceInv, NEW key \in Key
  PROVE /\ \A ok \in BOOLEAN :
             Preempted(key, ok) \in ServiceState /\ Listed(Preempted(key, ok).suspended)
        /\ Restored \in ServiceState /\ Listed(Restored.suspended)
        /\ LET t == [service EXCEPT !.owner = key, !.released = "unset"]
           IN t \in ServiceState /\ Listed(t.suspended)
        /\ LET t == [service EXCEPT !.suspended = RemoveFirst(@, key)]
           IN t \in ServiceState /\ Listed(t.suspended)
        /\ LET t == [service EXCEPT !.inFlight = @ \cup {key}]
           IN t \in ServiceState /\ Listed(t.suspended)
<1>1. service \in ServiceState /\ Listed(service.suspended)
  BY DEF ServiceInv, ServiceState, Listed, suspended
<1>2. \A s : Listed(s) => LET t == [service EXCEPT !.suspended = s]
                          IN t \in ServiceState /\ t.suspended = s
  BY <1>1 DEF ServiceState, Listed
<1>3. ASSUME NEW ok \in BOOLEAN
      PROVE Preempted(key, ok) \in ServiceState /\ Listed(Preempted(key, ok).suspended)
  <2>1. CASE ok
    <3>1. Listed(IF Contains(service.suspended, key) THEN service.suspended
                 ELSE Append(service.suspended, key))
      BY <1>1, ListedAppend
    <3> QED
      BY <1>2, <2>1, <3>1 DEF Preempted
  <2>2. CASE ~ok
    BY <1>1, <2>2 DEF Preempted, ServiceState
  <2> QED
    BY <2>1, <2>2
<1>4. Restored \in ServiceState /\ Listed(Restored.suspended)
  <2> DEFINE s == IF loop.index \in DOMAIN service.suspended
                  THEN RemoveAt(service.suspended, loop.index) ELSE service.suspended
  <2>1. Listed(s)
    BY <1>1, ListedRemoveAt
  <2>2. Restored = [service EXCEPT !.suspended = s, !.owner = Nobody, !.released = "unset"]
    BY DEF Restored
  <2> HIDE DEF s
  <2>3. s \in Seq(Key) /\ Nobody \in Key
    BY <2>1 DEF Listed, Key
  <2> QED
    BY <1>1, <2>1, <2>2, <2>3 DEF ServiceState
<1>5. LET t == [service EXCEPT !.owner = key, !.released = "unset"]
      IN t \in ServiceState /\ Listed(t.suspended)
  BY <1>1 DEF ServiceState
<1>6. LET t == [service EXCEPT !.suspended = RemoveFirst(@, key)]
      IN t \in ServiceState /\ Listed(t.suspended)
  BY <1>1, <1>2, ListedRemoveFirst
<1>7. LET t == [service EXCEPT !.inFlight = @ \cup {key}]
      IN t \in ServiceState /\ Listed(t.suspended)
  BY <1>1 DEF ServiceState
<1> QED
  BY <1>3, <1>4, <1>5, <1>6, <1>7

\* The caller goes on with what it hears, and waits no longer.
LEMMA HeardKept ==
  ASSUME ServiceInv, CallsInv, NEW c \in Lines, request[c].op # "none", NEW ok \in BOOLEAN,
         Heard(c, ok), request' \in [Lines -> RequestState], request'[c] = NoRequest,
         \A d \in Callers \ {c} : request'[d] = request[d],
         \A d \in Lines : RequestFits(request'[d])
  PROVE ServiceInv' /\ CallsInv'
<1>1. loop \in LoopState /\ takeover \in TakeoverState /\ RequestFits(request[c])
  BY DEF CallsInv
<1>2. <<request[c].at, request[c].session>> \in Key
  BY <1>1 DEF RequestFits, CallsInv, RequestState, Key
<1>3. service \in ServiceState /\ Listed(service.suspended)
  BY DEF ServiceInv, ServiceState, Listed, suspended
<1>4. CASE c = "loop"
  <2> DEFINE r == request[c]
  <2>1. LoopAnswered(r, ok)
    BY <1>4 DEF Heard
  <2>2. \/ UNCHANGED service \/ service' = Preempted(<<r.at, r.session>>, ok)
        \/ service' = [service EXCEPT !.owner = <<r.at, r.session>>, !.released = "unset"]
        \/ service' = Restored
    BY <2>1 DEF LoopAnswered
  <2>3. ServiceInv'
    BY <1>2, <1>3, <2>2, ServiceRecords, ServiceKept
  <2>4. /\ UNCHANGED takeover
        /\ \/ r.op = "preempt" /\ loop' = [loop EXCEPT !.pc = "preempt"]
           \/ \E pc \in {"bookkeep", "restore"} : loop' = [loop EXCEPT !.pc = pc]
           \/ r.op = "restore" /\ loop' = [loop EXCEPT !.pc = "restoring", !.index = @ - 1]
    BY <2>1 DEF LoopAnswered, LoopGoes
  <2>5. /\ request'["loop"].op = "none" /\ request'["takeover"] = request["takeover"]
        /\ loop.pc = "call"
    BY <1>1, <1>4 DEF NoRequest, Callers, CallsInv, LoopFits
  <2>6. loop' \in LoopState /\ LoopFits'
    <3>1. CASE r.op = "preempt" /\ loop' = [loop EXCEPT !.pc = "preempt"]
      BY <1>1, <1>4, <2>5, <3>1 DEF LoopState, LoopFits, CallsInv
    <3>2. CASE \E pc \in {"bookkeep", "restore"} : loop' = [loop EXCEPT !.pc = pc]
      BY <1>1, <1>4, <2>5, <3>2 DEF LoopState, LoopFits, CallsInv
    <3>3. CASE r.op = "restore" /\ loop' = [loop EXCEPT !.pc = "restoring", !.index = @ - 1]
      <4>1. loop.index - 1 \in Nat
        BY <1>1, <1>4, <3>3 DEF LoopState, LoopFits, CallsInv
      <4> QED
        BY <1>1, <1>4, <2>5, <3>3, <4>1 DEF LoopState, LoopFits, CallsInv
    <3> QED
      BY <2>4, <3>1, <3>2, <3>3
  <2>7. takeover' \in TakeoverState /\ TakeoverFits'
    BY <1>1, <2>4, <2>5 DEF CallsInv, TakeoverFits
  <2> QED
    BY <2>3, <2>6, <2>7 DEF CallsInv
<1>5. CASE c = "takeover"
  <2> DEFINE r == request[c]
  <2>1. TakeoverAnswered(r, ok)
    BY <1>5 DEF Heard
  <2>2. \/ UNCHANGED service \/ service' = Preempted(<<r.at, r.session>>, ok)
        \/ service' = [service EXCEPT !.suspended = RemoveFirst(@, <<r.at, r.session>>)]
    BY <2>1 DEF TakeoverAnswered
  <2>3. ServiceInv'
    BY <1>2, <1>3, <2>2, ServiceRecords, ServiceKept
  <2>4. /\ UNCHANGED loop
        /\ \/ \E pc \in {"target", "preempt"} : takeover' = [takeover EXCEPT !.pc = pc]
           \/ takeover' = NoTakeover
    BY <2>1 DEF TakeoverAnswered, TakeoverGoes
  <2>5. /\ request'["takeover"].op = "none" /\ request'["loop"] = request["loop"]
        /\ takeover.pc = "call"
    BY <1>1, <1>5 DEF NoRequest, Callers, CallsInv, TakeoverFits
  <2>6. takeover' \in TakeoverState /\ TakeoverFits'
    <3>1. CASE takeover' = NoTakeover
      BY <2>5, <3>1 DEF NoTakeover, TakeoverState, TakeoverFits, WorkspaceOrNone, NoSession
    <3>2. CASE \E pc \in {"target", "preempt"} : takeover' = [takeover EXCEPT !.pc = pc]
      BY <1>1, <2>5, <3>2 DEF TakeoverState, TakeoverFits, CallsInv
    <3> QED
      BY <2>4, <3>1, <3>2
  <2>7. loop' \in LoopState /\ LoopFits'
    BY <1>1, <2>4, <2>5 DEF CallsInv, LoopFits
  <2> QED
    BY <2>3, <2>6, <2>7 DEF CallsInv
<1>6. CASE c \notin Callers
  <2>1. UNCHANGED <<service, loop, takeover>>
    BY <1>6 DEF Heard, Callers
  <2>2. request'["loop"] = request["loop"] /\ request'["takeover"] = request["takeover"]
    BY <1>6 DEF Callers
  <2> QED
    BY <1>3, <2>1, <2>2, ServiceKept DEF CallsInv, LoopFits, TakeoverFits
<1> QED
  BY <1>4, <1>5, <1>6 DEF Callers

LEMMA EndsKept ==
  ASSUME ServiceInv, CallsInv, NEW c \in Lines, request[c].op # "none", NEW ok \in BOOLEAN,
         Ends(c, ok)
  PROVE ServiceInv' /\ CallsInv'
<1>1. NoRequest \in RequestState /\ RequestFits(NoRequest)
  BY DEF NoRequest, RequestState, RequestFits, NoSession, WorkspaceOrNone
<1>2. /\ request' \in [Lines -> RequestState] /\ request'[c] = NoRequest
      /\ \A d \in Lines \ {c} : request'[d] = request[d]
  BY <1>1 DEF Ends, CallsInv
<1> QED
  BY <1>1, <1>2, HeardKept DEF Ends, CallsInv, Lines, Callers

LEMMA ContinuesKept ==
  ASSUME ServiceInv, CallsInv, NEW c \in Lines, request[c].op # "none",
         NEW step \in {"pause", "interrupt", "clear", "send"}, Continues(c, step)
  PROVE ServiceInv' /\ CallsInv'
<1>1. /\ request' \in [Lines -> RequestState]
      /\ \A d \in Lines \ {c} : request'[d] = request[d]
      /\ request'[c] = [request[c] EXCEPT !.step = step]
  <2> DEFINE r == [request[c] EXCEPT !.step = step]
  <2>1. request' = [request EXCEPT ![c] = r]
    BY DEF Continues
  <2>2. request \in [Lines -> RequestState] /\ r \in RequestState
    BY DEF CallsInv, RequestState
  <2> HIDE DEF r
  <2>3. /\ request' \in [Lines -> RequestState] /\ request'[c] = r
        /\ \A d \in Lines \ {c} : request'[d] = request[d]
    BY <2>1, <2>2
  <2> QED
    BY <2>3 DEF r
<1>2. /\ request'[c].op = request[c].op /\ request'[c].at = request[c].at
      /\ request'[c].session = request[c].session /\ request'[c].op # "none"
  BY <1>1 DEF CallsInv, RequestState
<1>3. RequestFits(request'[c])
  BY <1>2 DEF CallsInv, RequestFits, NoRequest
<1>4. LoopFits' /\ TakeoverFits'
  BY <1>1, <1>2 DEF Continues, CallsInv, LoopFits, TakeoverFits, Lines
<1> QED
  BY <1>1, <1>3, <1>4, ServiceKept
  DEF Continues, CallsInv, ServiceInv, Listed, ServiceState, suspended

\* A request that is served changes the queue it is made to, and only a relaunch changes
\* its session; a preemption puts it in conflict.
LEMMA ServerStepKept ==
  ASSUME TypeInv, NEW c \in Lines, ServerStep(c)
  PROVE TypeInv'
<1> DEFINE w == request[c].at
           q == queue[w]
<1>1. request[c].op # "none"
  BY DEF ServerStep, Unreachable, PreemptChecks, PreemptPauses, PreemptInterrupts, RestoreSends,
         RestoreClears, ResumeUnpauses, ResumeSends, Relaunches, Serving
<1>2. w \in Workspaces /\ q \in QueueState /\ QueueFits(q)
  BY <1>1 DEF TypeInv, CallsInv, RequestFits, WindowsInv
<1>3. ServiceInv' /\ CallsInv'
  <2>1. \/ \E ok \in BOOLEAN : Ends(c, ok)
        \/ \E step \in {"pause", "interrupt", "clear", "send"} : Continues(c, step)
    BY DEF ServerStep, Unreachable, PreemptChecks, PreemptPauses, PreemptInterrupts,
           RestoreSends, RestoreClears, ResumeUnpauses, ResumeSends, Relaunches
  <2> QED
    BY <1>1, <2>1, EndsKept, ContinuesKept DEF TypeInv
<1>4. UsedInv' /\ UNCHANGED <<open, restarting>>
  <2>1. UNCHANGED <<open, restarting>>
    BY DEF ServerStep, Unreachable, PreemptChecks, PreemptPauses, PreemptInterrupts,
           RestoreSends, RestoreClears, ResumeUnpauses, ResumeSends, Relaunches, Serving, windows
  <2>2. UNCHANGED used \/ Disturb("fault")
    BY DEF ServerStep, Unreachable, PreemptChecks, PreemptPauses, PreemptInterrupts,
           RestoreSends, RestoreClears, ResumeUnpauses, ResumeSends, Relaunches
  <2> QED
    BY <2>1, <2>2, ArbiterAssumption DEF TypeInv, UsedInv, Disturb
<1>5. UNCHANGED queue \/ \E p \in QueueState : QueueFits(p) /\ Put(w, p)
  <2>1. CASE Unreachable(c) \/ PreemptChecks(c)
    BY <2>1 DEF Unreachable, PreemptChecks, windows
  <2>2. CASE PreemptPauses(c)
    <3> DEFINE p == [q EXCEPT !.paused = TRUE, !.conflict = request[c].winner]
    <3>1. q.session = request[c].session => p \in QueueState /\ QueueFits(p)
      BY <1>1, <1>2, <2>2
      DEF TypeInv, CallsInv, RequestState, RequestFits, PreemptPauses, Serving, QueueState,
          QueueFits
    <3> QED
      BY <2>2, <3>1 DEF PreemptPauses
  <2>3. CASE PreemptInterrupts(c)
    <3> DEFINE p == [q EXCEPT !.thread = IF @ = "running" THEN "waiting" ELSE @]
    <3>1. p \in QueueState /\ QueueFits(p)
      BY <1>2 DEF QueueState, QueueFits
    <3> QED
      BY <2>3, <3>1 DEF PreemptInterrupts
  <2>4. CASE RestoreSends(c)
    <3> DEFINE p == [q EXCEPT !.thread = "running"]
    <3>1. Conflict(w) => p \in QueueState /\ QueueFits(p)
      BY <1>2 DEF QueueState, QueueFits, Conflict
    <3> QED
      BY <2>4, <3>1 DEF RestoreSends
  <2>5. CASE RestoreClears(c)
    <3> DEFINE p == [q EXCEPT !.paused = FALSE,
                              !.conflict = IF q.session = request[c].session THEN NoWorkspace
                                           ELSE @]
    <3>1. p \in QueueState /\ QueueFits(p)
      BY <1>2 DEF QueueState, QueueFits, WorkspaceOrNone
    <3> QED
      BY <2>5, <3>1 DEF RestoreClears
  <2>6. CASE ResumeUnpauses(c)
    BY <1>2, <2>6, QueueRecords DEF ResumeUnpauses
  <2>7. CASE ResumeSends(c)
    <3> DEFINE p == [q EXCEPT !.thread = IF @ = "waiting" THEN "running" ELSE @]
    <3>1. p \in QueueState /\ QueueFits(p)
      BY <1>2 DEF QueueState, QueueFits
    <3> QED
      BY <2>7, <3>1 DEF ResumeSends
  <2>8. CASE Relaunches(c)
    <3> DEFINE p == [q EXCEPT !.paused = FALSE]
               r == [Started(p) EXCEPT !.conflict = NoWorkspace]
    <3>1. p \in QueueState /\ QueueFits(p)
      BY <1>2, QueueRecords
    <3>2. Active(w) => p.left > 0
      BY <1>2 DEF Active, QueueFits, QueueState
    <3> HIDE DEF p
    <3>3. Active(w) => Started(p) \in QueueState /\ QueueFits(Started(p))
      BY <3>1, <3>2, QueueRecords
    <3>4. Active(w) => r \in QueueState /\ QueueFits(r)
      BY <3>3 DEF QueueState, QueueFits, WorkspaceOrNone
    <3> QED
      BY <2>8, <3>1, <3>4 DEF Relaunches, p
  <2> QED
    BY <2>1, <2>2, <2>3, <2>4, <2>5, <2>6, <2>7, <2>8 DEF ServerStep
<1>6. WindowsInv'
  BY <1>2, <1>4, <1>5, PutKept DEF TypeInv, WindowsInv
<1> QED
  BY <1>3, <1>4, <1>6 DEF TypeInv

LEMMA TimesOutKept ==
  ASSUME TypeInv, NEW c \in Callers, TimesOut(c)
  PROVE TypeInv'
<1>1. NoRequest \in RequestState /\ RequestFits(NoRequest)
  BY DEF NoRequest, RequestState, RequestFits, NoSession, WorkspaceOrNone
<1>2. /\ c \in Lines /\ Late[c] \in Lines /\ Late[c] # c /\ Late[c] \notin Callers
  BY DEF Callers, Lines, Late
<1>3. /\ request' \in [Lines -> RequestState] /\ request'[c] = NoRequest
      /\ request'[Late[c]] = request[c]
      /\ \A d \in Lines \ {c, Late[c]} : request'[d] = request[d]
  BY <1>1, <1>2 DEF TimesOut, TypeInv, CallsInv
<1>4. ServiceInv' /\ CallsInv'
  <2>1. request[c].op # "none" /\ Heard(c, FALSE)
    BY <1>2 DEF TimesOut, TypeInv, CallsInv, RequestFits
  <2>2. \A d \in Lines : RequestFits(request'[d])
    BY <1>1, <1>2, <1>3 DEF TypeInv, CallsInv
  <2>3. \A d \in Callers \ {c} : request'[d] = request[d]
    BY <1>2, <1>3 DEF Callers, Lines
  <2> QED
    BY <1>2, <1>3, <2>1, <2>2, <2>3, HeardKept DEF TypeInv
<1>5. UsedInv' /\ WindowsInv'
  BY ArbiterAssumption DEF TimesOut, windows, Disturb, TypeInv, UsedInv, WindowsInv
<1> QED
  BY <1>4, <1>5 DEF TypeInv

------------------------------------------------------------------------------
(* The service.                                                             *)

\* A poll learns of a session only where a thread runs, and of an orphan only where no
\* interrupted head waits; all it changes is the model that is kept for the head.
LEMMA PolledKept ==
  ASSUME WindowsInv, UsedInv, NEW w \in Workspaces, NEW o \in PossibleObservation(w),
         Polled(w, o), UNCHANGED <<open, restarting>>
  PROVE /\ WindowsInv' /\ UsedInv' /\ used' >= used
        /\ \A v \in Workspaces :
             /\ queue'[v].session = queue[v].session /\ queue'[v].conflict = queue[v].conflict
             /\ queue'[v].thread = queue[v].thread
        /\ o \in Observation
        /\ o.status = "running" => o.session # NoSession
        /\ o.orphan => queue[w].thread = "lost" /\ ~Conflict(w)
        /\ w \notin open => o = Missing
<1>1. queue[w] \in QueueState /\ QueueFits(queue[w])
  BY DEF WindowsInv
<1>2. UsedInv' /\ used' >= used
  <2>1. UNCHANGED used \/ Disturb("fault") \/ Disturb("lookup")
    BY DEF Polled
  <2> QED
    BY <2>1, ArbiterAssumption DEF Disturb, UsedInv
<1>3. o = Missing \/ \E m \in {"known", "failed", "unasked"} : o = Activity(w, m)
  BY DEF PossibleObservation
<1>4. /\ o \in Observation
      /\ o.status = "running" => o.session # NoSession
      /\ o.orphan => queue[w].thread = "lost" /\ ~Conflict(w)
  <2>1. CASE o = Missing
    BY <2>1 DEF Missing, Observation, WorkspaceOrNone, NoSession
  <2>2. ASSUME NEW m \in {"known", "failed", "unasked"}, o = Activity(w, m)
        PROVE /\ o \in Observation
              /\ o.status = "running" => o.session # NoSession
              /\ o.orphan => queue[w].thread = "lost" /\ ~Conflict(w)
    <3>1. Active(w) \in BOOLEAN /\ Orphaned(w) \in BOOLEAN
      BY DEF Active, Orphaned
    <3>2. o \in Observation
      BY <1>1, <2>2, <3>1 DEF Activity, Observation, QueueState
    <3>3. o.orphan = Orphaned(w) /\ o.session = queue[w].session
      BY <2>2 DEF Activity
    <3>4. o.status = "running" => queue[w].thread = "running"
      BY <2>2 DEF Activity
    <3> QED
      BY <1>1, <3>2, <3>3, <3>4 DEF Orphaned, QueueFits
  <2> QED
    BY <1>3, <2>1, <2>2
<1>5. UNCHANGED queue \/ \E m \in {"known", "failed", "unasked"} :
                           Put(w, [queue[w] EXCEPT !.model = m])
  <2>1. \A m \in Identities(w) : m \in {"known", "failed", "unasked"}
    BY <1>1 DEF Identities, QueueState
  <2> QED
    BY <2>1 DEF Polled
<1>6. ASSUME NEW m \in {"known", "failed", "unasked"}, Put(w, [queue[w] EXCEPT !.model = m])
      PROVE /\ WindowsInv'
            /\ \A v \in Workspaces :
                 /\ queue'[v].session = queue[v].session /\ queue'[v].conflict = queue[v].conflict
                 /\ queue'[v].thread = queue[v].thread
  <2> DEFINE q == [queue[w] EXCEPT !.model = m]
  <2>1. /\ q \in QueueState /\ QueueFits(q)
        /\ q.session = queue[w].session /\ q.conflict = queue[w].conflict
        /\ q.thread = queue[w].thread
    BY <1>1 DEF QueueState, QueueFits
  <2>2. Put(w, q)
    BY <1>6
  <2> HIDE DEF q
  <2>3. WindowsInv' /\ queue'[w] = q /\ \A v \in Workspaces \ {w} : queue'[v] = queue[v]
    BY <2>1, <2>2, PutKept DEF WindowsInv
  <2> QED
    BY <2>1, <2>3
<1>7. CASE UNCHANGED queue
  BY <1>2, <1>4, <1>7 DEF WindowsInv, Polled
<1> QED
  BY <1>2, <1>4, <1>5, <1>6, <1>7 DEF Polled

\* A caller makes a request of its own.
LEMMA CallKept ==
  ASSUME CallsInv, NEW c \in Callers, NEW op \in {"preempt", "restore", "resume", "relaunch"},
         NEW w \in Workspaces, NEW s \in Nat, NEW winner \in WorkspaceOrNone,
         op = "preempt" => s # NoSession, Call(c, op, w, s, winner)
  PROVE /\ request' \in [Lines -> RequestState] /\ \A d \in Lines : RequestFits(request'[d])
        /\ request'[c].op = op /\ request'[c].at = w
        /\ \A d \in Lines \ {c} : request'[d] = request[d]
<1> DEFINE r == [op |-> op, at |-> w, session |-> s, winner |-> winner, step |-> "first"]
<1>1. r \in RequestState /\ RequestFits(r) /\ r.op = op /\ r.at = w
  BY DEF RequestState, RequestFits, NoRequest, WorkspaceOrNone
<1>2. request' = [request EXCEPT ![c] = r]
  BY DEF Call
<1> HIDE DEF r
<1> QED
  BY <1>1, <1>2 DEF CallsInv, Callers, Lines

\* The start of a cycle and its polls.
LEMMA LoopReadsKept ==
  ASSUME TypeInv, LoopStarts \/ LoopPolls
  PROVE TypeInv'
<1>1. loop \in LoopState
  BY DEF TypeInv, CallsInv
<1>2. CASE LoopStarts
  <2>1. UNCHANGED <<queue, open, restarting, takeover, used, service, request>>
    BY <1>2 DEF LoopStarts, LoopAt, windows
  <2>2. /\ loop' = [pc |-> "poll", registered |-> open, unread |-> open,
                    obs |-> [w \in Workspaces |-> Missing], winner |-> NoWorkspace, todo |-> {},
                    resumed |-> FALSE, index |-> 0]
        /\ loop.pc = "idle"
    BY <1>2 DEF LoopStarts, LoopAt, NoLoop
  <2>3. Missing \in Observation /\ Missing.status = "missing"
    BY DEF Missing, Observation, WorkspaceOrNone, NoSession
  <2>4. loop' \in LoopState
    BY <2>2, <2>3 DEF LoopState, TypeInv, WindowsInv, WorkspaceOrNone
  <2>5. LoopFits'
    BY <2>1, <2>2, <2>3 DEF LoopFits, TypeInv, CallsInv
  <2>6. CallsInv' /\ WindowsInv' /\ UsedInv'
    BY <2>1, <2>4, <2>5
    DEF TypeInv, CallsInv, WindowsInv, UsedInv, TakeoverFits
  <2> QED
    BY <2>1, <2>6 DEF TypeInv, ServiceInv, suspended
<1>3. CASE LoopPolls
  <2> PICK w \in loop.unread : \E o \in PossibleObservation(w) :
          /\ Polled(w, o)
          /\ loop' = [loop EXCEPT !.unread = @ \ {w}, !.obs[w] = o]
    BY <1>3 DEF LoopPolls
  <2>1. PICK o \in PossibleObservation(w) :
          /\ Polled(w, o)
          /\ loop' = [loop EXCEPT !.unread = @ \ {w}, !.obs[w] = o]
    OBVIOUS
  <2>2. w \in Workspaces
    BY <1>1 DEF LoopState
  <2>3. /\ WindowsInv' /\ UsedInv' /\ o \in Observation
        /\ o.status = "running" => o.session # NoSession
    BY <1>3, <2>1, <2>2, PolledKept DEF TypeInv, LoopPolls
  <2>4. UNCHANGED <<service, takeover, request>> /\ loop.pc = "poll"
    BY <1>3 DEF LoopPolls
  <2> DEFINE seen == [loop.obs EXCEPT ![w] = o]
  <2>5. /\ seen \in [Workspaces -> Observation] /\ seen[w] = o
        /\ \A v \in Workspaces \ {w} : seen[v] = loop.obs[v]
    BY <1>1, <2>2, <2>3 DEF LoopState
  <2>6. loop' = [loop EXCEPT !.unread = @ \ {w}, !.obs = seen]
    BY <1>1, <2>1 DEF LoopState
  <2> HIDE DEF seen
  <2>7. loop' \in LoopState /\ loop'.obs = seen /\ loop'.pc = "poll"
        /\ loop'.todo = loop.todo /\ loop'.unread = loop.unread \ {w}
        /\ loop'.registered = loop.registered
    BY <1>1, <2>4, <2>5, <2>6 DEF LoopState
  <2>8. LoopFits'
    BY <2>3, <2>4, <2>5, <2>7 DEF LoopFits, TypeInv, CallsInv
  <2> QED
    BY <2>3, <2>4, <2>7, <2>8 DEF TypeInv, CallsInv, TakeoverFits, ServiceInv, suspended
<1> QED
  BY <1>2, <1>3

LEMMA RecoveredListed ==
  ASSUME TypeInv, NEW known \in Recovered
  PROVE Listed(known)
<1> DEFINE V == {v \in Workspaces : loop.obs[v].conflict # NoWorkspace}
           entries == {<<w, loop.obs[w].session>> : w \in V}
           S == entries \ ToSet(suspended)
<1>1. PICK unknown \in SetToSeqs(S) : known = suspended \o unknown
  BY DEF Recovered
<1>2. Listed(suspended)
  BY DEF TypeInv, ServiceInv, ServiceState, Listed, suspended
<1>3. S \subseteq Key
  BY DEF TypeInv, CallsInv, LoopState, Observation, Key
<1>4. IsFiniteSet(S)
  <2>1. IsFiniteSet(V)
    BY ArbiterAssumption, FS_Subset
  <2>2. IsFiniteSet(entries)
    <3> DEFINE F == [w \in V |-> <<w, loop.obs[w].session>>]
    <3>1. F \in Surjection(V, entries)
      BY DEF Surjection
    <3> QED
      BY <2>1, <3>1, FS_Surjection
  <2> QED
    BY <2>2, FS_Subset
<1>5. S \cap ToSet(suspended) = {}
  OBVIOUS
<1> QED
  BY <1>1, <1>2, <1>3, <1>4, <1>5, ListedConcat

\* The arbitration: the list gains the preemptions found, leases go, and of those who run
\* one becomes the owner.
LEMMA LoopArbitratesKept ==
  ASSUME TypeInv, LoopArbitrates
  PROVE TypeInv'
<1>1. service \in ServiceState /\ loop \in LoopState
  BY DEF TypeInv, ServiceInv, CallsInv
<1>2. UNCHANGED <<queue, open, restarting, takeover, used, request>> /\ loop.pc = "poll"
  BY DEF LoopArbitrates, LoopAt, windows
<1> PICK known \in Recovered :
      LET s == [service EXCEPT
                  !.suspended = known,
                  !.protected = [w \in Workspaces |-> IF Protects(w) THEN @[w] ELSE "none"]]
      IN \/ /\ service' = s
            /\ \E pc \in {"restore", "orphans"} : LoopGoes(pc)
         \/ /\ service' = [s EXCEPT !.released = "unset"]
            /\ LoopGoes("bookkeep")
         \/ \E w \in Winners :
                 /\ service' = [s EXCEPT !.released = "unset", !.owner = <<w, loop.obs[w].session>>]
                 /\ loop' = [loop EXCEPT !.pc = "preempt", !.winner = w, !.todo = Group \ {w},
                               !.resumed = w \in service.observed /\ previous[w] # loop.obs[w].session]
  BY DEF LoopArbitrates
<1> DEFINE leases == [w \in Workspaces |-> IF Protects(w) THEN service.protected[w] ELSE "none"]
           s == [service EXCEPT !.suspended = known, !.protected = leases]
<1>3. Listed(known) /\ known \in Seq(Key) /\ leases \in [Workspaces -> {"none", "held", "grace"}]
  BY <1>1, RecoveredListed DEF Listed, ServiceState
<1> HIDE DEF leases
<1>4. s \in ServiceState /\ s.suspended = known
  BY <1>1, <1>3 DEF ServiceState
<1>5. \/ /\ service' = s
         /\ \E pc \in {"restore", "orphans"} : LoopGoes(pc)
      \/ /\ service' = [s EXCEPT !.released = "unset"]
         /\ LoopGoes("bookkeep")
      \/ \E w \in Winners :
              /\ service' = [s EXCEPT !.released = "unset", !.owner = <<w, loop.obs[w].session>>]
              /\ loop' = [loop EXCEPT !.pc = "preempt", !.winner = w, !.todo = Group \ {w},
                            !.resumed = w \in service.observed /\ previous[w] # loop.obs[w].session]
  BY DEF leases
<1> HIDE DEF s
<1>6. Winners \subseteq Group /\ Group \subseteq Workspaces
  BY DEF Winners, Group
<1>7. \A w \in Group : loop.obs[w].status = "running" /\ loop.obs[w].session # NoSession
                        /\ <<w, loop.obs[w].session>> \in Key
  BY <1>1 DEF Group, Runs, TypeInv, CallsInv, LoopFits, LoopState, Observation, Key
<1>8. ServiceInv'
  <2>1. service' \in ServiceState /\ service'.suspended = known
    <3>1. CASE service' = s
      BY <1>4, <3>1
    <3>2. CASE service' = [s EXCEPT !.released = "unset"]
      BY <1>4, <3>2 DEF ServiceState
    <3>3. ASSUME NEW w \in Winners,
                 service' = [s EXCEPT !.released = "unset", !.owner = <<w, loop.obs[w].session>>]
          PROVE service' \in ServiceState /\ service'.suspended = known
      <4>1. <<w, loop.obs[w].session>> \in Key
        BY <1>6, <1>7
      <4> QED
        BY <1>4, <3>3, <4>1 DEF ServiceState
    <3> QED
      BY <1>5, <3>1, <3>2, <3>3
  <2> QED
    BY <1>3, <2>1 DEF ServiceInv, Listed, suspended
<1>9. loop' \in LoopState /\ LoopFits'
  <2>1. ASSUME NEW pc \in {"restore", "orphans", "bookkeep"}, LoopGoes(pc)
        PROVE loop' \in LoopState /\ LoopFits'
    BY <1>1, <1>2, <2>1 DEF LoopGoes, LoopState, LoopFits, TypeInv, CallsInv
  <2>2. ASSUME NEW w \in Winners, NEW resumed \in BOOLEAN,
               loop' = [loop EXCEPT !.pc = "preempt", !.winner = w, !.todo = Group \ {w},
                                    !.resumed = resumed]
        PROVE loop' \in LoopState /\ LoopFits'
    <3>1. /\ loop' \in LoopState /\ loop'.pc = "preempt" /\ loop'.winner = w
          /\ loop'.todo = Group \ {w} /\ loop'.obs = loop.obs
          /\ loop'.unread = loop.unread /\ loop'.registered = loop.registered
          /\ loop'.index = loop.index
      BY <1>1, <1>6, <2>2 DEF LoopState, WorkspaceOrNone
    <3> QED
      BY <1>2, <1>6, <1>7, <3>1 DEF LoopFits, TypeInv, CallsInv
  <2> QED
    BY <1>5, <2>1, <2>2
<1> QED
  BY <1>2, <1>8, <1>9 DEF TypeInv, CallsInv, TakeoverFits, WindowsInv, UsedInv

\* The rest of a cycle: what it asks for, and what it notes.
LEMMA LoopAsksKept ==
  ASSUME TypeInv, LoopPreempts \/ LoopResumesWinner \/ LoopOrphans \/ LoopRestores \/ LoopTries
  PROVE TypeInv'
<1>1. service \in ServiceState /\ loop \in LoopState /\ Listed(service.suspended)
  BY DEF TypeInv, ServiceInv, CallsInv, Listed, ServiceState, suspended
<1>2. /\ UNCHANGED <<queue, open, restarting, takeover, used>>
      /\ loop.pc \in {"preempt", "orphans", "restore", "restoring"}
  BY DEF LoopPreempts, LoopResumesWinner, LoopOrphans, LoopRestores, LoopTries, LoopAt, windows
<1> "loop" \in Callers /\ "loop" \in Lines /\ "takeover" \in Lines
  BY DEF Callers, Lines
<1>3. request["loop"].op = "none"
  BY <1>2 DEF TypeInv, CallsInv, LoopFits
\* The cycle goes on without a request ...
<1>4. ASSUME UNCHANGED request,
             NEW pc \in {"restore", "bookkeep"}, loop' = [loop EXCEPT !.pc = pc]
      PROVE CallsInv'
  <2>1. loop' \in LoopState /\ LoopFits'
    BY <1>1, <1>3, <1>4 DEF LoopState, LoopFits, TypeInv, CallsInv
  <2> QED
    BY <1>2, <1>4, <2>1 DEF TypeInv, CallsInv, TakeoverFits
\* ... or makes one.
<1>5. ASSUME NEW op \in {"preempt", "restore", "resume", "relaunch"}, NEW w \in Workspaces,
             NEW s \in Nat, NEW winner \in WorkspaceOrNone, op = "preempt" => s # NoSession,
             Call("loop", op, w, s, winner),
             NEW todo \in SUBSET loop.todo, NEW index \in Nat,
             op = "restore" => index > 0, op = "preempt" => loop.pc = "preempt",
             loop' = [loop EXCEPT !.pc = "call", !.todo = todo, !.index = index]
      PROVE CallsInv'
  <2>1. /\ request' \in [Lines -> RequestState] /\ \A d \in Lines : RequestFits(request'[d])
        /\ request'["loop"].op = op
        /\ \A d \in Lines \ {"loop"} : request'[d] = request[d]
    BY <1>5, CallKept DEF TypeInv
  <2>2. /\ loop' \in LoopState /\ loop'.pc = "call" /\ loop'.todo = todo /\ loop'.index = index
        /\ loop'.obs = loop.obs /\ loop'.winner = loop.winner
        /\ loop'.unread = loop.unread /\ loop'.registered = loop.registered
    BY <1>1, <1>5 DEF LoopState
  <2>3. LoopFits'
    BY <1>2, <1>5, <2>1, <2>2 DEF LoopFits, TypeInv, CallsInv
  <2> QED
    BY <1>2, <2>1, <2>2, <2>3 DEF TypeInv, CallsInv, TakeoverFits
<1>6. loop.todo \subseteq Workspaces /\ loop.index \in Nat
      /\ loop = [loop EXCEPT !.todo = loop.todo, !.index = loop.index]
      /\ \A pc : [loop EXCEPT !.pc = pc]
                   = [loop EXCEPT !.pc = pc, !.todo = loop.todo, !.index = loop.index]
  BY <1>1 DEF LoopState
<1>7. CASE LoopPreempts
  <2>1. PICK w \in loop.todo :
          LET key == <<w, loop.obs[w].session>> IN
          IF key \in inFlight
          THEN loop' = [loop EXCEPT !.todo = @ \ {w}] /\ UNCHANGED <<service, request>>
          ELSE /\ Call("loop", "preempt", w, loop.obs[w].session, loop.winner)
               /\ service' = [service EXCEPT !.inFlight = @ \cup {key}]
               /\ loop' = [loop EXCEPT !.pc = "call", !.todo = @ \ {w}]
    BY <1>7 DEF LoopPreempts
  <2>2. /\ w \in Workspaces /\ loop.pc = "preempt" /\ loop.winner \in Workspaces
        /\ loop.obs[w].session \in Nat /\ loop.obs[w].session # NoSession
    BY <1>1, <1>7 DEF LoopPreempts, LoopAt, LoopState, Observation, TypeInv, CallsInv, LoopFits
  <2> DEFINE key == <<w, loop.obs[w].session>>
  <2>3. key \in Key
    BY <2>2 DEF Key
  <2>4. CASE key \in inFlight
    <3>1. loop' \in LoopState /\ LoopFits'
      BY <1>1, <1>3, <2>1, <2>2, <2>4 DEF LoopState, LoopFits, TypeInv, CallsInv
    <3> QED
      BY <1>2, <2>1, <2>4, <3>1
      DEF TypeInv, CallsInv, TakeoverFits, WindowsInv, ServiceInv, UsedInv, suspended
  <2>5. CASE key \notin inFlight
    <3>1. ServiceInv'
      BY <2>1, <2>3, <2>5, ServiceRecords, ServiceKept DEF TypeInv
    <3>2. loop' = [loop EXCEPT !.pc = "call", !.todo = loop.todo \ {w}, !.index = loop.index]
      BY <1>1, <2>1, <2>5 DEF LoopState
    <3>3. CallsInv'
      BY <1>5, <1>6, <2>1, <2>2, <2>5, <3>2 DEF WorkspaceOrNone
    <3> QED
      BY <1>2, <3>1, <3>3 DEF TypeInv, WindowsInv, UsedInv
  <2> QED
    BY <2>4, <2>5
<1>8. CASE LoopResumesWinner
  <2>1. loop.winner \in Workspaces /\ UNCHANGED service
    BY <1>8 DEF LoopResumesWinner, LoopAt, TypeInv, CallsInv, LoopFits
  <2>2. CallsInv'
    <3>1. CASE LoopGoes("bookkeep") /\ UNCHANGED request
      BY <1>4, <3>1 DEF LoopGoes
    <3>2. CASE Call("loop", "resume", loop.winner, NoSession, NoWorkspace) /\ LoopGoes("call")
      <4>1. loop' = [loop EXCEPT !.pc = "call", !.todo = loop.todo, !.index = loop.index]
        BY <1>6, <3>2 DEF LoopGoes
      <4>2. NoSession \in Nat /\ NoWorkspace \in WorkspaceOrNone
        BY DEF NoSession, WorkspaceOrNone
      <4> QED
        BY <1>5, <1>6, <2>1, <3>2, <4>1, <4>2
    <3> QED
      BY <1>8, <3>1, <3>2 DEF LoopResumesWinner
  <2> QED
    BY <1>2, <2>1, <2>2 DEF TypeInv, WindowsInv, ServiceInv, UsedInv, suspended
<1>9. CASE LoopOrphans
  <2>1. PICK w \in Candidates :
          \/ LoopGoes("restore") /\ UNCHANGED <<service, request>>
          \/ /\ service' = [service EXCEPT !.released = "delay"]
             /\ LoopGoes("restore") /\ UNCHANGED request
          \/ /\ Call("loop", "relaunch", w, loop.obs[w].session, NoWorkspace)
             /\ LoopGoes("call") /\ UNCHANGED service
    BY <1>9 DEF LoopOrphans
  <2>2. w \in Workspaces /\ loop.obs[w].session \in Nat
    BY <1>1 DEF Candidates, Orphans, LoopState, Observation
  <2>3. CallsInv'
    <3>1. CASE LoopGoes("restore") /\ UNCHANGED request
      BY <1>4, <3>1 DEF LoopGoes
    <3>2. CASE /\ Call("loop", "relaunch", w, loop.obs[w].session, NoWorkspace)
               /\ LoopGoes("call")
      <4>1. loop' = [loop EXCEPT !.pc = "call", !.todo = loop.todo, !.index = loop.index]
        BY <1>6, <3>2 DEF LoopGoes
      <4>2. NoWorkspace \in WorkspaceOrNone
        BY DEF WorkspaceOrNone
      <4> QED
        BY <1>5, <1>6, <2>2, <3>2, <4>1, <4>2
    <3> QED
      BY <2>1, <3>1, <3>2
  <2>4. ServiceInv'
    BY <1>1, <2>1 DEF ServiceState, ServiceInv, Listed, suspended
  <2> QED
    BY <1>2, <2>3, <2>4 DEF TypeInv, WindowsInv, UsedInv
<1>10. CASE LoopRestores
  <2>1. ServiceInv'
    BY <1>1, <1>10 DEF LoopRestores, ServiceState, ServiceInv, Listed, suspended
  <2>2. UNCHANGED request /\ (LoopGoes("bookkeep")
          \/ loop' = [loop EXCEPT !.pc = "restoring", !.index = Len(suspended)])
    BY <1>10 DEF LoopRestores
  <2>3. CASE loop' = [loop EXCEPT !.pc = "restoring", !.index = Len(suspended)]
    <3>1. Len(suspended) \in Nat
      BY <1>1 DEF Listed, suspended
    <3>2. loop' \in LoopState /\ LoopFits'
      BY <1>1, <1>3, <2>2, <2>3, <3>1 DEF LoopState, LoopFits, TypeInv, CallsInv
    <3> QED
      BY <1>2, <2>1, <2>2, <3>2 DEF TypeInv, CallsInv, TakeoverFits, WindowsInv, UsedInv
  <2>4. CASE LoopGoes("bookkeep")
    BY <1>2, <1>4, <2>1, <2>2, <2>4 DEF LoopGoes, TypeInv, WindowsInv, UsedInv
  <2> QED
    BY <2>2, <2>3, <2>4
<1>11. CASE LoopTries
  <2> DEFINE i == IF loop.index > Len(suspended) THEN Len(suspended) ELSE loop.index
  <2>1. i \in 0..Len(suspended) /\ i \in Nat
    <3>1. Len(suspended) \in Nat
      BY <1>1 DEF Listed, suspended
    <3>2. loop.index \in Nat
      BY <1>6
    <3> QED
      BY <3>1, <3>2
  <2>2. \/ /\ i = 0
           /\ service' = IF suspended = <<>> THEN [service EXCEPT !.owner = Nobody, !.released = "unset"]
                         ELSE IF owner = Nobody THEN [service EXCEPT !.released = "unset"]
                         ELSE service
           /\ LoopGoes("bookkeep") /\ UNCHANGED request
        \/ /\ i > 0
           /\ loop' = [loop EXCEPT !.index = i - 1] /\ UNCHANGED <<service, request>>
        \/ /\ i > 0 /\ suspended[i][1] \in loop.registered
           /\ Call("loop", "restore", suspended[i][1], suspended[i][2], NoWorkspace)
           /\ loop' = [loop EXCEPT !.pc = "call", !.index = i] /\ UNCHANGED service
    BY <1>11 DEF LoopTries
  <2> HIDE DEF i
  <2>3. ServiceInv'
    <3>1. Nobody \in Key
      BY DEF Key
    <3> QED
      <4>1. \/ UNCHANGED service \/ service' = [service EXCEPT !.released = "unset"]
            \/ service' = [service EXCEPT !.owner = Nobody, !.released = "unset"]
        BY <2>2
      <4> QED
        BY <1>1, <3>1, <4>1 DEF ServiceState, ServiceInv, Listed, suspended
  <2>4. CallsInv'
    <3>1. CASE LoopGoes("bookkeep") /\ UNCHANGED request
      BY <1>4, <3>1 DEF LoopGoes
    <3>2. CASE i > 0 /\ loop' = [loop EXCEPT !.index = i - 1] /\ UNCHANGED request
      <4>1. i - 1 \in Nat
        BY <2>1, <3>2
      <4>2. loop' \in LoopState /\ LoopFits'
        BY <1>1, <1>3, <3>2, <4>1 DEF LoopState, LoopFits, TypeInv, CallsInv
      <4> QED
        BY <1>2, <3>2, <4>2 DEF TypeInv, CallsInv, TakeoverFits
    <3>3. CASE /\ i > 0 /\ suspended[i][1] \in loop.registered
               /\ Call("loop", "restore", suspended[i][1], suspended[i][2], NoWorkspace)
               /\ loop' = [loop EXCEPT !.pc = "call", !.index = i]
      <4>1. suspended[i] \in Key
        BY <1>1, <2>1, <3>3 DEF Listed, suspended
      <4>2. suspended[i][1] \in Workspaces /\ suspended[i][2] \in Nat
        BY <1>1, <3>3, <4>1 DEF Key, Nobody, NoSession, LoopState
      <4>3. loop' = [loop EXCEPT !.pc = "call", !.todo = loop.todo, !.index = i]
        BY <1>1, <3>3 DEF LoopState
      <4> QED
        BY <1>5, <2>1, <3>3, <4>2, <4>3 DEF WorkspaceOrNone
    <3> QED
      BY <2>2, <3>1, <3>2, <3>3
  <2> QED
    BY <1>2, <2>3, <2>4 DEF TypeInv, WindowsInv, UsedInv
<1> QED
  BY <1>7, <1>8, <1>9, <1>10, <1>11

LEMMA NoLoopFits ==
  ASSUME loop' = NoLoop, request'["loop"].op = "none"
  PROVE loop' \in LoopState /\ LoopFits'
<1>1. Missing \in Observation /\ Missing.status = "missing"
  BY DEF Missing, Observation, WorkspaceOrNone, NoSession
<1> QED
  BY <1>1 DEF NoLoop, LoopState, LoopFits, WorkspaceOrNone

LEMMA LoopEndsKept ==
  ASSUME TypeInv, LoopEnds
  PROVE TypeInv'
<1>1. service \in ServiceState /\ loop \in LoopState
  BY DEF TypeInv, ServiceInv, CallsInv
<1>2. /\ UNCHANGED <<queue, open, restarting, takeover, used, request>>
      /\ loop.pc = "bookkeep" /\ service' = Noted /\ loop' = NoLoop
  BY DEF LoopEnds, LoopAt, windows
<1>3. ServiceInv'
  <2> DEFINE flight == {k \in service.inFlight : k[1] \in Group /\ loop.obs[k[1]].session = k[2]}
             before == [w \in Workspaces |->
                          IF ~Seen(loop.obs[w]) THEN service.previous[w]
                          ELSE IF loop.obs[w].status = "running" THEN loop.obs[w].session
                          ELSE NoSession]
             seen == service.observed \cup {w \in Workspaces : Seen(loop.obs[w])}
  <2>1. flight \subseteq Key /\ before \in [Workspaces -> Nat] /\ seen \subseteq Workspaces
    BY <1>1 DEF ServiceState, LoopState, Observation, NoSession
  <2>2. Noted = [service EXCEPT !.inFlight = flight, !.previous = before, !.observed = seen]
    BY DEF Noted
  <2> HIDE DEF flight, before, seen
  <2> QED
    BY <1>1, <1>2, <2>1, <2>2 DEF ServiceState, TypeInv, ServiceInv, suspended
<1>4. CallsInv'
  BY <1>2, NoLoopFits DEF TypeInv, CallsInv, LoopFits, TakeoverFits
<1> QED
  BY <1>2, <1>3, <1>4 DEF TypeInv, WindowsInv, UsedInv

\* An explicit resume.
LEMMA TakeoverKept ==
  ASSUME TypeInv, TakeoverStep \/ \E w \in Workspaces : TakeoverStarts(w)
  PROVE TypeInv'
<1> "takeover" \in Callers /\ "takeover" \in Lines /\ "loop" \in Lines
  BY DEF Callers, Lines
<1>1. service \in ServiceState /\ takeover \in TakeoverState
  BY DEF TypeInv, ServiceInv, CallsInv
<1>2. UNCHANGED loop
  BY DEF TakeoverStep, TakeoverReadsTarget, TakeoverPolls, TakeoverPreempts, TakeoverRestores,
         TakeoverStarts
<1>3. request["loop"]' = request["loop"] => LoopFits'
  BY <1>2 DEF TypeInv, CallsInv, LoopFits
<1>4. NoTakeover \in TakeoverState /\ NoTakeover.pc = "none" /\ NoTakeover.losers = {}
  BY DEF NoTakeover, TakeoverState, WorkspaceOrNone, NoSession
<1>5. ASSUME NEW w \in Workspaces, TakeoverStarts(w) PROVE TypeInv'
  <2>1. /\ request' \in [Lines -> RequestState] /\ \A d \in Lines : RequestFits(request'[d])
        /\ request'["takeover"].op = "resume"
        /\ \A d \in Lines \ {"takeover"} : request'[d] = request[d]
    BY <1>5, CallKept DEF TakeoverStarts, TypeInv, NoSession, WorkspaceOrNone
  <2>2. takeover' \in TakeoverState /\ TakeoverFits'
    BY <1>4, <1>5, <2>1 DEF TakeoverStarts, TakeoverState, TakeoverFits, WorkspaceOrNone
  <2>3. UNCHANGED <<queue, open, restarting, service>> /\ Disturb("takeover")
    BY <1>5 DEF TakeoverStarts, windows
  <2>4. UsedInv'
    BY <2>3, ArbiterAssumption DEF Disturb, TypeInv, UsedInv
  <2> QED
    BY <1>2, <1>3, <2>1, <2>2, <2>3, <2>4 DEF TypeInv, CallsInv, WindowsInv, ServiceInv, suspended
<1>6. CASE TakeoverReadsTarget
  <2>1. PICK o \in PossibleObservation(takeover.target) :
          /\ Polled(takeover.target, o)
          /\ \/ /\ service' = [service EXCEPT !.preferred = takeover.target]
                /\ takeover' = [takeover EXCEPT !.pc = "poll", !.session = o.session,
                                 !.conflict = o.conflict # NoWorkspace,
                                 !.unread = open \ {takeover.target}]
             \/ takeover' = NoTakeover /\ UNCHANGED service
    BY <1>6 DEF TakeoverReadsTarget
  <2>2. /\ takeover.pc = "target" /\ takeover.target \in Workspaces
        /\ UNCHANGED <<open, restarting, loop, request>>
    BY <1>6 DEF TakeoverReadsTarget, TypeInv, CallsInv, TakeoverFits
  <2>3. WindowsInv' /\ UsedInv' /\ o \in Observation
    BY <2>1, <2>2, PolledKept DEF TypeInv
  <2>4. ServiceInv'
    BY <1>1, <2>1, <2>2 DEF TypeInv, ServiceInv, ServiceState, suspended, WorkspaceOrNone
  <2>5. takeover' \in TakeoverState /\ TakeoverFits'
    <3>1. CASE takeover' = NoTakeover
      BY <1>4, <2>2, <3>1 DEF TypeInv, CallsInv, TakeoverFits
    <3>2. CASE takeover' = [takeover EXCEPT !.pc = "poll", !.session = o.session,
                                 !.conflict = o.conflict # NoWorkspace,
                                 !.unread = open \ {takeover.target}]
      <4>1. o.session \in Nat /\ open \ {takeover.target} \subseteq Workspaces
        BY <2>3 DEF Observation, TypeInv, WindowsInv
      <4>2. takeover' \in TakeoverState
        BY <1>1, <3>2, <4>1 DEF TakeoverState
      <4>3. TakeoverFits'
        BY <1>1, <2>2, <3>2 DEF TakeoverState, TypeInv, CallsInv, TakeoverFits
      <4> QED
        BY <4>2, <4>3
    <3> QED
      BY <2>1, <3>1, <3>2
  <2> QED
    BY <1>3, <2>2, <2>3, <2>4, <2>5 DEF TypeInv, CallsInv
<1>7. CASE TakeoverPolls
  <2>1. /\ takeover.pc = "poll" /\ UNCHANGED <<open, restarting, service, loop, request>>
    BY <1>7 DEF TakeoverPolls
  <2>2. CASE takeover.unread = {}
    <3>1. takeover' = [takeover EXCEPT !.pc = "preempt"] /\ UNCHANGED <<queue, used>>
      BY <1>7, <2>2 DEF TakeoverPolls, TakeoverGoes
    <3>2. takeover' \in TakeoverState /\ TakeoverFits'
      BY <1>1, <2>1, <3>1 DEF TakeoverState, TypeInv, CallsInv, TakeoverFits
    <3> QED
      BY <1>3, <2>1, <3>1, <3>2
      DEF TypeInv, CallsInv, WindowsInv, ServiceInv, UsedInv, suspended
  <2>3. CASE takeover.unread # {}
    <3> PICK w \in takeover.unread : \E o \in PossibleObservation(w) :
          /\ Polled(w, o)
          /\ takeover' = [takeover EXCEPT !.unread = @ \ {w},
               !.losers = IF Runs(o) THEN @ \cup {<<w, o.session>>} ELSE @]
      BY <1>7, <2>3 DEF TakeoverPolls
    <3>1. PICK o \in PossibleObservation(w) :
          /\ Polled(w, o)
          /\ takeover' = [takeover EXCEPT !.unread = @ \ {w},
               !.losers = IF Runs(o) THEN @ \cup {<<w, o.session>>} ELSE @]
      OBVIOUS
    <3>2. w \in Workspaces
      BY <1>1 DEF TakeoverState
    <3>3. /\ WindowsInv' /\ UsedInv' /\ o \in Observation
          /\ Runs(o) => o.session # NoSession
      BY <2>1, <3>1, <3>2, PolledKept DEF TypeInv, Runs
    <3> DEFINE losers == IF Runs(o) THEN takeover.losers \cup {<<w, o.session>>}
                         ELSE takeover.losers
    <3>4. losers \subseteq Workspaces \X Nat /\ \A key \in losers : key[2] # NoSession
      BY <1>1, <3>2, <3>3 DEF TakeoverState, Observation, TypeInv, CallsInv, TakeoverFits
    <3>5. takeover' = [takeover EXCEPT !.unread = @ \ {w}, !.losers = losers]
      BY <3>1
    <3> HIDE DEF losers
    <3>6. takeover' \in TakeoverState /\ TakeoverFits'
      BY <1>1, <2>1, <3>4, <3>5 DEF TakeoverState, TypeInv, CallsInv, TakeoverFits
    <3> QED
      BY <1>3, <2>1, <3>3, <3>6 DEF TypeInv, CallsInv, ServiceInv, suspended
  <2> QED
    BY <2>2, <2>3
<1>8. CASE TakeoverPreempts
  <2>1. PICK key \in takeover.losers :
          IF key \in inFlight
          THEN takeover' = [takeover EXCEPT !.losers = @ \ {key}] /\ UNCHANGED <<service, request>>
          ELSE /\ Call("takeover", "preempt", key[1], key[2], takeover.target)
               /\ service' = [service EXCEPT !.inFlight = @ \cup {key}]
               /\ takeover' = [takeover EXCEPT !.pc = "call", !.losers = @ \ {key}]
    BY <1>8 DEF TakeoverPreempts
  <2>2. /\ takeover.pc = "preempt" /\ takeover.target \in Workspaces
        /\ UNCHANGED <<queue, open, restarting, loop, used>>
    BY <1>8 DEF TakeoverPreempts, TypeInv, CallsInv, TakeoverFits, windows
  <2>3. /\ key \in Key /\ key[1] \in Workspaces /\ key[2] \in Nat /\ key[2] # NoSession
    BY <1>1 DEF TakeoverState, TypeInv, CallsInv, TakeoverFits, Key
  <2>4. CASE key \in inFlight
    <3>1. takeover' \in TakeoverState /\ TakeoverFits'
      BY <1>1, <2>1, <2>2, <2>4 DEF TakeoverState, TypeInv, CallsInv, TakeoverFits
    <3> QED
      BY <1>3, <2>1, <2>2, <2>4, <3>1
      DEF TypeInv, CallsInv, WindowsInv, ServiceInv, UsedInv, suspended
  <2>5. CASE key \notin inFlight
    <3>1. ServiceInv'
      BY <2>1, <2>3, <2>5, ServiceRecords, ServiceKept DEF TypeInv
    <3>2. /\ request' \in [Lines -> RequestState] /\ \A d \in Lines : RequestFits(request'[d])
          /\ request'["takeover"].op = "preempt"
          /\ \A d \in Lines \ {"takeover"} : request'[d] = request[d]
      BY <2>1, <2>2, <2>3, <2>5, CallKept DEF TypeInv, WorkspaceOrNone
    <3>3. takeover' = [takeover EXCEPT !.pc = "call", !.losers = @ \ {key}]
      BY <2>1, <2>5
    <3>4. takeover' \in TakeoverState
      BY <1>1, <3>3 DEF TakeoverState
    <3>5. /\ takeover'.pc = "call" /\ takeover'.target = takeover.target
          /\ takeover'.session = takeover.session /\ takeover'.losers \subseteq takeover.losers
      BY <1>1, <3>3 DEF TakeoverState
    <3>6. TakeoverFits'
      BY <2>2, <3>2, <3>5 DEF TypeInv, CallsInv, TakeoverFits
    <3> QED
      BY <1>3, <2>2, <3>1, <3>2, <3>4, <3>6 DEF TypeInv, CallsInv, WindowsInv, UsedInv
  <2> QED
    BY <2>4, <2>5
<1>9. CASE TakeoverRestores
  <2>1. /\ takeover.pc = "preempt" /\ takeover.target \in Workspaces /\ takeover.session \in Nat
        /\ UNCHANGED <<queue, open, restarting, loop, used, service>>
    BY <1>1, <1>9
    DEF TakeoverRestores, TypeInv, CallsInv, TakeoverFits, windows, TakeoverState
  <2>2. CASE takeover' = NoTakeover /\ UNCHANGED request
    BY <1>3, <1>4, <2>1, <2>2
    DEF TypeInv, CallsInv, TakeoverFits, WindowsInv, ServiceInv, UsedInv, suspended
  <2>3. CASE /\ Call("takeover", "restore", takeover.target, takeover.session, NoWorkspace)
             /\ TakeoverGoes("call")
    <3>1. /\ request' \in [Lines -> RequestState] /\ \A d \in Lines : RequestFits(request'[d])
          /\ request'["takeover"].op = "restore"
          /\ \A d \in Lines \ {"takeover"} : request'[d] = request[d]
      BY <2>1, <2>3, CallKept DEF TypeInv, WorkspaceOrNone
    <3>2. takeover' \in TakeoverState /\ TakeoverFits'
      BY <1>1, <2>1, <2>3, <3>1
      DEF TakeoverGoes, TakeoverState, TypeInv, CallsInv, TakeoverFits
    <3> QED
      BY <1>3, <2>1, <3>1, <3>2
      DEF TypeInv, CallsInv, WindowsInv, ServiceInv, UsedInv, suspended
  <2> QED
    BY <1>9, <2>2, <2>3 DEF TakeoverRestores
<1> QED
  BY <1>5, <1>6, <1>7, <1>8, <1>9 DEF TakeoverStep

\* The clock, and the death of the service.
LEMMA ClockKept ==
  ASSUME TypeInv,
         \/ DelayPasses \/ PreferencePasses \/ Crash
         \/ \E w \in Workspaces : GracePasses(w)
  PROVE TypeInv'
<1>1. service \in ServiceState /\ Listed(service.suspended)
  BY DEF TypeInv, ServiceInv, ServiceState, Listed, suspended
<1>2. CASE DelayPasses \/ PreferencePasses \/ \E w \in Workspaces : GracePasses(w)
  <2>1. UNCHANGED <<queue, open, restarting, loop, takeover, request, used>>
    BY <1>2 DEF DelayPasses, PreferencePasses, GracePasses, Elapses, windows
  <2>2. \/ service' = [service EXCEPT !.released = "ready"]
        \/ service' = [service EXCEPT !.preferred = NoWorkspace]
        \/ \E w \in Workspaces : service' = [service EXCEPT !.protected[w] = "none"]
    BY <1>2 DEF DelayPasses, PreferencePasses, GracePasses, Elapses
  <2>3. service' \in ServiceState /\ service'.suspended = service.suspended
    <3>1. \A p \in [Workspaces -> {"none", "held", "grace"}] :
            LET t == [service EXCEPT !.protected = p]
            IN t \in ServiceState /\ t.suspended = service.suspended
      BY <1>1 DEF ServiceState
    <3>2. ASSUME NEW w \in Workspaces, service' = [service EXCEPT !.protected[w] = "none"]
          PROVE service' \in ServiceState /\ service'.suspended = service.suspended
      <4>1. /\ [service.protected EXCEPT ![w] = "none"] \in [Workspaces -> {"none", "held", "grace"}]
            /\ service' = [service EXCEPT !.protected = [service.protected EXCEPT ![w] = "none"]]
        BY <1>1, <3>2 DEF ServiceState
      <4> QED
        BY <3>1, <4>1
    <3>3. CASE \/ service' = [service EXCEPT !.released = "ready"]
               \/ service' = [service EXCEPT !.preferred = NoWorkspace]
      BY <1>1, <3>3 DEF ServiceState, WorkspaceOrNone
    <3> QED
      BY <2>2, <3>2, <3>3
  <2> QED
    BY <1>1, <2>1, <2>3, ServiceKept
    DEF TypeInv, WindowsInv, CallsInv, LoopFits, TakeoverFits, UsedInv
<1>3. CASE Crash
  <2>1. /\ service' = Forgotten /\ restarting' = {} /\ loop' = NoLoop /\ takeover' = NoTakeover
        /\ UNCHANGED <<queue, open>>
        /\ request' = [loop |-> NoRequest, takeover |-> NoRequest,
                       lateLoop |-> request["loop"], lateTakeover |-> request["takeover"]]
    BY <1>3 DEF Crash
  <2>2. WindowsInv' /\ UsedInv'
    BY <1>3, <2>1, ArbiterAssumption DEF Crash, Disturb, TypeInv, WindowsInv, UsedInv
  <2>3. ServiceInv'
    <3>1. <<>> \in Seq(Key) /\ IsInjective(<<>>)
      BY EmptySeq DEF IsInjective
    <3>2. \A none \in Seq(Key) :
          LET t == [owner |-> Nobody, previous |-> [w \in Workspaces |-> NoSession],
                    observed |-> {}, inFlight |-> {}, suspended |-> none,
                    released |-> "unset", preferred |-> NoWorkspace,
                    protected |-> [w \in Workspaces |-> "none"]]
          IN t \in ServiceState /\ t.suspended = none
      BY DEF ServiceState, Key, NoSession, WorkspaceOrNone
    <3> QED
      BY <2>1, <3>1, <3>2 DEF Forgotten, ServiceInv, suspended
  <2>4. /\ request' \in [Lines -> RequestState] /\ \A d \in Lines : RequestFits(request'[d])
        /\ request'["loop"] = NoRequest /\ request'["takeover"] = NoRequest
    <3>1. NoRequest \in RequestState /\ RequestFits(NoRequest)
      BY DEF NoRequest, RequestState, RequestFits, NoSession, WorkspaceOrNone
    <3> QED
      BY <2>1, <3>1 DEF Lines, TypeInv, CallsInv
  <2>5. NoRequest.op = "none"
    BY DEF NoRequest
  <2>6. takeover' \in TakeoverState /\ TakeoverFits'
    BY <2>1, <2>4, <2>5
    DEF NoTakeover, TakeoverState, TakeoverFits, WorkspaceOrNone, NoSession
  <2> QED
    BY <2>1, <2>2, <2>3, <2>4, <2>5, <2>6, NoLoopFits DEF TypeInv, CallsInv
<1> QED
  BY <1>2, <1>3

LEMMA NextTypes == TypeInv /\ [Next]_vars => TypeInv'
<1> SUFFICES ASSUME TypeInv, [Next]_vars PROVE TypeInv'
  OBVIOUS
<1>1. CASE UNCHANGED vars
  BY <1>1
  DEF vars, windows, TypeInv, WindowsInv, ServiceInv, CallsInv, LoopFits, TakeoverFits, UsedInv,
      suspended
<1>2. ASSUME NEW w \in Workspaces,
             Dispatch(w) \/ Claim(w) \/ Advance(w) \/ UserAct(w) \/ RecoverHead(w)
      PROVE TypeInv'
  BY <1>2, OwnActions
  DEF TypeInv, ServiceInv, CallsInv, LoopFits, TakeoverFits, suspended
<1>3. ASSUME NEW w \in Workspaces,
             \/ Close(w) \/ Reopen(w) \/ RestartCompanion(w) \/ CompanionReplaced(w)
             \/ CompanionMissing(w)
      PROVE TypeInv'
  BY <1>3, WindowActions DEF TypeInv, CallsInv, LoopFits, TakeoverFits
<1>4. CASE LoopStep
  BY <1>4, LoopReadsKept, LoopArbitratesKept, LoopAsksKept, LoopEndsKept DEF LoopStep
<1> QED
  BY <1>1, <1>2, <1>3, <1>4, ServerStepKept, TimesOutKept, TakeoverKept, ClockKept DEF Next

\* In every reachable state the variables have these types and fit each other.
LEMMA TypesAlways == Spec => []TypeInv
  BY InitTypes, NextTypes, PTL DEF Spec

\* Every variable keeps its type, the suspended queues are listed once each, and the
\* service reads an answer only while it waits for one.
THEOREM TypeCorrect == Spec => []TypeOK
  BY TypesAlways, TypesImplied, PTL

------------------------------------------------------------------------------
(* What an answer and a request that is served change, as far as the leases *)
(* and the interrupted heads go.                                            *)

LEMMA HeardEffect ==
  ASSUME TypeInv, NEW c \in Lines, NEW ok \in BOOLEAN, Heard(c, ok)
  PROVE /\ loop'.obs = loop.obs /\ protected' = protected
        /\ UNCHANGED takeover \/ c = "takeover"
        /\ \/ UNCHANGED loop
           \/ c = "loop" /\ loop'.pc \in {"preempt", "bookkeep", "restore", "restoring"}
        /\ loop'.pc = "restoring" => loop.pc = "restoring" \/ request["loop"].op = "restore"
        /\ \/ owner' = owner
           \/ owner' = Nobody /\ request["loop"].op = "restore"
           \/ request["loop"].op = "relaunch" /\ loop'.pc = "restore"
<1>1. service \in ServiceState /\ loop \in LoopState
  BY DEF TypeInv, ServiceInv, CallsInv
<1>2. CASE c = "loop"
  <2> DEFINE r == request[c]
  <2>1. LoopAnswered(r, ok)
    BY <1>2 DEF Heard
  <2>2. CASE r.op = "preempt" /\ service' = Preempted(<<r.at, r.session>>, ok) /\ LoopGoes("preempt")
    BY <1>1, <1>2, <2>1, <2>2
    DEF LoopAnswered, LoopGoes, Preempted, LoopState, ServiceState, owner, protected
  <2>3. CASE r.op = "resume" /\ LoopGoes("bookkeep") /\ UNCHANGED service
    BY <1>1, <1>2, <2>1, <2>3 DEF LoopAnswered, LoopGoes, LoopState, owner, protected
  <2>4. CASE /\ r.op = "relaunch"
             /\ service' = IF ok THEN [service EXCEPT !.owner = <<r.at, r.session>>, !.released = "unset"]
                           ELSE service
             /\ LoopGoes("restore")
    BY <1>1, <1>2, <2>1, <2>4
    DEF LoopAnswered, LoopGoes, LoopState, ServiceState, owner, protected
  <2>5. CASE r.op = "restore" /\ ok /\ service' = Restored /\ LoopGoes("bookkeep")
    <3>1. Restored.owner = Nobody /\ Restored.protected = service.protected
      BY <1>1 DEF Restored, ServiceState
    <3> QED
      BY <1>1, <1>2, <2>1, <2>5, <3>1
      DEF LoopAnswered, LoopGoes, LoopState, owner, protected
  <2>6. CASE /\ r.op = "restore" /\ loop' = [loop EXCEPT !.pc = "restoring", !.index = @ - 1]
             /\ UNCHANGED service
    BY <1>1, <1>2, <2>1, <2>6 DEF LoopAnswered, LoopState, owner, protected
  <2> QED
    BY <2>1, <2>2, <2>3, <2>4, <2>5, <2>6 DEF LoopAnswered
<1>3. CASE c = "takeover"
  <2> DEFINE r == request[c]
  <2>1. \/ UNCHANGED service \/ service' = Preempted(<<r.at, r.session>>, ok)
        \/ service' = [service EXCEPT !.suspended = RemoveFirst(@, <<r.at, r.session>>)]
    BY <1>3 DEF Heard, TakeoverAnswered
  <2>2. owner' = owner /\ protected' = protected
    BY <1>1, <2>1 DEF Preempted, ServiceState, owner, protected
  <2>3. UNCHANGED loop
    BY <1>3 DEF Heard, TakeoverAnswered
  <2> QED
    BY <1>3, <2>2, <2>3
<1>4. CASE c \notin Callers
  BY <1>4 DEF Heard, Callers, owner, protected
<1> QED
  BY <1>2, <1>3, <1>4 DEF Callers

\* A request is served in an open window; of its queue it changes the session only as a
\* relaunch, and puts it in conflict only as a preemption.
LEMMA ServerEffect ==
  ASSUME TypeInv, NEW c \in Lines, ServerStep(c)
  PROVE /\ request[c].op # "none" /\ UNCHANGED <<open, restarting>>
        /\ UNCHANGED used \/ Disturb("fault")
        /\ \A w \in Workspaces \ open : queue'[w] = queue[w]
        /\ \A w \in Workspaces :
             /\ queue'[w].thread = "lost" => queue[w].thread = "lost"
             /\ Conflict(w)' => Conflict(w) \/ request[c].op = "preempt"
             /\ queue'[w].session # queue[w].session =>
                  request[c].op = "relaunch" /\ request[c].at = w
        /\ \A d \in Lines \ {c} : request'[d] = request[d]
        /\ \/ request'[c].op = "none" /\ \E ok \in BOOLEAN : Heard(c, ok)
           \/ /\ request'[c].op = request[c].op /\ request'[c].at = request[c].at
              /\ UNCHANGED <<service, loop, takeover>>
<1> DEFINE w == request[c].at
           q == queue[w]
<1>1. request[c].op # "none"
  BY DEF ServerStep, Unreachable, PreemptChecks, PreemptPauses, PreemptInterrupts, RestoreSends,
         RestoreClears, ResumeUnpauses, ResumeSends, Relaunches, Serving
<1>2. w \in Workspaces /\ q \in QueueState /\ queue \in [Workspaces -> QueueState]
  BY <1>1 DEF TypeInv, CallsInv, RequestFits, WindowsInv
<1>3. UNCHANGED <<open, restarting>>
  BY DEF ServerStep, Unreachable, PreemptChecks, PreemptPauses, PreemptInterrupts,
         RestoreSends, RestoreClears, ResumeUnpauses, ResumeSends, Relaunches, Serving, windows
<1>4. UNCHANGED used \/ Disturb("fault")
  BY DEF ServerStep, Unreachable, PreemptChecks, PreemptPauses, PreemptInterrupts,
         RestoreSends, RestoreClears, ResumeUnpauses, ResumeSends, Relaunches
<1>5. /\ \A d \in Lines \ {c} : request'[d] = request[d]
      /\ \/ request'[c].op = "none" /\ \E ok \in BOOLEAN : Heard(c, ok)
         \/ /\ request'[c].op = request[c].op /\ request'[c].at = request[c].at
            /\ UNCHANGED <<service, loop, takeover>>
  <2>1. \/ \E ok \in BOOLEAN : Ends(c, ok)
        \/ \E step \in {"pause", "interrupt", "clear", "send"} : Continues(c, step)
    BY DEF ServerStep, Unreachable, PreemptChecks, PreemptPauses, PreemptInterrupts,
           RestoreSends, RestoreClears, ResumeUnpauses, ResumeSends, Relaunches
  <2>2. request \in [Lines -> RequestState]
    BY DEF TypeInv, CallsInv
  <2>3. CASE \E ok \in BOOLEAN : Ends(c, ok)
    BY <2>2, <2>3 DEF Ends, NoRequest
  <2>4. ASSUME NEW step \in {"pause", "interrupt", "clear", "send"}, Continues(c, step)
        PROVE /\ \A d \in Lines \ {c} : request'[d] = request[d]
              /\ request'[c].op = request[c].op /\ request'[c].at = request[c].at
              /\ UNCHANGED <<service, loop, takeover>>
    <3> DEFINE r == [request[c] EXCEPT !.step = step]
    <3>1. /\ request' = [request EXCEPT ![c] = r]
          /\ r.op = request[c].op /\ r.at = request[c].at
      BY <2>2, <2>4 DEF Continues, RequestState
    <3> HIDE DEF r
    <3> QED
      BY <2>2, <2>4, <3>1 DEF Continues
  <2> QED
    BY <2>1, <2>3, <2>4
<1>6. \/ UNCHANGED queue
      \/ \E p : /\ Put(w, p) /\ w \in open
                /\ p.thread = "lost" => q.thread = "lost"
                /\ p.conflict # NoWorkspace =>
                     q.conflict # NoWorkspace \/ request[c].op = "preempt"
                /\ p.session # q.session => request[c].op = "relaunch"
  <2>1. CASE Unreachable(c) \/ PreemptChecks(c)
    BY <2>1 DEF Unreachable, PreemptChecks, windows
  <2>2. CASE PreemptPauses(c)
    <3> DEFINE p == [q EXCEPT !.paused = TRUE, !.conflict = request[c].winner]
    <3>1. p.thread = q.thread /\ p.session = q.session
      BY <1>2 DEF QueueState
    <3>2. w \in open /\ request[c].op = "preempt" /\ (UNCHANGED queue \/ Put(w, p))
      BY <2>2 DEF PreemptPauses, Serving
    <3> QED
      BY <3>1, <3>2
  <2>3. CASE PreemptInterrupts(c)
    <3> DEFINE p == [q EXCEPT !.thread = IF @ = "running" THEN "waiting" ELSE @]
    <3>1. /\ p.thread = "lost" => q.thread = "lost"
          /\ p.session = q.session /\ p.conflict = q.conflict
      BY <1>2 DEF QueueState
    <3>2. w \in open /\ (UNCHANGED queue \/ Put(w, p))
      BY <2>3 DEF PreemptInterrupts, Serving
    <3> QED
      BY <3>1, <3>2
  <2>4. CASE RestoreSends(c)
    <3> DEFINE p == [q EXCEPT !.thread = "running"]
    <3>1. p.thread # "lost" /\ p.session = q.session /\ p.conflict = q.conflict
      BY <1>2 DEF QueueState
    <3>2. w \in open /\ (UNCHANGED queue \/ Put(w, p))
      BY <2>4 DEF RestoreSends, Serving
    <3> QED
      BY <3>1, <3>2
  <2>5. CASE RestoreClears(c)
    <3> DEFINE p == [q EXCEPT !.paused = FALSE,
                              !.conflict = IF q.session = request[c].session THEN NoWorkspace
                                           ELSE @]
    <3>1. /\ p.thread = q.thread /\ p.session = q.session
          /\ p.conflict # NoWorkspace => q.conflict # NoWorkspace
      BY <1>2 DEF QueueState
    <3>2. w \in open /\ Put(w, p)
      BY <2>5 DEF RestoreClears, Serving
    <3> QED
      BY <3>1, <3>2
  <2>6. CASE ResumeUnpauses(c)
    <3> DEFINE p == [q EXCEPT !.paused = FALSE]
    <3>1. p.thread = q.thread /\ p.session = q.session /\ p.conflict = q.conflict
      BY <1>2 DEF QueueState
    <3>2. w \in open /\ Put(w, p)
      BY <2>6 DEF ResumeUnpauses, Serving
    <3> QED
      BY <3>1, <3>2
  <2>7. CASE ResumeSends(c)
    <3> DEFINE p == [q EXCEPT !.thread = IF @ = "waiting" THEN "running" ELSE @]
    <3>1. /\ p.thread = "lost" => q.thread = "lost"
          /\ p.session = q.session /\ p.conflict = q.conflict
      BY <1>2 DEF QueueState
    <3>2. w \in open /\ (UNCHANGED queue \/ Put(w, p))
      BY <2>7 DEF ResumeSends, Serving
    <3> QED
      BY <3>1, <3>2
  <2>8. CASE Relaunches(c)
    <3> DEFINE p == [q EXCEPT !.paused = FALSE]
               r == [Started(p) EXCEPT !.conflict = NoWorkspace]
    <3>1. p.thread = q.thread /\ p.session = q.session /\ p.conflict = q.conflict
      BY <1>2 DEF QueueState
    <3>2. r.thread = "running" /\ r.conflict = NoWorkspace
      BY <1>2 DEF Started, QueueState
    <3>3. w \in open /\ request[c].op = "relaunch" /\ (Put(w, p) \/ Put(w, r))
      BY <2>8 DEF Relaunches, Serving
    <3> HIDE DEF p, r
    <3> QED
      BY <3>1, <3>2, <3>3
  <2> QED
    BY <2>1, <2>2, <2>3, <2>4, <2>5, <2>6, <2>7, <2>8 DEF ServerStep
<1>7. CASE UNCHANGED queue
  BY <1>1, <1>3, <1>4, <1>5, <1>7 DEF Conflict
<1>8. ASSUME NEW p, Put(w, p), w \in open,
             p.thread = "lost" => q.thread = "lost",
             p.conflict # NoWorkspace => q.conflict # NoWorkspace \/ request[c].op = "preempt",
             p.session # q.session => request[c].op = "relaunch"
      PROVE /\ \A v \in Workspaces \ open : queue'[v] = queue[v]
            /\ \A v \in Workspaces :
                 /\ queue'[v].thread = "lost" => queue[v].thread = "lost"
                 /\ Conflict(v)' => Conflict(v) \/ request[c].op = "preempt"
                 /\ queue'[v].session # queue[v].session =>
                      request[c].op = "relaunch" /\ request[c].at = v
  <2>1. queue'[w] = p /\ \A v \in Workspaces \ {w} : queue'[v] = queue[v]
    BY <1>2, <1>8 DEF Put
  <2> QED
    BY <1>8, <2>1 DEF Conflict
<1> QED
  BY <1>1, <1>3, <1>4, <1>5, <1>6, <1>7, <1>8

\* A thread may be lost; a window may be asked beside the cycle or behind its time.
Deletes == "delete" \in Disturbances
Overlaps == Disturbances \cap {"takeover", "fault", "crash"} # {}

\* A window changes its own queue, and the session of an interrupted head only when that
\* head ends.
LEMMA OwnEffect ==
  ASSUME TypeInv, NEW w \in Workspaces,
         Dispatch(w) \/ Claim(w) \/ Advance(w) \/ UserAct(w) \/ RecoverHead(w)
  PROVE /\ w \in open /\ \A v \in Workspaces \ {w} : queue'[v] = queue[v]
        /\ UNCHANGED used \/ used' = used + 1
        /\ queue'[w].thread = "lost" => queue[w].thread = "lost" \/ (Deletes /\ used' = used + 1)
        /\ Conflict(w)' => Conflict(w)
        /\ Conflict(w) /\ queue'[w].session # queue[w].session => queue[w].thread = "completed"
<1>1. queue \in [Workspaces -> QueueState] /\ QueueFits(queue[w])
  BY DEF TypeInv, WindowsInv
<1> DEFINE q == queue[w]
           Changed(p) == /\ UNCHANGED used \/ used' = used + 1
                         /\ p.thread = "lost" => q.thread = "lost" \/ (Deletes /\ used' = used + 1)
                         /\ p.conflict # NoWorkspace => q.conflict # NoWorkspace
                         /\ q.conflict # NoWorkspace /\ p.session # q.session =>
                              q.thread = "completed"
<1>2. ASSUME NEW p, Put(w, p), Changed(p), w \in open
      PROVE /\ w \in open /\ \A v \in Workspaces \ {w} : queue'[v] = queue[v]
            /\ UNCHANGED used \/ used' = used + 1
            /\ queue'[w].thread = "lost" => queue[w].thread = "lost" \/ (Deletes /\ used' = used + 1)
            /\ Conflict(w)' => Conflict(w)
            /\ Conflict(w) /\ queue'[w].session # queue[w].session =>
                 queue[w].thread = "completed"
  <2>1. queue'[w] = p /\ \A v \in Workspaces \ {w} : queue'[v] = queue[v]
    BY <1>1, <1>2 DEF Put
  <2> QED
    BY <1>2, <2>1 DEF Conflict
<1>3. CASE Dispatch(w)
  <2>1. Put(w, Started(q)) /\ w \in open /\ UNCHANGED used /\ ~Active(w)
    BY <1>3 DEF Dispatch, Within
  <2>2. Started(q).thread = "running" /\ Started(q).conflict = q.conflict
    BY <1>1 DEF Started, QueueState
  <2>3. q.conflict = NoWorkspace
    BY <1>1, <2>1 DEF QueueFits, Active
  <2> QED
    BY <1>2, <2>1, <2>2, <2>3
<1>4. CASE Claim(w)
  <2> DEFINE p == [q EXCEPT !.thread = "completed"]
  <2>1. Put(w, p) /\ w \in open /\ UNCHANGED used
    BY <1>4 DEF Claim, Within
  <2>2. Changed(p)
    BY <1>1, <2>1 DEF QueueState
  <2> QED
    BY <1>2, <2>1, <2>2
<1>5. CASE Advance(w)
  <2> DEFINE p == [q EXCEPT !.left = @ - 1, !.session = NoSession, !.thread = "none",
                            !.conflict = NoWorkspace, !.recovering = FALSE]
  <2>1. Put(w, p) /\ w \in open /\ UNCHANGED used /\ q.thread = "completed"
    BY <1>5 DEF Advance, Within
  <2>2. p.thread = "none" /\ p.conflict = NoWorkspace
    BY <1>1 DEF QueueState
  <2> HIDE DEF p
  <2> QED
    BY <1>2, <2>1, <2>2
<1>6. CASE UserAct(w)
  <2>1. w \in open /\ (\E kind \in Disturbances : Disturb(kind))
    BY <1>6 DEF UserAct, Disturb
  <2>2. used' = used + 1
    BY <2>1 DEF Disturb
  <2>3. \/ \E t \in {"running", "waiting"} : Put(w, [q EXCEPT !.thread = t])
        \/ Deletes /\ Put(w, [q EXCEPT !.thread = "lost", !.paused = TRUE])
        \/ Put(w, [q EXCEPT !.paused = TRUE])
    BY <1>6 DEF UserAct, Within, Disturb, Deletes
  <2>4. /\ \A t \in {"running", "waiting"} : Changed([q EXCEPT !.thread = t])
        /\ Deletes => Changed([q EXCEPT !.thread = "lost", !.paused = TRUE])
        /\ Changed([q EXCEPT !.paused = TRUE])
    BY <1>1, <2>2 DEF QueueState
  <2> HIDE DEF Changed, q
  <2> QED
    BY <1>2, <2>1, <2>3, <2>4
<1>7. CASE RecoverHead(w)
  <2> DEFINE p == [q EXCEPT !.recovering = FALSE,
                            !.thread = IF @ = "waiting" THEN "running" ELSE @]
  <2>1. Put(w, p) /\ w \in open /\ UNCHANGED used
    BY <1>7 DEF RecoverHead, Within
  <2>2. Changed(p)
    BY <1>1, <2>1 DEF QueueState
  <2> QED
    BY <1>2, <2>1, <2>2
<1> QED
  BY <1>3, <1>4, <1>5, <1>6, <1>7

------------------------------------------------------------------------------
(* While a companion is replaced, its lease is held, the cycle has not seen  *)
(* its queue, and no restoration is under way that could take the model.     *)

LeaseInv ==
  /\ loop.pc = "idle" => \A w \in Workspaces : loop.obs[w] = Missing
  /\ \A w \in restarting : /\ loop.obs[w].status = "missing"
                           /\ Active(w) => protected[w] = "held"
  /\ loop.pc = "restoring" \/ request["loop"].op = "restore" =>
       \A w \in restarting : Active(w) => owner[1] # w

LEMMA LeaseFrame ==
  ASSUME TypeInv, LeaseInv, restarting' \subseteq restarting,
         \A w \in restarting' : (Active(w)' => Active(w)) /\ protected'[w] = protected[w],
         \/ loop'.obs = loop.obs /\ (loop'.pc = "idle" => loop.pc = "idle")
         \/ \A w \in Workspaces : loop'.obs[w] = Missing,
         loop'.pc = "restoring" \/ request'["loop"].op = "restore" =>
           /\ loop.pc = "restoring" \/ request["loop"].op = "restore"
           /\ owner' \in {owner, Nobody}
  PROVE LeaseInv'
<1>1. restarting' \subseteq Workspaces
  BY DEF TypeInv, WindowsInv
<1>2. loop'.pc = "idle" => \A w \in Workspaces : loop'.obs[w] = Missing
  BY DEF LeaseInv
<1>3. \A w \in restarting' : loop'.obs[w].status = "missing" /\ (Active(w)' => protected'[w] = "held")
  BY <1>1 DEF LeaseInv, Missing
<1>4. ASSUME loop'.pc = "restoring" \/ request'["loop"].op = "restore",
             NEW w \in restarting', Active(w)'
      PROVE owner'[1] # w
  BY <1>1, <1>4, ArbiterAssumption DEF LeaseInv, Nobody
<1> QED
  BY <1>2, <1>3, <1>4 DEF LeaseInv

LEMMA LeaseWindows ==
  ASSUME TypeInv, LeaseInv, NEW w \in Workspaces,
         \/ Close(w) \/ Reopen(w) \/ RestartCompanion(w) \/ CompanionReplaced(w)
         \/ CompanionMissing(w)
  PROVE LeaseInv'
<1>1. /\ UNCHANGED <<loop, request>> /\ owner' = owner
      /\ \A v \in Workspaces : Active(v)' <=> Active(v)
  BY WindowActions DEF TypeInv, ServiceInv, ServiceState, owner, Active
<1>2. service \in ServiceState /\ restarting \subseteq Workspaces
  BY DEF TypeInv, ServiceInv, WindowsInv
<1>3. CASE RestartCompanion(w)
  <2>1. /\ loop.pc = "idle" /\ restarting' = restarting \cup {w}
        /\ service' = [service EXCEPT !.protected[w] = IF Active(w) THEN "held" ELSE @]
    BY <1>3 DEF RestartCompanion
  <2>2. /\ \A v \in Workspaces \ {w} : protected'[v] = protected[v]
        /\ Active(w) => protected'[w] = "held"
    BY <1>2, <2>1 DEF ServiceState, protected
  <2>3. request["loop"].op = "none"
    BY <2>1 DEF TypeInv, CallsInv, LoopFits
  <2>4. \A v \in Workspaces : loop'.obs[v] = Missing /\ loop'.pc = "idle"
    BY <1>1, <2>1 DEF LeaseInv
  <2>5. \A v \in restarting' : Active(v)' => protected'[v] = "held"
    BY <1>1, <1>2, <2>1, <2>2 DEF LeaseInv
  <2>6. restarting' \subseteq Workspaces
    BY <1>2, <2>1
  <2>7. ~(loop'.pc = "restoring" \/ request'["loop"].op = "restore")
    BY <1>1, <2>1, <2>3
  <2> QED
    <3>1. \A v \in restarting' : loop'.obs[v].status = "missing"
      BY <2>4, <2>6 DEF Missing
    <3> QED
      BY <2>4, <2>5, <2>7, <3>1 DEF LeaseInv
<1>4. CASE Close(w) \/ Reopen(w) \/ CompanionReplaced(w) \/ CompanionMissing(w)
  <2>1. restarting' \subseteq restarting
    BY <1>4 DEF Close, Reopen, CompanionReplaced, CompanionMissing
  <2>2. \A v \in restarting' : protected'[v] = protected[v]
    <3>1. CASE UNCHANGED service
      BY <3>1 DEF protected
    <3>2. CASE CompanionReplaced(w)
      <4>1. /\ restarting' = restarting \ {w}
            /\ service' = [service EXCEPT !.protected[w] = IF @ = "held" THEN "grace" ELSE @]
        BY <3>2 DEF CompanionReplaced
      <4> QED
        BY <1>2, <4>1 DEF ServiceState, protected
    <3> QED
      BY <1>4, <3>1, <3>2 DEF Close, Reopen, CompanionMissing
  <2> QED
    BY <1>1, <1>2, <2>1, <2>2, LeaseFrame
<1> QED
  BY <1>3, <1>4

LEMMA LeaseCalls ==
  ASSUME TypeInv, LeaseInv,
         (\E c \in Lines : ServerStep(c)) \/ (\E c \in Callers : TimesOut(c))
  PROVE LeaseInv'
<1>1. ASSUME NEW c \in Lines, NEW ok \in BOOLEAN, Heard(c, ok),
             UNCHANGED restarting, \A w \in restarting : queue'[w] = queue[w],
             request'["loop"].op \in {request["loop"].op, "none"},
             c = "loop" => request'["loop"].op = "none"
      PROVE LeaseInv'
  <2>1. loop.pc = "call" <=> request["loop"].op # "none"
    BY DEF TypeInv, CallsInv, LoopFits
  <2>2. \A w \in restarting : Active(w)' => Active(w)
    BY <1>1 DEF Active
  <2>3. /\ loop'.obs = loop.obs /\ protected' = protected
        /\ loop'.pc = "idle" => loop.pc = "idle"
    BY <1>1, HeardEffect
  <2>4. loop'.pc = "restoring" \/ request'["loop"].op = "restore" =>
           /\ loop.pc = "restoring" \/ request["loop"].op = "restore"
           /\ owner' \in {owner, Nobody}
    BY <1>1, <2>1, HeardEffect
  <2> QED
    BY <1>1, <2>2, <2>3, <2>4, LeaseFrame
<1>2. restarting \subseteq Workspaces \ open
  BY DEF TypeInv, WindowsInv
<1>3. ASSUME NEW c \in Lines, ServerStep(c) PROVE LeaseInv'
  <2>1. /\ UNCHANGED restarting /\ \A w \in restarting : queue'[w] = queue[w]
        /\ \A d \in Lines \ {c} : request'[d] = request[d]
    BY <1>2, <1>3, ServerEffect
  <2>2. CASE request'[c].op = "none" /\ \E ok \in BOOLEAN : Heard(c, ok)
    BY <1>1, <2>1, <2>2 DEF Lines
  <2>3. CASE /\ request'[c].op = request[c].op
             /\ UNCHANGED <<service, loop, takeover>>
    <3>1. request'["loop"].op = request["loop"].op
      BY <2>1, <2>3 DEF Lines
    <3> QED
      BY <2>1, <2>3, <3>1, LeaseFrame DEF Active, protected, owner
  <2> QED
    BY <1>3, <2>2, <2>3, ServerEffect
<1>4. ASSUME NEW c \in Callers, TimesOut(c) PROVE LeaseInv'
  <2>1. /\ Heard(c, FALSE) /\ UNCHANGED <<restarting, queue>> /\ c \in Lines
        /\ request' = [request EXCEPT ![c] = NoRequest, ![Late[c]] = request[c]]
    BY <1>4 DEF TimesOut, windows, Callers, Lines
  <2>2. Late[c] # "loop" /\ request \in [Lines -> RequestState]
    BY DEF TypeInv, CallsInv, Late, Callers
  <2>3. /\ c = "loop" => request'["loop"].op = "none"
        /\ request'["loop"].op \in {request["loop"].op, "none"}
    BY <2>1, <2>2 DEF Lines, NoRequest
  <2> QED
    BY <1>1, <2>1, <2>3
<1> QED
  BY <1>3, <1>4

LEMMA LeaseLoop ==
  ASSUME TypeInv, LeaseInv, LoopStep
  PROVE LeaseInv'
<1>1. /\ service \in ServiceState /\ loop \in LoopState
      /\ restarting \subseteq Workspaces \ open
      /\ loop.pc = "call" <=> request["loop"].op # "none"
  BY DEF TypeInv, ServiceInv, CallsInv, WindowsInv, LoopFits
<1>2. CASE LoopStarts \/ LoopEnds
  <2>1. /\ UNCHANGED <<queue, restarting, request>> /\ loop.pc # "call"
        /\ \A w \in Workspaces : loop'.obs[w] = Missing
        /\ loop'.pc # "restoring"
    <3>1. CASE LoopStarts
      <4>1. loop' = [NoLoop EXCEPT !.pc = "poll", !.registered = open, !.unread = open]
        BY <3>1 DEF LoopStarts
      <4>2. loop'.obs = NoLoop.obs /\ loop'.pc = "poll"
        BY <4>1 DEF NoLoop
      <4> QED
        BY <3>1, <4>2 DEF LoopStarts, LoopAt, NoLoop, windows
    <3>2. CASE LoopEnds
      BY <3>2 DEF LoopEnds, LoopAt, NoLoop, windows
    <3> QED
      BY <1>2, <3>1, <3>2
  <2>2. protected' = protected
    BY <1>1, <1>2 DEF LoopStarts, LoopEnds, Noted, ServiceState, protected
  <2> QED
    BY <1>1, <2>1, <2>2, LeaseFrame DEF Active
<1>3. CASE LoopPolls
  <2>1. PICK w \in loop.unread : \E o \in PossibleObservation(w) :
          /\ Polled(w, o)
          /\ loop' = [loop EXCEPT !.unread = @ \ {w}, !.obs[w] = o]
    BY <1>3 DEF LoopPolls
  <2>2. PICK o \in PossibleObservation(w) :
          /\ Polled(w, o)
          /\ loop' = [loop EXCEPT !.unread = @ \ {w}, !.obs[w] = o]
    BY <2>1
  <2>3. w \in Workspaces /\ UNCHANGED <<open, restarting, service, request>> /\ loop.pc = "poll"
    BY <1>1, <1>3 DEF LoopPolls, LoopState
  <2>4. /\ w \notin open => o = Missing
        /\ \A v \in Workspaces : Active(v)' <=> Active(v)
    BY <2>2, <2>3, PolledKept DEF TypeInv, Active
  <2> DEFINE seen == [loop.obs EXCEPT ![w] = o]
  <2>5. seen[w] = o /\ \A v \in Workspaces \ {w} : seen[v] = loop.obs[v]
    BY <1>1, <2>3 DEF LoopState
  <2>6. loop' = [loop EXCEPT !.unread = @ \ {w}, !.obs = seen]
    BY <1>1, <2>2 DEF LoopState
  <2> HIDE DEF seen
  <2>7. loop'.obs = seen /\ loop'.pc = "poll"
    BY <1>1, <2>3, <2>6 DEF LoopState
  <2>8. \A v \in restarting' : loop'.obs[v].status = "missing" /\ (Active(v)' => protected'[v] = "held")
    BY <1>1, <2>3, <2>4, <2>5, <2>7 DEF LeaseInv, Missing, protected
  <2> QED
    BY <1>1, <2>3, <2>7, <2>8 DEF LeaseInv
<1>4. CASE LoopArbitrates
  <2>1. /\ UNCHANGED <<queue, restarting, request>> /\ loop.pc = "poll"
    BY <1>4 DEF LoopArbitrates, LoopAt, windows
  <2>2. protected' = [w \in Workspaces |-> IF Protects(w) THEN protected[w] ELSE "none"]
    BY <1>1, <1>4 DEF LoopArbitrates, ServiceState, protected
  <2>3. loop'.obs = loop.obs /\ loop'.pc \in {"restore", "orphans", "bookkeep", "preempt"}
    BY <1>1, <1>4 DEF LoopArbitrates, LoopGoes, LoopState
  <2>4. \A w \in restarting : Active(w) => Protects(w)
    BY DEF LeaseInv, Protects
  <2>5. \A w \in restarting' : loop'.obs[w].status = "missing" /\ (Active(w)' => protected'[w] = "held")
    BY <1>1, <2>1, <2>2, <2>3, <2>4 DEF LeaseInv, Active
  <2> QED
    BY <1>1, <2>1, <2>3, <2>5 DEF LeaseInv
<1>5. CASE LoopPreempts \/ LoopResumesWinner \/ LoopOrphans
  <2>1. /\ UNCHANGED <<queue, restarting>> /\ loop.pc \in {"preempt", "orphans"}
    BY <1>5 DEF LoopPreempts, LoopResumesWinner, LoopOrphans, LoopAt, windows
  <2>2. protected' = protected
    BY <1>1, <1>5 DEF LoopPreempts, LoopResumesWinner, LoopOrphans, ServiceState, protected
  <2>3. /\ loop'.obs = loop.obs
        /\ loop'.pc = loop.pc \/ loop'.pc \in {"call", "bookkeep", "restore"}
    BY <1>1, <1>5, <2>1 DEF LoopPreempts, LoopResumesWinner, LoopOrphans, LoopGoes, LoopState
  <2>4. request'["loop"].op # "restore"
    <3>1. UNCHANGED request
          \/ \E op \in {"preempt", "resume", "relaunch"} : \E w, s, v : Call("loop", op, w, s, v)
      BY <1>5 DEF LoopPreempts, LoopResumesWinner, LoopOrphans
    <3> QED
      BY <1>1, <2>1, <3>1 DEF Call, TypeInv, CallsInv, Lines
  <2> QED
    BY <2>1, <2>2, <2>3, <2>4, LeaseFrame DEF Active
<1>6. CASE LoopRestores
  <2>1. UNCHANGED <<queue, restarting, request>> /\ loop.pc = "restore"
    BY <1>6 DEF LoopRestores, LoopAt, windows
  <2>2. owner' = owner /\ protected' = protected
    BY <1>1, <1>6 DEF LoopRestores, ServiceState, owner, protected
  <2>3. /\ loop'.obs = loop.obs /\ loop'.pc \in {"bookkeep", "restoring"}
        /\ loop'.pc = "restoring" => ~OwnerProtected
    BY <1>1, <1>6 DEF LoopRestores, LoopGoes, LoopState
  <2>4. ASSUME ~OwnerProtected, NEW w \in restarting, Active(w) PROVE owner[1] # w
    BY <1>1, <2>4 DEF LeaseInv, OwnerProtected, Protects
  <2> QED
    BY <1>1, <2>1, <2>2, <2>3, <2>4 DEF LeaseInv, Active
<1>7. CASE LoopTries
  <2>1. UNCHANGED <<queue, restarting>> /\ loop.pc = "restoring"
    BY <1>7 DEF LoopTries, LoopAt, windows
  <2>2. owner' \in {owner, Nobody} /\ protected' = protected
    BY <1>1, <1>7 DEF LoopTries, ServiceState, owner, protected
  <2>3. loop'.obs = loop.obs /\ loop'.pc # "idle"
    BY <1>1, <1>7, <2>1 DEF LoopTries, LoopGoes, LoopState
  <2> QED
    BY <2>1, <2>2, <2>3, LeaseFrame DEF Active
<1> QED
  BY <1>2, <1>3, <1>4, <1>5, <1>6, <1>7 DEF LoopStep

LEMMA LeaseNext == TypeInv /\ LeaseInv /\ [Next]_vars => LeaseInv'
<1> SUFFICES ASSUME TypeInv, LeaseInv, [Next]_vars PROVE LeaseInv'
  OBVIOUS
<1>1. service \in ServiceState /\ restarting \subseteq Workspaces \ open
  BY DEF TypeInv, ServiceInv, WindowsInv
<1>2. CASE UNCHANGED vars
  BY <1>2 DEF vars, windows, LeaseInv, Active, protected, owner
<1>3. ASSUME NEW w \in Workspaces,
             Dispatch(w) \/ Claim(w) \/ Advance(w) \/ UserAct(w) \/ RecoverHead(w)
      PROVE LeaseInv'
  <2>1. UNCHANGED <<restarting, service, loop, request>>
    BY <1>3, OwnActions DEF TypeInv
  <2>2. \A v \in restarting : queue'[v] = queue[v]
    BY <1>1, <1>3, OwnEffect
  <2> QED
    BY <2>1, <2>2, LeaseFrame DEF Active, protected, owner
<1>4. CASE TakeoverStep \/ \E w \in Workspaces : TakeoverStarts(w)
  <2>1. /\ UNCHANGED <<restarting, loop>> /\ \A v \in Workspaces : Active(v)' <=> Active(v)
    <3>1. CASE UNCHANGED windows
      BY <1>4, <3>1
      DEF TakeoverStep, TakeoverStarts, TakeoverReadsTarget, TakeoverPolls, TakeoverPreempts,
          TakeoverRestores, windows, Active
    <3>2. CASE TakeoverReadsTarget
      <4>1. takeover.target \in Workspaces
        BY <3>2 DEF TakeoverReadsTarget, TypeInv, CallsInv, TakeoverFits
      <4> QED
        BY <3>2, <4>1, PolledKept DEF TakeoverReadsTarget, TypeInv, Active
    <3>3. CASE TakeoverPolls
      <4>1. takeover.unread \subseteq Workspaces
        BY DEF TypeInv, CallsInv, TakeoverState
      <4>2. CASE takeover.unread = {}
        BY <3>3, <4>2 DEF TakeoverPolls, Active
      <4>3. CASE takeover.unread # {}
        BY <3>3, <4>1, <4>3, PolledKept DEF TakeoverPolls, TypeInv, Active
      <4> QED
        BY <4>2, <4>3
    <3> QED
      BY <1>4, <3>1, <3>2, <3>3 DEF TakeoverStep, TakeoverStarts, TakeoverPreempts, TakeoverRestores
  <2>2. owner' = owner /\ protected' = protected
    BY <1>1, <1>4
    DEF TakeoverStep, TakeoverStarts, TakeoverReadsTarget, TakeoverPolls, TakeoverPreempts,
        TakeoverRestores, ServiceState, owner, protected
  <2>3. request'["loop"] = request["loop"]
    <3>1. UNCHANGED request \/ \E op, w, s, v : Call("takeover", op, w, s, v)
      BY <1>4
      DEF TakeoverStep, TakeoverStarts, TakeoverReadsTarget, TakeoverPolls, TakeoverPreempts,
          TakeoverRestores
    <3> QED
      BY <3>1 DEF Call, TypeInv, CallsInv, Lines
  <2> QED
    BY <1>1, <2>1, <2>2, <2>3, LeaseFrame
<1>5. CASE DelayPasses \/ PreferencePasses \/ \E w \in Workspaces : GracePasses(w)
  <2>1. UNCHANGED <<queue, restarting, loop, request>>
    BY <1>5 DEF DelayPasses, PreferencePasses, GracePasses, Elapses, windows
  <2>2. owner' = owner
    BY <1>1, <1>5 DEF DelayPasses, PreferencePasses, GracePasses, Elapses, ServiceState, owner
  <2>3. \A v \in restarting : protected[v] = "held" => protected'[v] = "held"
    BY <1>1, <1>5
    DEF DelayPasses, PreferencePasses, GracePasses, Elapses, ServiceState, protected
  <2> QED
    BY <2>1, <2>2, <2>3 DEF LeaseInv, Active
<1>6. CASE Crash
  BY <1>6 DEF Crash, LeaseInv, NoLoop, NoRequest
<1>7. ASSUME NEW w \in Workspaces,
             \/ Close(w) \/ Reopen(w) \/ RestartCompanion(w) \/ CompanionReplaced(w)
             \/ CompanionMissing(w)
      PROVE LeaseInv'
  BY <1>7, LeaseWindows
<1> QED
  BY <1>2, <1>3, <1>4, <1>5, <1>6, <1>7, LeaseCalls, LeaseLoop DEF Next

\* Whatever step takes the model from a queue whose companion is being replaced.
LEMMA LeaseStep ==
  ASSUME TypeInv, LeaseInv, [Next]_vars, NEW w \in restarting,
         owner[1] = w, Active(w), request["loop"].op # "relaunch", service' # Forgotten
  PROVE owner' = owner
<1>1. /\ service \in ServiceState /\ loop \in LoopState /\ w \in Workspaces
      /\ loop.pc = "call" <=> request["loop"].op # "none"
  BY DEF TypeInv, ServiceInv, CallsInv, WindowsInv, LoopFits
<1>2. Protects(w) /\ loop.pc # "restoring" /\ request["loop"].op # "restore"
  BY DEF LeaseInv, Protects
<1>3. OwnerProtected
  BY <1>1, <1>2 DEF OwnerProtected
<1>4. CASE UNCHANGED vars
  BY <1>4 DEF vars, owner
<1>5. CASE LoopStep
  <2>1. CASE LoopArbitrates
    <3>1. owner' = service.owner
      BY <1>1, <1>3, <2>1 DEF LoopArbitrates, ServiceState, owner
    <3> QED
      BY <3>1 DEF owner
  <2>2. CASE LoopStarts \/ LoopPolls \/ LoopResumesWinner
    BY <2>2 DEF LoopStarts, LoopPolls, LoopResumesWinner, owner
  <2>3. CASE LoopPreempts \/ LoopOrphans \/ LoopRestores \/ LoopEnds
    BY <1>1, <2>3 DEF LoopPreempts, LoopOrphans, LoopRestores, LoopEnds, Noted, ServiceState, owner
  <2>4. CASE LoopTries
    BY <1>2, <2>4 DEF LoopTries, LoopAt
  <2> QED
    BY <1>5, <2>1, <2>2, <2>3, <2>4 DEF LoopStep
<1>6. CASE TakeoverStep \/ \E v \in Workspaces : TakeoverStarts(v)
  BY <1>1, <1>6
  DEF TakeoverStep, TakeoverStarts, TakeoverReadsTarget, TakeoverPolls, TakeoverPreempts,
      TakeoverRestores, ServiceState, owner
<1>7. CASE DelayPasses \/ PreferencePasses \/ \E v \in Workspaces : GracePasses(v)
  BY <1>1, <1>7 DEF DelayPasses, PreferencePasses, GracePasses, Elapses, ServiceState, owner
<1>8. ASSUME NEW v \in Workspaces,
             \/ Close(v) \/ Reopen(v) \/ RestartCompanion(v) \/ CompanionReplaced(v)
             \/ CompanionMissing(v)
      PROVE owner' = owner
  BY <1>1, <1>8, WindowActions DEF TypeInv, ServiceState, owner
<1>9. ASSUME NEW v \in Workspaces,
             Dispatch(v) \/ Claim(v) \/ Advance(v) \/ UserAct(v) \/ RecoverHead(v)
      PROVE owner' = owner
  BY <1>9, OwnActions DEF TypeInv, owner
<1>10. ASSUME NEW c \in Lines, NEW ok \in BOOLEAN, Heard(c, ok) PROVE owner' = owner
  BY <1>2, <1>10, HeardEffect
<1>11. CASE (\E c \in Lines : ServerStep(c)) \/ (\E c \in Callers : TimesOut(c))
  <2>1. ASSUME NEW c \in Lines, ServerStep(c) PROVE owner' = owner
    BY <1>10, <2>1, ServerEffect DEF owner
  <2>2. ASSUME NEW c \in Callers, TimesOut(c) PROVE owner' = owner
    BY <1>10, <2>2 DEF TimesOut, Callers, Lines
  <2> QED
    BY <1>11, <2>1, <2>2
<1> QED
  BY <1>4, <1>5, <1>6, <1>7, <1>8, <1>9, <1>11 DEF Next, Crash

\* However many windows hang and requests fail: while the watchdog replaces the companion
\* of the queue that owns the model, neither a competitor nor a restoration takes it away.
THEOREM LeaseHeld == Spec => LeaseKept
<1>1. Init => LeaseInv
  BY DEF Init, LeaseInv, NoLoop, NoRequest, Lines
<1>2. TypeInv /\ LeaseInv /\ [Next]_vars =>
        [\A w \in restarting :
           owner[1] = w /\ Active(w) /\ request["loop"].op # "relaunch" /\ service' # Forgotten =>
           owner' = owner]_vars
  BY LeaseStep
<1> QED
  BY <1>1, <1>2, TypesAlways, LeaseNext, PTL DEF Spec, LeaseKept

------------------------------------------------------------------------------
(* An interrupted head.  To replace its session takes a lost thread, which   *)
(* the relaunch of an orphan needs, and a caller beside the cycle or behind  *)
(* its time, which puts the head in conflict meanwhile: two disturbances.    *)

Calm == takeover.pc = "none" /\ \A c \in Lines \ {"loop"} : request[c].op = "none"

NoLoss ==
  /\ \A w \in Workspaces : queue[w].thread # "lost" /\ ~loop.obs[w].orphan
  /\ \A c \in Lines : request[c].op # "relaunch"

AboutToRelaunch(w) ==
  \/ loop.obs[w].orphan /\ loop.pc \in {"poll", "orphans"}
  \/ request["loop"].op = "relaunch" /\ request["loop"].at = w

LossInv ==
  /\ used = 0 => Calm /\ NoLoss
  /\ used <= 1 => Calm \/ NoLoss
  /\ used <= 1 => \A w \in Workspaces : AboutToRelaunch(w) => ~Conflict(w)

\* What a step does to those parts.
Spared ==
  /\ UNCHANGED used \/ used' = used + 1
  /\ Calm => Calm' \/ (Overlaps /\ used' = used + 1)
  /\ NoLoss => NoLoss' \/ (Deletes /\ used' = used + 1)
  /\ Calm /\ NoLoss => Calm' \/ NoLoss'
  /\ \A w \in Workspaces :
       /\ AboutToRelaunch(w)' => AboutToRelaunch(w) \/ ~Conflict(w)'
       /\ Conflict(w)' => Conflict(w) \/ \E c \in Lines : request[c].op = "preempt"

LEMMA SparedEnough ==
  ASSUME TypeInv, LossInv, Spared
  PROVE LossInv'
<1>1. used \in Nat
  BY ArbiterAssumption DEF TypeInv, UsedInv
<1>2. used' = 0 => used = 0 /\ used' = used
  BY <1>1 DEF Spared
<1>3. used' <= 1 => used <= 1 /\ (used' = used \/ used = 0)
  BY <1>1 DEF Spared
<1>4. used' <= 1 => Calm' \/ NoLoss'
  <2>1. CASE used' = used
    BY <1>1, <1>3, <2>1 DEF LossInv, Spared
  <2>2. CASE used = 0
    BY <2>2 DEF LossInv, Spared
  <2> QED
    BY <1>3, <2>1, <2>2
<1>5. ASSUME used' <= 1, NEW w \in Workspaces, AboutToRelaunch(w)' PROVE ~Conflict(w)'
  <2>1. CASE AboutToRelaunch(w)
    <3>1. ~Conflict(w) /\ (Calm \/ NoLoss)
      BY <1>3, <1>5, <2>1 DEF LossInv
    <3>2. ~NoLoss
      BY <2>1 DEF AboutToRelaunch, NoLoss, Lines
    <3>3. request["loop"].op # "preempt"
      BY <2>1 DEF AboutToRelaunch, TypeInv, CallsInv, LoopFits
    <3>4. \A c \in Lines : request[c].op # "preempt"
      BY <3>1, <3>2, <3>3 DEF Calm
    <3> QED
      BY <3>1, <3>4 DEF Spared
  <2>2. CASE ~AboutToRelaunch(w)
    BY <1>5, <2>2 DEF Spared
  <2> QED
    BY <2>1, <2>2
<1> QED
  BY <1>1, <1>2, <1>4, <1>5 DEF LossInv, Spared

LEMMA SparedByWindows ==
  ASSUME TypeInv, NEW w \in Workspaces,
         \/ Dispatch(w) \/ Claim(w) \/ Advance(w) \/ UserAct(w) \/ RecoverHead(w)
         \/ Close(w) \/ Reopen(w) \/ RestartCompanion(w) \/ CompanionReplaced(w)
         \/ CompanionMissing(w)
  PROVE Spared
<1>1. UNCHANGED <<loop, takeover, request>>
  BY OwnActions, WindowActions DEF TypeInv
<1>2. /\ UNCHANGED used \/ used' = used + 1
      /\ \A v \in Workspaces :
           /\ queue'[v].thread = "lost" => queue[v].thread = "lost" \/ (Deletes /\ used' = used + 1)
           /\ Conflict(v)' => Conflict(v)
  <2>1. CASE Dispatch(w) \/ Claim(w) \/ Advance(w) \/ UserAct(w) \/ RecoverHead(w)
    <3>1. \A v \in Workspaces \ {w} : queue'[v] = queue[v]
      BY <2>1, OwnEffect
    <3> QED
      BY <2>1, <3>1, OwnEffect DEF Conflict
  <2>2. CASE \/ Close(w) \/ Reopen(w) \/ RestartCompanion(w) \/ CompanionReplaced(w)
             \/ CompanionMissing(w)
    <3>1. UNCHANGED used \/ used' = used + 1
      BY <2>2 DEF Close, Reopen, RestartCompanion, CompanionReplaced, CompanionMissing, Disturb
    <3> QED
      BY <2>2, <3>1, WindowActions DEF TypeInv, Conflict
  <2> QED
    BY <2>1, <2>2
<1>3. Calm => Calm'
  BY <1>1 DEF Calm
<1>4. NoLoss => NoLoss' \/ (Deletes /\ used' = used + 1)
  BY <1>1, <1>2 DEF NoLoss
<1>5. \A v \in Workspaces : AboutToRelaunch(v)' => AboutToRelaunch(v)
  BY <1>1 DEF AboutToRelaunch
<1> QED
  BY <1>2, <1>3, <1>4, <1>5 DEF Spared

LEMMA SparedByCalls ==
  ASSUME TypeInv, (\E c \in Lines : ServerStep(c)) \/ (\E c \in Callers : TimesOut(c))
  PROVE Spared
<1>1. loop.pc = "call" <=> request["loop"].op # "none"
  BY DEF TypeInv, CallsInv, LoopFits
<1>2. takeover.pc = "call" <=> request["takeover"].op # "none"
  BY DEF TypeInv, CallsInv, TakeoverFits
<1>3. ASSUME NEW c \in Lines, request[c].op # "none",
             \/ \E ok \in BOOLEAN : Heard(c, ok)
             \/ UNCHANGED <<loop, takeover>>
      PROVE /\ loop'.obs = loop.obs
            /\ UNCHANGED loop \/ (c = "loop" /\ loop'.pc \notin {"poll", "orphans"})
            /\ Calm => UNCHANGED takeover
  <2>1. Calm => c # "takeover"
    BY <1>3 DEF Calm, Lines
  <2>2. CASE UNCHANGED <<loop, takeover>>
    BY <2>2
  <2>3. ASSUME NEW ok \in BOOLEAN, Heard(c, ok)
        PROVE /\ loop'.obs = loop.obs
              /\ UNCHANGED loop \/ (c = "loop" /\ loop'.pc \notin {"poll", "orphans"})
              /\ Calm => UNCHANGED takeover
    <3>1. /\ loop'.obs = loop.obs
          /\ UNCHANGED takeover \/ c = "takeover"
          /\ \/ UNCHANGED loop
             \/ c = "loop" /\ loop'.pc \in {"preempt", "bookkeep", "restore", "restoring"}
      BY <2>3, HeardEffect
    <3> QED
      BY <2>1, <3>1
  <2> QED
    BY <1>3, <2>2, <2>3
<1>4. ASSUME NEW c \in Lines, ServerStep(c) PROVE Spared
  <2>1. /\ request[c].op # "none"
        /\ (\E ok \in BOOLEAN : Heard(c, ok)) \/ UNCHANGED <<loop, takeover>>
        /\ \A d \in Lines : \/ request'[d].op = "none"
                            \/ request'[d].op = request[d].op /\ request'[d].at = request[d].at
    BY <1>4, ServerEffect
  <2>2. UNCHANGED used \/ used' = used + 1
    BY <1>4, ServerEffect DEF Disturb
  <2>3. /\ loop'.obs = loop.obs
        /\ UNCHANGED loop \/ (c = "loop" /\ loop'.pc \notin {"poll", "orphans"})
        /\ Calm => UNCHANGED takeover
    BY <1>3, <2>1
  <2>4. Calm => Calm'
    BY <2>1, <2>3 DEF Calm
  <2>5. NoLoss => NoLoss'
    BY <1>4, <2>1, <2>3, ServerEffect DEF NoLoss
  <2>6. \A w \in Workspaces : AboutToRelaunch(w)' => AboutToRelaunch(w)
    BY <2>1, <2>3 DEF AboutToRelaunch, Lines
  <2>7. \A w \in Workspaces : Conflict(w)' => Conflict(w) \/ request[c].op = "preempt"
    BY <1>4, ServerEffect
  <2> QED
    BY <2>2, <2>4, <2>5, <2>6, <2>7 DEF Spared
<1>5. ASSUME NEW c \in Callers, TimesOut(c) PROVE Spared
  <2>1. /\ used' = used + 1 /\ UNCHANGED queue /\ Heard(c, FALSE) /\ c \in Lines
        /\ request' = [request EXCEPT ![c] = NoRequest, ![Late[c]] = request[c]] /\ Overlaps
    BY <1>5 DEF TimesOut, windows, Callers, Lines, Disturb, Overlaps
  <2>2. /\ request \in [Lines -> RequestState] /\ Late[c] \in Lines /\ Late[c] # "loop"
        /\ Late[c] # c /\ request[c].op # "none"
    BY <1>5 DEF TypeInv, CallsInv, RequestFits, TimesOut, Late, Callers, Lines
  <2>3. \A d \in Lines : \/ request'[d].op = "none" \/ request'[d] = request[d]
                         \/ d = Late[c] /\ request'[d] = request[c]
    BY <2>1, <2>2 DEF NoRequest
  <2>4. /\ loop'.obs = loop.obs
        /\ UNCHANGED loop \/ (c = "loop" /\ loop'.pc \notin {"poll", "orphans"})
    BY <1>3, <2>1, <2>2
  <2>5. NoLoss => NoLoss'
    BY <2>1, <2>3, <2>4 DEF NoLoss
  <2>6. \A w \in Workspaces : AboutToRelaunch(w)' => AboutToRelaunch(w)
    BY <2>2, <2>3, <2>4 DEF AboutToRelaunch, Lines
  <2>7. \A w \in Workspaces : Conflict(w)' => Conflict(w)
    BY <2>1 DEF Conflict
  <2> QED
    BY <2>1, <2>5, <2>6, <2>7 DEF Spared
<1> QED
  BY <1>4, <1>5

LEMMA SparedByLoop ==
  ASSUME TypeInv, LoopStep
  PROVE Spared
<1>1. /\ loop \in LoopState /\ request \in [Lines -> RequestState]
      /\ loop.pc = "call" <=> request["loop"].op # "none"
  BY DEF TypeInv, CallsInv, LoopFits
<1>2. CASE LoopPolls
  <2>1. PICK w \in loop.unread : \E o \in PossibleObservation(w) :
          /\ Polled(w, o)
          /\ loop' = [loop EXCEPT !.unread = @ \ {w}, !.obs[w] = o]
    BY <1>2 DEF LoopPolls
  <2>2. PICK o \in PossibleObservation(w) :
          /\ Polled(w, o)
          /\ loop' = [loop EXCEPT !.unread = @ \ {w}, !.obs[w] = o]
    BY <2>1
  <2>3. /\ w \in Workspaces /\ UNCHANGED <<open, restarting, takeover, request>>
        /\ loop.pc = "poll"
    BY <1>1, <1>2 DEF LoopPolls, LoopState
  <2>4. /\ o.orphan => queue[w].thread = "lost" /\ ~Conflict(w)
        /\ \A v \in Workspaces : /\ Conflict(v)' <=> Conflict(v)
                                 /\ queue'[v].thread = queue[v].thread
    BY <2>2, <2>3, PolledKept DEF TypeInv, Conflict
  <2>5. UNCHANGED used \/ used' = used + 1
    BY <2>2 DEF Polled, Disturb
  <2> DEFINE seen == [loop.obs EXCEPT ![w] = o]
  <2>6. seen[w] = o /\ \A v \in Workspaces \ {w} : seen[v] = loop.obs[v]
    BY <1>1, <2>3 DEF LoopState
  <2>7. loop' = [loop EXCEPT !.unread = @ \ {w}, !.obs = seen]
    BY <1>1, <2>2 DEF LoopState
  <2> HIDE DEF seen
  <2>8. loop'.obs = seen /\ loop'.pc = "poll"
    BY <1>1, <2>3, <2>7 DEF LoopState
  <2>9. Calm => Calm'
    BY <2>3 DEF Calm
  <2>10. NoLoss => NoLoss'
    BY <2>3, <2>4, <2>6, <2>8 DEF NoLoss
  <2>11. \A v \in Workspaces : AboutToRelaunch(v)' => AboutToRelaunch(v) \/ ~Conflict(v)'
    BY <2>3, <2>4, <2>6, <2>8 DEF AboutToRelaunch
  <2> QED
    BY <2>4, <2>5, <2>9, <2>10, <2>11 DEF Spared
<1>3. ASSUME UNCHANGED <<queue, takeover, used>>,
             \A d \in Lines \ {"loop"} : request'[d] = request[d],
             NoLoss => request'["loop"].op # "relaunch" /\ \A w \in Workspaces : ~loop'.obs[w].orphan,
             \A w \in Workspaces : AboutToRelaunch(w)' => AboutToRelaunch(w)
      PROVE Spared
  <2>1. Calm => Calm'
    BY <1>3 DEF Calm
  <2>2. NoLoss => NoLoss'
    BY <1>3 DEF NoLoss
  <2> QED
    BY <1>3, <2>1, <2>2 DEF Spared, Conflict
<1>4. CASE LoopStarts \/ LoopEnds
  <2>1. /\ UNCHANGED <<queue, takeover, used, request>> /\ loop.pc # "call"
        /\ \A w \in Workspaces : loop'.obs[w] = Missing
    <3>1. CASE LoopStarts
      <4>1. loop' = [NoLoop EXCEPT !.pc = "poll", !.registered = open, !.unread = open]
        BY <3>1 DEF LoopStarts
      <4>2. loop'.obs = NoLoop.obs
        BY <4>1 DEF NoLoop
      <4> QED
        BY <3>1, <4>2 DEF LoopStarts, LoopAt, NoLoop, windows
    <3>2. CASE LoopEnds
      BY <3>2 DEF LoopEnds, LoopAt, NoLoop, windows
    <3> QED
      BY <1>4, <3>1, <3>2
  <2>2. \A w \in Workspaces : ~loop'.obs[w].orphan
    BY <2>1 DEF Missing
  <2> QED
    BY <1>1, <1>3, <2>1, <2>2 DEF AboutToRelaunch
<1>5. CASE LoopArbitrates \/ LoopRestores
  <2>1. /\ UNCHANGED <<queue, takeover, used, request>> /\ loop.pc \in {"poll", "restore"}
        /\ loop'.obs = loop.obs
        /\ loop'.pc \in {"poll", "orphans"} => loop.pc = "poll"
    <3>1. CASE LoopArbitrates
      BY <1>1, <3>1 DEF LoopArbitrates, LoopAt, LoopGoes, windows, LoopState
    <3>2. CASE LoopRestores
      BY <1>1, <3>2 DEF LoopRestores, LoopAt, LoopGoes, windows, LoopState
    <3> QED
      BY <1>5, <3>1, <3>2
  <2> QED
    BY <1>1, <1>3, <2>1 DEF AboutToRelaunch, NoLoss
<1>6. CASE LoopPreempts \/ LoopResumesWinner \/ LoopTries
  <2>1. /\ UNCHANGED <<queue, takeover, used>>
        /\ loop.pc \in {"preempt", "restoring"} /\ loop'.obs = loop.obs
        /\ loop'.pc \notin {"poll", "orphans"}
    <3>1. CASE LoopPreempts
      BY <1>1, <3>1 DEF LoopPreempts, LoopAt, windows, LoopState
    <3>2. CASE LoopResumesWinner
      BY <1>1, <3>2 DEF LoopResumesWinner, LoopAt, LoopGoes, windows, LoopState
    <3>3. CASE LoopTries
      BY <1>1, <3>3 DEF LoopTries, LoopAt, LoopGoes, windows, LoopState
    <3> QED
      BY <1>6, <3>1, <3>2, <3>3
  <2>2. /\ \A d \in Lines \ {"loop"} : request'[d] = request[d]
        /\ request'["loop"].op # "relaunch"
    <3>1. UNCHANGED request
          \/ \E op \in {"preempt", "resume", "restore"} : \E w, s, v : Call("loop", op, w, s, v)
      BY <1>6 DEF LoopPreempts, LoopResumesWinner, LoopTries
    <3>2. CASE UNCHANGED request
      BY <1>1, <2>1, <3>2 DEF Lines
    <3>3. CASE \E op \in {"preempt", "resume", "restore"} : \E w, s, v : Call("loop", op, w, s, v)
      BY <1>1, <3>3 DEF Call, Lines
    <3> QED
      BY <3>1, <3>2, <3>3
  <2> QED
    BY <1>3, <2>1, <2>2 DEF AboutToRelaunch, NoLoss
<1>7. CASE LoopOrphans
  <2>1. PICK w \in Candidates :
          \/ LoopGoes("restore") /\ UNCHANGED request
          \/ /\ Call("loop", "relaunch", w, loop.obs[w].session, NoWorkspace)
             /\ LoopGoes("call")
    BY <1>7 DEF LoopOrphans
  <2>2. /\ UNCHANGED <<queue, takeover, used>> /\ loop.pc = "orphans"
        /\ w \in Workspaces /\ loop.obs[w].orphan
    BY <1>7 DEF LoopOrphans, LoopAt, windows, Candidates, Orphans
  <2>3. CASE LoopGoes("restore") /\ UNCHANGED request
    <3>1. loop'.obs = loop.obs /\ loop'.pc = "restore"
      BY <1>1, <2>3 DEF LoopGoes, LoopState
    <3> QED
      BY <1>1, <1>3, <2>2, <2>3, <3>1 DEF AboutToRelaunch, NoLoss
  <2>4. CASE /\ Call("loop", "relaunch", w, loop.obs[w].session, NoWorkspace)
             /\ LoopGoes("call")
    <3>1. loop'.obs = loop.obs /\ loop'.pc = "call"
      BY <1>1, <2>4 DEF LoopGoes, LoopState
    <3>2. /\ \A d \in Lines \ {"loop"} : request'[d] = request[d]
          /\ request'["loop"].at = w
      BY <1>1, <2>4 DEF Call, Lines
    <3>3. ~NoLoss /\ AboutToRelaunch(w)
      BY <2>2 DEF NoLoss, AboutToRelaunch
    <3> QED
      BY <1>3, <2>2, <3>1, <3>2, <3>3 DEF AboutToRelaunch
  <2> QED
    BY <2>1, <2>3, <2>4
<1> QED
  BY <1>2, <1>4, <1>5, <1>6, <1>7 DEF LoopStep

LEMMA SparedByTakeover ==
  ASSUME TypeInv, TakeoverStep \/ \E w \in Workspaces : TakeoverStarts(w)
  PROVE Spared
<1>1. /\ takeover \in TakeoverState /\ request \in [Lines -> RequestState]
      /\ takeover.pc # "none" => takeover.target \in Workspaces
  BY DEF TypeInv, CallsInv, TakeoverFits
<1>2. /\ UNCHANGED loop /\ (UNCHANGED used \/ used' = used + 1)
      /\ \A w \in Workspaces : /\ Conflict(w)' <=> Conflict(w)
                               /\ queue'[w].thread = queue[w].thread
  <2>1. CASE TakeoverReadsTarget
    <3>1. PICK o \in PossibleObservation(takeover.target) : Polled(takeover.target, o)
      BY <2>1 DEF TakeoverReadsTarget
    <3>2. takeover.target \in Workspaces /\ UNCHANGED <<open, restarting, loop>>
      BY <1>1, <2>1 DEF TakeoverReadsTarget
    <3>3. UNCHANGED used \/ used' = used + 1
      BY <3>1 DEF Polled, Disturb
    <3> QED
      BY <3>1, <3>2, <3>3, PolledKept DEF TypeInv, Conflict
  <2>2. CASE TakeoverPolls
    <3>1. UNCHANGED <<open, restarting, loop>>
      BY <2>2 DEF TakeoverPolls
    <3>2. CASE UNCHANGED <<queue, used>>
      BY <3>1, <3>2 DEF Conflict
    <3>3. ASSUME NEW w \in takeover.unread, NEW o \in PossibleObservation(w), Polled(w, o)
          PROVE /\ UNCHANGED used \/ used' = used + 1
                /\ \A v \in Workspaces : /\ Conflict(v)' <=> Conflict(v)
                                         /\ queue'[v].thread = queue[v].thread
      <4>1. w \in Workspaces
        BY <1>1 DEF TakeoverState
      <4>2. UNCHANGED used \/ used' = used + 1
        BY <3>3 DEF Polled, Disturb
      <4> QED
        BY <3>1, <3>3, <4>1, <4>2, PolledKept DEF TypeInv, Conflict
    <3> QED
      BY <2>2, <3>1, <3>2, <3>3 DEF TakeoverPolls
  <2>3. CASE TakeoverPreempts \/ TakeoverRestores \/ \E w \in Workspaces : TakeoverStarts(w)
    BY <2>3
    DEF TakeoverPreempts, TakeoverRestores, TakeoverStarts, windows, Disturb, Conflict
  <2> QED
    BY <2>1, <2>2, <2>3 DEF TakeoverStep
<1>3. Calm => Calm' \/ (Overlaps /\ used' = used + 1)
  <2>1. CASE TakeoverStep
    BY <2>1
    DEF TakeoverStep, TakeoverReadsTarget, TakeoverPolls, TakeoverPreempts, TakeoverRestores, Calm
  <2>2. CASE \E w \in Workspaces : TakeoverStarts(w)
    BY <2>2 DEF TakeoverStarts, Disturb, Overlaps
  <2> QED
    BY <2>1, <2>2
<1>4. /\ request'["loop"] = request["loop"]
      /\ \A d \in Lines : request'[d].op = "relaunch" => request[d].op = "relaunch"
  <2>1. UNCHANGED request
        \/ \E op \in {"preempt", "restore", "resume"} : \E w, s, v : Call("takeover", op, w, s, v)
    BY DEF TakeoverStep, TakeoverStarts, TakeoverReadsTarget, TakeoverPolls, TakeoverPreempts,
           TakeoverRestores
  <2>2. CASE \E op \in {"preempt", "restore", "resume"} : \E w, s, v : Call("takeover", op, w, s, v)
    BY <1>1, <2>2 DEF Call, Lines
  <2> QED
    BY <2>1, <2>2
<1>5. NoLoss => NoLoss'
  BY <1>2, <1>4 DEF NoLoss
<1>6. \A w \in Workspaces : AboutToRelaunch(w)' => AboutToRelaunch(w)
  BY <1>2, <1>4 DEF AboutToRelaunch
<1> QED
  BY <1>2, <1>3, <1>5, <1>6 DEF Spared

LEMMA LossNext == TypeInv /\ LossInv /\ [Next]_vars => LossInv'
<1> SUFFICES ASSUME TypeInv, LossInv, [Next]_vars PROVE LossInv'
  OBVIOUS
<1>1. CASE UNCHANGED vars
  BY <1>1 DEF vars, windows, LossInv, Calm, NoLoss, AboutToRelaunch, Conflict
<1>2. ASSUME UNCHANGED <<queue, used, loop, takeover, request>> PROVE LossInv'
  BY <1>2 DEF LossInv, Calm, NoLoss, AboutToRelaunch, Conflict
<1>3. CASE DelayPasses \/ PreferencePasses \/ \E w \in Workspaces : GracePasses(w)
  BY <1>2, <1>3 DEF DelayPasses, PreferencePasses, GracePasses, Elapses, windows
<1>4. CASE Crash
  <2>1. /\ used' = used + 1 /\ UNCHANGED queue /\ loop' = NoLoop /\ Overlaps
        /\ request' = [loop |-> NoRequest, takeover |-> NoRequest,
                       lateLoop |-> request["loop"], lateTakeover |-> request["takeover"]]
    BY <1>4 DEF Crash, Disturb, Overlaps
  <2>2. \A w \in Workspaces : ~loop'.obs[w].orphan
    BY <2>1 DEF NoLoop, Missing
  <2>3. NoLoss => NoLoss'
    BY <2>1, <2>2 DEF NoLoss, NoRequest, Lines
  <2>4. \A w \in Workspaces : ~AboutToRelaunch(w)'
    BY <2>1, <2>2 DEF AboutToRelaunch, NoRequest
  <2> QED
    BY <2>1, <2>3, <2>4, SparedEnough DEF Spared, Conflict
<1>5. ASSUME NEW w \in Workspaces,
             \/ Dispatch(w) \/ Claim(w) \/ Advance(w) \/ UserAct(w) \/ RecoverHead(w)
             \/ Close(w) \/ Reopen(w) \/ RestartCompanion(w) \/ CompanionReplaced(w)
             \/ CompanionMissing(w)
      PROVE LossInv'
  BY <1>5, SparedByWindows, SparedEnough
<1> QED
  BY <1>1, <1>3, <1>4, <1>5, SparedByCalls, SparedByLoop, SparedByTakeover, SparedEnough DEF Next

\* Whatever step replaces the session of a head in conflict.
LEMMA SameThreadStep ==
  ASSUME TypeInv, [Next]_vars, NEW w \in Workspaces,
         Conflict(w), queue'[w].session # queue[w].session
  PROVE \/ queue[w].thread = "completed"
        \/ \E c \in Lines : request[c].op = "relaunch" /\ request[c].at = w
<1>2. CASE UNCHANGED queue
  BY <1>2
<1>3. ASSUME NEW v \in Workspaces,
             Dispatch(v) \/ Claim(v) \/ Advance(v) \/ UserAct(v) \/ RecoverHead(v)
      PROVE queue[w].thread = "completed"
  <2>1. w = v
    BY <1>3, OwnEffect
  <2> QED
    BY <1>3, <2>1, OwnEffect
<1>4. ASSUME NEW v \in Workspaces,
             \/ Close(v) \/ Reopen(v) \/ RestartCompanion(v) \/ CompanionReplaced(v)
             \/ CompanionMissing(v)
      PROVE FALSE
  BY <1>4, WindowActions DEF TypeInv
<1>5. ASSUME NEW c \in Lines, ServerStep(c)
      PROVE request[c].op = "relaunch" /\ request[c].at = w
  BY <1>5, ServerEffect
<1>6. CASE LoopStep
  <2>1. CASE LoopPolls
    <3>1. loop.unread \subseteq Workspaces /\ UNCHANGED <<open, restarting>>
      BY <2>1 DEF LoopPolls, TypeInv, CallsInv, LoopState
    <3>2. PICK v \in loop.unread : \E o \in PossibleObservation(v) : Polled(v, o)
      BY <2>1 DEF LoopPolls
    <3> QED
      BY <3>1, <3>2, PolledKept DEF TypeInv
  <2>2. CASE ~LoopPolls
    BY <1>2, <1>6, <2>2
    DEF LoopStep, LoopStarts, LoopArbitrates, LoopPreempts, LoopResumesWinner, LoopOrphans,
        LoopRestores, LoopTries, LoopEnds, LoopAt, windows
  <2> QED
    BY <2>1, <2>2
<1>7. CASE TakeoverStep \/ \E v \in Workspaces : TakeoverStarts(v)
  <2>1. CASE TakeoverReadsTarget
    <3>1. takeover.target \in Workspaces /\ UNCHANGED <<open, restarting>>
      BY <2>1 DEF TakeoverReadsTarget, TypeInv, CallsInv, TakeoverFits
    <3>2. PICK o \in PossibleObservation(takeover.target) : Polled(takeover.target, o)
      BY <2>1 DEF TakeoverReadsTarget
    <3> QED
      BY <3>1, <3>2, PolledKept DEF TypeInv
  <2>2. CASE TakeoverPolls
    <3>1. takeover.unread \subseteq Workspaces /\ UNCHANGED <<open, restarting>>
      BY <2>2 DEF TakeoverPolls, TypeInv, CallsInv, TakeoverState
    <3>2. PICK v \in takeover.unread : \E o \in PossibleObservation(v) : Polled(v, o)
      BY <1>2, <2>2 DEF TakeoverPolls
    <3> QED
      BY <3>1, <3>2, PolledKept DEF TypeInv
  <2>3. CASE TakeoverPreempts \/ TakeoverRestores \/ \E v \in Workspaces : TakeoverStarts(v)
    BY <1>2, <2>3 DEF TakeoverPreempts, TakeoverRestores, TakeoverStarts, windows
  <2> QED
    BY <1>7, <2>1, <2>2, <2>3 DEF TakeoverStep
<1>8. CASE \/ DelayPasses \/ PreferencePasses \/ Crash \/ (\E v \in Workspaces : GracePasses(v))
           \/ (\E c \in Callers : TimesOut(c)) \/ UNCHANGED vars
  BY <1>2, <1>8 DEF DelayPasses, PreferencePasses, GracePasses, Elapses, Crash, TimesOut, vars, windows
<1> QED
  BY <1>3, <1>4, <1>5, <1>6, <1>7, <1>8 DEF Next

\* A relaunch of a queue is known to the cycle alone where it is calm, and is none where
\* no thread is lost.
LEMMA RelaunchKnown ==
  ASSUME Calm \/ NoLoss, NEW w \in Workspaces, NEW c \in Lines,
         request[c].op = "relaunch", request[c].at = w
  PROVE AboutToRelaunch(w)
  BY DEF Calm, NoLoss, AboutToRelaunch

\* In any number of workspaces an interrupted head is given back in its own thread or
\* ends there, until two disturbances have met.
THEOREM OwnThreadBack == Spec => SameThread
<1>1. Init => LossInv
  BY DEF Init, LossInv, Calm, NoLoss, AboutToRelaunch, NoTakeover, NoLoop, NoRequest, Lines, Missing
<1>2. TypeInv /\ LossInv /\ [Next]_vars =>
        [\A w \in Workspaces : Conflict(w) /\ queue'[w].session # queue[w].session =>
           queue[w].thread = "completed" \/ used > 1]_vars
  <2> SUFFICES ASSUME TypeInv, LossInv, [Next]_vars, NEW w \in Workspaces,
                      Conflict(w), queue'[w].session # queue[w].session,
                      queue[w].thread # "completed", ~(used > 1)
               PROVE FALSE
    OBVIOUS
  <2>1. used <= 1
    BY ArbiterAssumption DEF TypeInv, UsedInv
  <2>2. PICK c \in Lines : request[c].op = "relaunch" /\ request[c].at = w
    BY SameThreadStep
  <2> QED
    BY <2>1, <2>2, RelaunchKnown DEF LossInv
<1> QED
  BY <1>1, <1>2, TypesAlways, LossNext, PTL DEF Spec, SameThread

\* Without lost threads, or without callers beside the cycle, no number of disturbances
\* replaces the session of a head in conflict before its thread has completed.
RecallInv ==
  /\ ~Deletes => NoLoss
  /\ ~Overlaps => Calm
  /\ \A w \in Workspaces : AboutToRelaunch(w) => ~Conflict(w)

LEMMA RecallNext ==
  ASSUME ~Deletes \/ ~Overlaps
  PROVE TypeInv /\ RecallInv /\ [Next]_vars => RecallInv'
<1> SUFFICES ASSUME TypeInv, RecallInv, [Next]_vars PROVE RecallInv'
  OBVIOUS
<1>1. ASSUME Spared PROVE RecallInv'
  <2>1. (~Deletes => NoLoss') /\ (~Overlaps => Calm')
    BY <1>1 DEF RecallInv, Spared
  <2>2. ASSUME NEW w \in Workspaces, AboutToRelaunch(w)' PROVE ~Conflict(w)'
    <3>1. CASE AboutToRelaunch(w)
      <4>1. ~Conflict(w) /\ ~NoLoss
        BY <3>1 DEF RecallInv, AboutToRelaunch, NoLoss, Lines
      <4>2. Calm
        BY <4>1 DEF RecallInv
      <4>3. request["loop"].op # "preempt"
        BY <3>1 DEF AboutToRelaunch, TypeInv, CallsInv, LoopFits
      <4>4. \A c \in Lines : request[c].op # "preempt"
        BY <4>2, <4>3 DEF Calm
      <4> QED
        BY <1>1, <4>1, <4>4 DEF Spared
    <3>2. CASE ~AboutToRelaunch(w)
      BY <1>1, <2>2, <3>2 DEF Spared
    <3> QED
      BY <3>1, <3>2
  <2> QED
    BY <2>1, <2>2 DEF RecallInv
<1>2. CASE UNCHANGED <<queue, loop, takeover, request>>
  BY <1>2 DEF RecallInv, Calm, NoLoss, AboutToRelaunch, Conflict, Deletes, Overlaps
<1>3. CASE DelayPasses \/ PreferencePasses \/ \E w \in Workspaces : GracePasses(w)
  BY <1>2, <1>3 DEF DelayPasses, PreferencePasses, GracePasses, Elapses, windows
<1>4. CASE Crash
  <2>1. /\ UNCHANGED queue /\ loop' = NoLoop /\ Overlaps
        /\ request' = [loop |-> NoRequest, takeover |-> NoRequest,
                       lateLoop |-> request["loop"], lateTakeover |-> request["takeover"]]
    BY <1>4 DEF Crash, Disturb, Overlaps
  <2>2. \A w \in Workspaces : ~loop'.obs[w].orphan /\ ~AboutToRelaunch(w)'
    BY <2>1 DEF NoLoop, Missing, AboutToRelaunch, NoRequest
  <2>3. NoLoss => NoLoss'
    BY <2>1, <2>2 DEF NoLoss, NoRequest, Lines
  <2> QED
    BY <2>1, <2>2, <2>3 DEF RecallInv, Deletes, Overlaps
<1>5. ASSUME NEW w \in Workspaces,
             \/ Dispatch(w) \/ Claim(w) \/ Advance(w) \/ UserAct(w) \/ RecoverHead(w)
             \/ Close(w) \/ Reopen(w) \/ RestartCompanion(w) \/ CompanionReplaced(w)
             \/ CompanionMissing(w)
      PROVE RecallInv'
  BY <1>1, <1>5, SparedByWindows
<1> QED
  BY <1>1, <1>2, <1>3, <1>4, <1>5, SparedByCalls, SparedByLoop, SparedByTakeover
  DEF Next, vars, windows

\* Where no thread is lost, or where nobody calls beside the cycle or behind its time,
\* whatever else happens and however often: the session of an interrupted head stays until
\* its thread has completed.
THEOREM OwnThreadKept ==
  ASSUME ~Deletes \/ ~Overlaps
  PROVE Spec => [][\A w \in Workspaces : Conflict(w) /\ queue'[w].session # queue[w].session =>
                     queue[w].thread = "completed"]_vars
<1>1. Init => RecallInv
  BY DEF Init, RecallInv, Calm, NoLoss, AboutToRelaunch, NoTakeover, NoLoop, NoRequest, Lines,
         Missing
<1>2. TypeInv /\ RecallInv /\ [Next]_vars =>
        [\A w \in Workspaces : Conflict(w) /\ queue'[w].session # queue[w].session =>
           queue[w].thread = "completed"]_vars
  <2> SUFFICES ASSUME TypeInv, RecallInv, [Next]_vars, NEW w \in Workspaces,
                      Conflict(w), queue'[w].session # queue[w].session,
                      queue[w].thread # "completed"
               PROVE FALSE
    OBVIOUS
  <2>1. PICK c \in Lines : request[c].op = "relaunch" /\ request[c].at = w
    BY SameThreadStep
  <2> QED
    BY <2>1, RelaunchKnown DEF RecallInv
<1>3. TypeInv /\ RecallInv /\ [Next]_vars => RecallInv'
  BY RecallNext
<1> QED
  BY <1>1, <1>2, <1>3, TypesAlways, PTL DEF Spec
=============================================================================
