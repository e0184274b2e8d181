----------------------------- MODULE QueueHosts -----------------------------
(***************************************************************************)
(* The extension hosts of one workspace, over the files they share: the    *)
(* registration and the socket of src/extension/workspace_registry.ts and  *)
(* src/extension/server.ts, the start and stop of src/extension/           *)
(* extension.ts, and the queue file, which persist() of                    *)
(* src/extension/task_queue.ts writes under the lease the registration is. *)
(*                                                                         *)
(* A reloaded window, a second window on the workspace and a crashed one   *)
(* give hosts whose lives overlap.  Every access to a file is a step.      *)
(***************************************************************************)
EXTENDS Naturals, Sequences, FiniteSets

CONSTANTS
  Hosts,       \* extension hosts
  NoHost,
  Records,     \* what clients enqueue, each once
  Imported,    \* the records of a queue file in the old runtime directory
  Disturbances, \* which of "early" (a request served before the queue is loaded),
                \* "missed" (a probe a live server does not answer), "dropped" (a
                \* connection that ends before its answer), "crash" happen
  MaxDisturbances \* bound: how many of them

Worker == "worker"  \* names a write of the worker, nobody's answer depends on it

ASSUME HostsAssumption ==
  /\ NoHost \notin Hosts \cup Records /\ Worker \notin Records
  /\ Imported \subseteq Records
  /\ Disturbances \subseteq {"early", "missed", "dropped", "crash"} /\ MaxDisturbances \in Nat

VARIABLES
  pc,           \* where start() or stop() of each host is
  listening,    \* its server is open, at the path or not
  registration, \* the host the registration file names
  socket,       \* the host whose socket is at the path, dead or alive
  file,         \* the queue file: its records, or NoFile
  mem,          \* this.data of each host
  working,      \* the worker of each host dispatches or monitors a record
  connected,    \* the requests of each host whose connection is open
  asking,       \* the writes of each host that wait for the answer about the lease
  chain,        \* persistenceChain: the snapshots that wait to be written
  aborted,      \* abortController.signal.aborted
  acked,        \* records whose client got its answer
  used          \* how much of each bound is spent; takeovers and imports, to 1 and 2

writeVars == <<asking, chain, connected>>
queueVars == <<file, mem, working, writeVars, aborted, acked>>

vars == <<pc, listening, registration, socket, queueVars, used>>

NoFile == {NoHost}
WorkerWrites(h) ==
  Worker \in asking[h] \/ \E i \in DOMAIN chain[h] : chain[h][i].write = Worker

\* The host takes requests, or waits for the connections it still has.
Serving(h) == pc[h] \in {"load", "up", "close", "drain"}

\* A request goes on when its connection has ended, so that a host that serves no
\* longer may still have writes under way.
InUse(h) == Serving(h) \/ asking[h] # {} \/ chain[h] # <<>>

Goto(h, place) == pc' = [pc EXCEPT ![h] = place]
At(h, place) == pc[h] = place
Count(what) == used' = [used EXCEPT ![what] = @ + 1]
CountTo(what, max) == used' = [used EXCEPT ![what] = IF @ < max THEN @ + 1 ELSE @]
Disturb(what) ==
  /\ what \in Disturbances /\ used.early + used.missed + used.dropped + used.crash < MaxDisturbances
  /\ Count(what)

Init ==
  /\ pc = [h \in Hosts |-> "off"]
  /\ listening = [h \in Hosts |-> FALSE]
  /\ registration = NoHost /\ socket = NoHost
  /\ file = NoFile
  /\ mem = [h \in Hosts |-> {}] /\ working = [h \in Hosts |-> FALSE]
  /\ connected = [h \in Hosts |-> {}]
  /\ asking = [h \in Hosts |-> {}] /\ chain = [h \in Hosts |-> <<>>]
  /\ aborted = [h \in Hosts |-> FALSE]
  /\ acked = {}
  /\ used = [early |-> 0, missed |-> 0, dropped |-> 0, crash |-> 0, takeover |-> 0, import |-> 0]

------------------------------------------------------------------------------
(* Activation: import, probe, register, listen, load.                       *)

\* migrateRuntimeQueueState looks for the queue file.
Activates(h) ==
  /\ At(h, "off")
  /\ Goto(h, IF file = NoFile /\ Imported # {} THEN "import" ELSE "probe")
  /\ UNCHANGED <<listening, registration, socket, queueVars, used>>

Imports(h) ==
  /\ At(h, "import")
  /\ file' = Imported
  /\ Goto(h, "probe") /\ CountTo("import", 2)
  /\ UNCHANGED <<listening, registration, socket, mem, working, writeVars, aborted, acked>>

\* removeStaleSocket: a live server at the path ends the start with an error, one
\* that does not answer counts as dead.
Probes(h) ==
  LET live == socket # NoHost /\ listening[socket] IN
  /\ At(h, "probe")
  /\ \/ socket = NoHost /\ Goto(h, "register") /\ UNCHANGED used
     \/ socket # NoHost /\ ~live /\ Goto(h, "unlink") /\ UNCHANGED used
     \/ live /\ Goto(h, "off") /\ UNCHANGED used
     \/ live /\ Disturb("missed") /\ Goto(h, "unlink")
  /\ UNCHANGED <<listening, registration, socket, queueVars>>

UnlinksStale(h) ==
  /\ At(h, "unlink")
  /\ socket' = NoHost
  /\ Goto(h, "register")
  /\ UNCHANGED <<listening, registration, queueVars, used>>

Registers(h) ==
  /\ At(h, "register")
  /\ registration' = h
  /\ Goto(h, "listen")
  /\ UNCHANGED <<listening, socket, queueVars, used>>

\* The path is taken when somebody else listened in between: the registration is
\* given back, whosever it is by then is looked at first.
Listens(h) ==
  /\ At(h, "listen")
  /\ \/ /\ socket = NoHost
        /\ socket' = h /\ listening' = [listening EXCEPT ![h] = TRUE]
        /\ Goto(h, "load")
        /\ IF \E g \in Hosts \ {h} : InUse(g) THEN CountTo("takeover", 1) ELSE UNCHANGED used
     \/ /\ socket # NoHost
        /\ Goto(h, "release")
        /\ UNCHANGED <<socket, listening, used>>
  /\ UNCHANGED <<registration, queueVars>>

\* queue.start(): a new controller, and the file replaces what is in memory.
Loads(h) ==
  /\ At(h, "load")
  /\ mem' = [mem EXCEPT ![h] = IF file = NoFile THEN @ ELSE file]
  /\ aborted' = [aborted EXCEPT ![h] = FALSE]
  /\ Goto(h, "up")
  /\ UNCHANGED <<listening, registration, socket, file, working, writeVars, acked, used>>

------------------------------------------------------------------------------
(* Deactivation: the queue, then the server, then the registration.         *)

StopsQueue(h) ==
  /\ At(h, "up")
  /\ aborted' = [aborted EXCEPT ![h] = TRUE]
  /\ Goto(h, "close")
  /\ UNCHANGED <<listening, registration, socket, file, mem, working, writeVars, acked, used>>

\* server.close(), once the worker has ended: nobody connects any more and the path
\* is unlinked at once, whoever's socket stands there.
ClosesServer(h) ==
  /\ At(h, "close") /\ ~working[h]
  /\ listening' = [listening EXCEPT ![h] = FALSE]
  /\ socket' = NoHost
  /\ Goto(h, "drain")
  /\ UNCHANGED <<registration, queueVars, used>>

\* Mutant: the open connections are not waited for.
DrainsAtOnce(h) ==
  /\ At(h, "drain")
  /\ Goto(h, "release")
  /\ UNCHANGED <<listening, registration, socket, queueVars, used>>

\* close() calls back when the connections have ended; a request that lost its
\* connection may still be at its write.
Drains(h) ==
  /\ At(h, "drain") /\ connected[h] = {}
  /\ Goto(h, "release")
  /\ UNCHANGED <<listening, registration, socket, queueVars, used>>

\* unregisterWorkspace: the file is read, and unlinked later.
ChecksRelease(h) ==
  /\ At(h, "release")
  /\ Goto(h, IF registration = h THEN "unregister" ELSE "stopped")
  /\ UNCHANGED <<listening, registration, socket, queueVars, used>>

Unregisters(h) ==
  /\ At(h, "unregister")
  /\ registration' = NoHost /\ socket' = NoHost
  /\ Goto(h, "stopped")
  /\ UNCHANGED <<listening, queueVars, used>>

\* Whatever is left of the process is gone with it.
Forgets(h) ==
  /\ mem' = [mem EXCEPT ![h] = {}] /\ working' = [working EXCEPT ![h] = FALSE]
  /\ asking' = [asking EXCEPT ![h] = {}] /\ chain' = [chain EXCEPT ![h] = <<>>]
  /\ connected' = [connected EXCEPT ![h] = {}]
  /\ aborted' = [aborted EXCEPT ![h] = FALSE]

\* The process ends some time after deactivate() returned.
Exits(h) ==
  /\ At(h, "stopped")
  /\ Goto(h, "off") /\ Forgets(h)
  /\ UNCHANGED <<listening, registration, socket, file, acked, used>>

------------------------------------------------------------------------------
(* The queue of a host: requests, the worker, and persist().                *)

Asks(h, write) == asking' = [asking EXCEPT ![h] = @ \cup {write}]

\* A client's request; before the queue is loaded the server takes it as well.
Enqueues(h, r) ==
  /\ Serving(h) /\ r \notin Imported /\ \A g \in Hosts : r \notin mem[g]
  /\ r \notin acked
  /\ \/ ~At(h, "load") /\ UNCHANGED used
     \/ At(h, "load") /\ Disturb("early")
  /\ mem' = [mem EXCEPT ![h] = @ \cup {r}]
  /\ Asks(h, r) /\ connected' = [connected EXCEPT ![h] = @ \cup {r}]
  /\ UNCHANGED <<pc, listening, registration, socket, file, working, chain, aborted, acked>>

\* The connection ends by its timeout or by the client; process() goes on.
Disconnects(h, r) ==
  /\ r \in connected[h] /\ Disturb("dropped")
  /\ connected' = [connected EXCEPT ![h] = @ \ {r}]
  /\ UNCHANGED <<pc, listening, registration, socket, file, mem, working, asking, chain,
                 aborted, acked>>

\* The worker takes up a record, and writes what it observes of it again and again;
\* it rests when nothing runs or waits, when the queue is paused, and when it is aborted.
WorkerStarts(h) ==
  /\ At(h, "up") /\ ~aborted[h] /\ ~working[h] /\ mem[h] # {}
  /\ working' = [working EXCEPT ![h] = TRUE]
  /\ UNCHANGED <<pc, listening, registration, socket, file, mem, writeVars, aborted, acked, used>>

WorkerPersists(h) ==
  /\ working[h] /\ ~aborted[h] /\ ~WorkerWrites(h)
  /\ Asks(h, Worker)
  /\ UNCHANGED <<pc, listening, registration, socket, file, mem, working, chain, connected,
                 aborted, acked, used>>

WorkerRests(h) ==
  /\ working[h] /\ ~WorkerWrites(h)
  /\ working' = [working EXCEPT ![h] = FALSE]
  /\ UNCHANGED <<pc, listening, registration, socket, file, mem, writeVars, aborted, acked, used>>

\* ownsWorkspaceRegistration
OwnsLease(h) == registration = h

Answered(h, write) == asking' = [asking EXCEPT ![h] = @ \ {write}]

\* A write that fails is answered with the error.
Refused(h, write) ==
  /\ connected' = [connected EXCEPT ![h] = @ \ {write}]
  /\ UNCHANGED chain

Chained(h, write) ==
  /\ chain' = [chain EXCEPT ![h] = Append(@, [write |-> write, snapshot |-> mem[h]])]
  /\ UNCHANGED connected

\* Mutant: a lost lease is an error of the write, the queue goes on.
ChecksLeaseOnly(h) ==
  /\ \E write \in asking[h] :
       /\ Answered(h, write)
       /\ IF OwnsLease(h) THEN Chained(h, write) ELSE Refused(h, write)
  /\ UNCHANGED <<pc, listening, registration, socket, file, mem, working, aborted, acked, used>>

\* The snapshot is taken once the lease is confirmed; without it the queue stops.
ChecksLease(h) ==
  /\ \E write \in asking[h] :
       /\ Answered(h, write)
       /\ \/ OwnsLease(h) /\ Chained(h, write) /\ UNCHANGED aborted
          \/ ~OwnsLease(h) /\ Refused(h, write) /\ aborted' = [aborted EXCEPT ![h] = TRUE]
  /\ UNCHANGED <<pc, listening, registration, socket, file, mem, working, acked, used>>

\* Who waits for the write is answered, and its connection closed.
Acknowledges(h, write) ==
  /\ acked' = acked \cup (connected[h] \cap {write})
  /\ connected' = [connected EXCEPT ![h] = @ \ {write}]

\* Mutant: the writes are not chained.
WritesUnchained(h) ==
  /\ \E i \in DOMAIN chain[h] :
       /\ file' = chain[h][i].snapshot
       /\ Acknowledges(h, chain[h][i].write)
       /\ chain' = [chain EXCEPT ![h] = SubSeq(@, 1, i - 1) \o SubSeq(@, i + 1, Len(@))]
  /\ UNCHANGED <<pc, listening, registration, socket, mem, working, asking, aborted, used>>

\* The rename; nobody looks at the lease again.
Writes(h) ==
  /\ chain[h] # <<>>
  /\ file' = Head(chain[h]).snapshot
  /\ Acknowledges(h, Head(chain[h]).write)
  /\ chain' = [chain EXCEPT ![h] = Tail(@)]
  /\ UNCHANGED <<pc, listening, registration, socket, mem, working, asking, aborted, used>>

------------------------------------------------------------------------------
\* A host dies; its registration and its socket stay.
Crashes(h) ==
  /\ pc[h] \notin {"off", "stopped"} /\ Disturb("crash")
  /\ Goto(h, "off") /\ Forgets(h)
  /\ listening' = [listening EXCEPT ![h] = FALSE]
  /\ UNCHANGED <<registration, socket, file, acked>>

QueueStep(h) ==
  WorkerStarts(h) \/ WorkerPersists(h) \/ WorkerRests(h) \/ ChecksLease(h) \/ Writes(h)

HostStep(h) ==
  \/ Imports(h) \/ Probes(h) \/ UnlinksStale(h) \/ Registers(h) \/ Listens(h) \/ Loads(h)
  \/ ClosesServer(h) \/ Drains(h) \/ ChecksRelease(h) \/ Unregisters(h)

Next ==
  \E h \in Hosts :
    \/ Activates(h) \/ HostStep(h) \/ StopsQueue(h) \/ Exits(h) \/ Crashes(h)
    \/ QueueStep(h)
    \/ \E r \in Records : Enqueues(h, r) \/ Disconnects(h, r)

Spec == Init /\ [][Next]_vars

\* The event loop of a host goes on and its file accesses return: a worker that works
\* writes, and one that is aborted ends.  That a queue has anything to work on, or that
\* its record ends, is not assumed.
FairSpec ==
  /\ Spec
  /\ \A h \in Hosts :
       WF_vars(HostStep(h)) /\ WF_vars(WorkerPersists(h)) /\ WF_vars(ChecksLease(h))
       /\ WF_vars(Writes(h)) /\ WF_vars(aborted[h] /\ WorkerRests(h))

------------------------------------------------------------------------------
Starting == {"import", "probe", "unlink", "register", "listen"}
Places == Starting \cup {"off", "load", "up", "close", "drain", "release", "unregister", "stopped"}

\* A server is open exactly from listen() to close(), a request has a connection only
\* while the server waits for it, a host has no writes before it listens, the writes of
\* its worker are those of one that works, and the file holds records once there is one.
TypeOK ==
  /\ pc \in [Hosts -> Places]
  /\ listening \in [Hosts -> BOOLEAN]
  /\ \A h \in Hosts : listening[h] <=> pc[h] \in {"load", "up", "close"}
  /\ registration \in Hosts \cup {NoHost} /\ socket \in Hosts \cup {NoHost}
  /\ file = NoFile \/ file \subseteq Records
  /\ mem \in [Hosts -> SUBSET Records]
  /\ asking \in [Hosts -> SUBSET (Records \cup {Worker})]
  /\ chain \in [Hosts -> Seq([write : Records \cup {Worker}, snapshot : SUBSET Records])]
  /\ connected \in [Hosts -> SUBSET Records]
  /\ working \in [Hosts -> BOOLEAN]
  /\ \A h \in Hosts : connected[h] # {} => Serving(h)
  /\ \A h \in Hosts : pc[h] \in Starting \cup {"off"} => asking[h] = {} /\ chain[h] = <<>>
  /\ \A h \in Hosts : working[h] => pc[h] \in {"up", "close"}
  /\ aborted \in [Hosts -> BOOLEAN] /\ acked \subseteq Records
  /\ used \in [early : Nat, missed : Nat, dropped : Nat, crash : Nat, takeover : Nat,
               import : Nat]

\* A record whose client was answered is in the queue file, unless a request came
\* before the queue was loaded, a server was opened while another host was open or
\* still had a write under way, or two hosts imported the old file.  Crashes, reloads,
\* failing starts, dropped connections and writes that overtake one another lose
\* nothing by themselves (task_queue.ts:1344-1372, server.ts:60-71 and 363-367).
LossesAccounted ==
  acked \subseteq file \/ used.early > 0 \/ used.takeover > 0 \/ used.import > 1

\* A queue whose registration is another host's, or gone, stops working on its
\* records instead of driving Cline beside the new one (task_queue.ts:1345-1351).  One
\* that does not work has no write to learn it from.
StaleQueueStops ==
  \A h \in Hosts : (registration # h /\ working[h]) ~> ~working[h]

\* README.md:417: queues are persisted across VS Code termination.
AcknowledgedKept == acked # {} => acked \subseteq file
=============================================================================
