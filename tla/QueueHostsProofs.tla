-------------------------- MODULE QueueHostsProofs --------------------------
(***************************************************************************)
(* The hosts of one workspace, however many there are and whatever records *)
(* they are sent: what a client was answered for is in the queue file.     *)
(***************************************************************************)
EXTENDS QueueHosts, SequenceTheorems, TLAPS

Entry == [write : Records \cup {Worker}, snapshot : SUBSET Records]
Usage == [early : Nat, missed : Nat, dropped : Nat, crash : Nat, takeover : Nat,
          import : Nat]

------------------------------------------------------------------------------
(* Types.                                                                   *)

Open == {"load", "up", "close"}

LEMMA InitType == Init => TypeOK
<1> SUFFICES ASSUME Init PROVE TypeOK
  OBVIOUS
<1>1. chain \in [Hosts -> Seq(Entry)]
  <2>1. <<>> \in Seq(Entry)
    BY EmptySeq
  <2>2. \A none \in Seq(Entry) : chain = [h \in Hosts |-> none] => chain \in [Hosts -> Seq(Entry)]
    OBVIOUS
  <2> QED
    BY <2>1, <2>2, Zenon DEF Init
<1> QED
  BY <1>1 DEF Init, TypeOK, Places, Entry, Starting, Serving

\* A host that moves on opens or closes its server when it has to.
LEMMA PlaceType ==
  ASSUME TypeOK, NEW h \in Hosts, NEW p \in Places, Goto(h, p),
         \/ UNCHANGED listening /\ (p \in Open <=> pc[h] \in Open)
         \/ p \in Open /\ listening' = [listening EXCEPT ![h] = TRUE]
         \/ p \notin Open /\ listening' = [listening EXCEPT ![h] = FALSE]
  PROVE /\ pc' \in [Hosts -> Places] /\ pc'[h] = p
        /\ \A g \in Hosts \ {h} : pc'[g] = pc[g]
        /\ listening' \in [Hosts -> BOOLEAN]
        /\ \A g \in Hosts : listening'[g] <=> pc'[g] \in Open
<1>1. /\ pc' \in [Hosts -> Places] /\ pc'[h] = p
      /\ \A g \in Hosts \ {h} : pc'[g] = pc[g]
  BY DEF TypeOK, Goto
<1>2. /\ listening \in [Hosts -> BOOLEAN]
      /\ \A g \in Hosts : listening[g] <=> pc[g] \in Open
  BY DEF TypeOK, Open
<1>3. /\ listening' \in [Hosts -> BOOLEAN]
      /\ \A g \in Hosts : listening'[g] <=> pc'[g] \in Open
  BY <1>1, <1>2
<1> QED
  BY <1>1, <1>3

\* What a host has under way fits the place it is at.
Busy ==
  \A g \in Hosts :
    /\ connected[g] # {} => Serving(g)
    /\ pc[g] \in Starting \cup {"off"} => asking[g] = {} /\ chain[g] = <<>>
    /\ working[g] => pc[g] \in {"up", "close"}

\* The variables of the writes keep their types.
WriteTypes ==
  /\ asking \in [Hosts -> SUBSET (Records \cup {Worker})]
  /\ chain \in [Hosts -> Seq(Entry)]
  /\ connected \in [Hosts -> SUBSET Records]
  /\ working \in [Hosts -> BOOLEAN]

LEMMA TypeParts ==
  ASSUME TypeOK
  PROVE Busy /\ WriteTypes /\ used \in Usage
  BY DEF TypeOK, Busy, WriteTypes, Entry, Usage

\* A host that leaves its requests and its worker alone goes only where they may be.
LEMMA BusyKept ==
  ASSUME TypeOK, NEW h \in Hosts, NEW p \in Places, pc'[h] = p,
         \A g \in Hosts \ {h} : pc'[g] = pc[g],
         UNCHANGED <<asking, chain, connected, working>>,
         Serving(h) => p \in {"load", "up", "close", "drain"} \/ connected[h] = {},
         p \in Starting \cup {"off"} => pc[h] \in Starting \cup {"off"},
         working[h] => p \in {"up", "close"}
  PROVE Busy' /\ WriteTypes'
<1>1. Busy'
  BY TypeParts DEF Busy, Serving
<1>2. WriteTypes'
  BY TypeParts DEF WriteTypes
<1> QED
  BY <1>1, <1>2

\* The counters stay numbers.
LEMMA UsedType ==
  ASSUME used \in Usage
  PROVE /\ \A what \in DOMAIN used : Count(what) => used' \in Usage
        /\ \A what \in DOMAIN used : \A max : CountTo(what, max) => used' \in Usage
        /\ \A what \in Disturbances : Disturb(what) => used' \in Usage
  BY HostsAssumption DEF Usage, Count, CountTo, Disturb

\* Activation keeps the types.
LEMMA StartsType ==
  ASSUME TypeOK, NEW h \in Hosts,
         \/ Activates(h) \/ Imports(h) \/ Probes(h) \/ UnlinksStale(h) \/ Registers(h)
         \/ Listens(h) \/ Loads(h)
  PROVE TypeOK'
<1>1. used \in Usage
  BY TypeParts
<1>2. used' \in Usage
  BY <1>1, UsedType
  DEF Activates, Imports, Probes, Disturb, UnlinksStale, Registers, Listens, Loads, Usage
<1>3. PICK p \in Places :
        /\ Goto(h, p)
        /\ \/ UNCHANGED listening /\ (p \in Open <=> pc[h] \in Open)
           \/ p \in Open /\ listening' = [listening EXCEPT ![h] = TRUE]
        /\ Serving(h) => p \in {"load", "up", "close", "drain"}
        /\ p \in Starting \cup {"off"} => pc[h] \in Starting \cup {"off"}
        /\ pc[h] \notin {"up", "close"}
  BY DEF Activates, Imports, Probes, UnlinksStale, Registers, Listens, Loads, At, Places, Open,
         Serving, Starting
<1>4. /\ pc' \in [Hosts -> Places] /\ pc'[h] = p
      /\ \A g \in Hosts \ {h} : pc'[g] = pc[g]
      /\ listening' \in [Hosts -> BOOLEAN]
      /\ \A g \in Hosts : listening'[g] <=> pc'[g] \in Open
  BY <1>3, PlaceType
<1>5. UNCHANGED <<asking, chain, connected, working>>
  BY DEF Activates, Imports, Probes, UnlinksStale, Registers, Listens, Loads, queueVars, writeVars
<1>6. Busy' /\ WriteTypes'
  <2>1. ~working[h]
    BY <1>3, TypeParts DEF Busy
  <2> QED
    BY <1>3, <1>4, <1>5, <2>1, BusyKept
<1>7. /\ registration' \in Hosts \cup {NoHost} /\ socket' \in Hosts \cup {NoHost}
      /\ file' = NoFile \/ file' \subseteq Records
      /\ mem' \in [Hosts -> SUBSET Records]
      /\ aborted' \in [Hosts -> BOOLEAN] /\ acked' \subseteq Records
  <2>1. CASE Activates(h) \/ Imports(h) \/ Probes(h) \/ UnlinksStale(h)
    BY <2>1, HostsAssumption DEF TypeOK, Activates, Imports, Probes, UnlinksStale, queueVars
  <2>2. CASE Registers(h) \/ Listens(h)
    BY <2>2 DEF TypeOK, Registers, Listens, queueVars
  <2>3. CASE Loads(h)
    BY <2>3 DEF TypeOK, Loads
  <2> QED
    BY <2>1, <2>2, <2>3
<1> QED
  BY <1>2, <1>4, <1>6, <1>7 DEF TypeOK, Usage, Open, Busy, WriteTypes, Entry

\* So does deactivation.
LEMMA StopsType ==
  ASSUME TypeOK, NEW h \in Hosts,
         StopsQueue(h) \/ ClosesServer(h) \/ Drains(h) \/ ChecksRelease(h) \/ Unregisters(h)
  PROVE TypeOK'
<1>1. PICK p \in Places :
        /\ Goto(h, p)
        /\ \/ UNCHANGED listening /\ (p \in Open <=> pc[h] \in Open)
           \/ p \notin Open /\ listening' = [listening EXCEPT ![h] = FALSE]
        /\ Serving(h) => p \in {"close", "drain"} \/ connected[h] = {}
        /\ p \notin Starting \cup {"off"}
        /\ (pc[h] = "up" /\ p = "close") \/ pc[h] \notin {"up", "close"} \/ ~working[h]
  BY DEF StopsQueue, ClosesServer, Drains, ChecksRelease, Unregisters, At, Places, Open, Serving,
         Starting
<1>2. /\ pc' \in [Hosts -> Places] /\ pc'[h] = p
      /\ \A g \in Hosts \ {h} : pc'[g] = pc[g]
      /\ listening' \in [Hosts -> BOOLEAN]
      /\ \A g \in Hosts : listening'[g] <=> pc'[g] \in Open
  BY <1>1, PlaceType
<1>3. UNCHANGED <<asking, chain, connected, working, used, file, acked>>
  BY DEF StopsQueue, ClosesServer, Drains, ChecksRelease, Unregisters, queueVars, writeVars
<1>4. Busy' /\ WriteTypes'
  <2>1. working[h] => p = "close"
    BY <1>1, TypeParts DEF Busy
  <2> QED
    BY <1>1, <1>2, <1>3, <2>1, BusyKept
<1>5. /\ registration' \in Hosts \cup {NoHost} /\ socket' \in Hosts \cup {NoHost}
      /\ mem' \in [Hosts -> SUBSET Records] /\ aborted' \in [Hosts -> BOOLEAN]
  BY DEF TypeOK, StopsQueue, ClosesServer, Drains, ChecksRelease, Unregisters, queueVars
<1> QED
  BY <1>2, <1>3, <1>4, <1>5 DEF TypeOK, Open, Busy, WriteTypes, Entry

\* And the end of a process.
LEMMA EndsType ==
  ASSUME TypeOK, NEW h \in Hosts, Exits(h) \/ Crashes(h)
  PROVE TypeOK'
<1>1. used' \in Usage
  BY UsedType, TypeParts DEF Exits, Crashes, Disturb
<1>2. Forgets(h) /\ Goto(h, "off") /\ UNCHANGED <<registration, socket, file, acked>>
  BY DEF Exits, Crashes
<1>3. /\ pc' \in [Hosts -> Places] /\ pc'[h] = "off"
      /\ \A g \in Hosts \ {h} : pc'[g] = pc[g]
      /\ listening' \in [Hosts -> BOOLEAN]
      /\ \A g \in Hosts : listening'[g] <=> pc'[g] \in Open
  BY PlaceType DEF Exits, Crashes, At, Places, Open
<1> <<>> \in Seq(Entry)
  BY EmptySeq
<1>4. WriteTypes' /\ Busy'
  <2>1. /\ asking' = [asking EXCEPT ![h] = {}] /\ chain' = [chain EXCEPT ![h] = <<>>]
        /\ connected' = [connected EXCEPT ![h] = {}] /\ working' = [working EXCEPT ![h] = FALSE]
    BY <1>2 DEF Forgets
  <2>2. WriteTypes'
    BY <2>1, TypeParts DEF WriteTypes
  <2>3. /\ asking'[h] = {} /\ chain'[h] = <<>> /\ connected'[h] = {} /\ ~working'[h]
        /\ \A g \in Hosts \ {h} :
             /\ asking'[g] = asking[g] /\ chain'[g] = chain[g]
             /\ connected'[g] = connected[g] /\ working'[g] = working[g]
    BY <2>1, TypeParts DEF WriteTypes
  <2>4. Busy'
    BY <1>3, <2>3, TypeParts DEF Busy, Serving
  <2> QED
    BY <2>2, <2>4
<1>5. mem' \in [Hosts -> SUBSET Records] /\ aborted' \in [Hosts -> BOOLEAN]
  BY <1>2 DEF Forgets, TypeOK
<1> QED
  BY <1>1, <1>2, <1>3, <1>4, <1>5 DEF TypeOK, Usage, Entry, Open, Busy, WriteTypes

\* The requests and their connections keep them.
LEMMA RequestType ==
  ASSUME TypeOK, NEW h \in Hosts, NEW r \in Records, Enqueues(h, r) \/ Disconnects(h, r)
  PROVE TypeOK'
<1>1. used' \in Usage
  BY UsedType, TypeParts DEF Enqueues, Disconnects, Disturb
<1>2. /\ UNCHANGED <<pc, listening, registration, socket, file, working, chain, aborted, acked>>
      /\ Serving(h) /\ mem' \in [Hosts -> SUBSET Records]
  BY TypeParts DEF Enqueues, Disconnects, TypeOK, Busy
<1>3. /\ asking' \in [Hosts -> SUBSET (Records \cup {Worker})]
      /\ connected' \in [Hosts -> SUBSET Records]
      /\ \A g \in Hosts \ {h} : asking'[g] = asking[g] /\ connected'[g] = connected[g]
  <2>1. CASE Enqueues(h, r)
    BY <2>1, TypeParts DEF Enqueues, Asks, WriteTypes
  <2>2. CASE Disconnects(h, r)
    BY <2>2, TypeParts DEF Disconnects, WriteTypes
  <2> QED
    BY <2>1, <2>2
<1>4. WriteTypes' /\ Busy'
  BY <1>2, <1>3, TypeParts DEF WriteTypes, Busy, Serving, Starting
<1> QED
  BY <1>1, <1>2, <1>3, <1>4 DEF TypeOK, Usage, Entry, Busy, WriteTypes

\* And so does the queue.
LEMMA QueueType ==
  ASSUME TypeOK, NEW h \in Hosts, QueueStep(h)
  PROVE TypeOK'
<1>1. UNCHANGED <<pc, listening, registration, socket, mem, used>>
  BY DEF QueueStep, WorkerStarts, WorkerPersists, WorkerRests, ChecksLease, Writes
<1>2. /\ aborted' \in [Hosts -> BOOLEAN] /\ acked' \subseteq Records
      /\ file' = NoFile \/ file' \subseteq Records
      /\ WriteTypes' /\ Busy'
  <2>1. CASE WorkerStarts(h) \/ WorkerRests(h)
    BY <1>1, <2>1, TypeParts
    DEF WorkerStarts, WorkerRests, writeVars, TypeOK, At, WriteTypes, Busy, Serving
  <2>2. CASE WorkerPersists(h)
    <3>1. /\ UNCHANGED <<working, chain, connected, aborted, acked, file>> /\ working[h]
          /\ asking' \in [Hosts -> SUBSET (Records \cup {Worker})]
          /\ \A g \in Hosts \ {h} : asking'[g] = asking[g]
      BY <2>2, TypeParts DEF WorkerPersists, Asks, WriteTypes
    <3> QED
      BY <1>1, <3>1, TypeParts DEF TypeOK, WriteTypes, Busy, Serving, Starting
  <2>3. CASE ChecksLease(h)
    <3>1. PICK write \in asking[h] :
            /\ Answered(h, write) /\ aborted' \in [Hosts -> BOOLEAN]
            /\ Chained(h, write) \/ Refused(h, write)
      BY <2>3 DEF ChecksLease, TypeOK
    <3>2. [write |-> write, snapshot |-> mem[h]] \in Entry
      BY <3>1 DEF TypeOK, Entry
    <3>3. chain' \in [Hosts -> Seq(Entry)] /\ \A g \in Hosts \ {h} : chain'[g] = chain[g]
      <4>1. chain \in [Hosts -> Seq(Entry)]
        BY TypeParts DEF WriteTypes
      <4>2. Append(chain[h], [write |-> write, snapshot |-> mem[h]]) \in Seq(Entry)
        BY <3>2, <4>1, AppendProperties
      <4> QED
        BY <3>1, <4>1, <4>2 DEF Chained, Refused
    <3>4. /\ asking' \in [Hosts -> SUBSET (Records \cup {Worker})]
          /\ connected' \in [Hosts -> SUBSET Records]
          /\ \A g \in Hosts : connected'[g] \subseteq connected[g] /\ asking'[g] \subseteq asking[g]
      BY <3>1, TypeParts DEF Answered, Chained, Refused, WriteTypes
    <3>5. UNCHANGED <<working, acked, file>> /\ asking[h] # {}
      BY <2>3, <3>1 DEF ChecksLease
    <3> QED
      BY <1>1, <3>1, <3>3, <3>4, <3>5, TypeParts DEF TypeOK, WriteTypes, Busy, Serving
  <2>4. CASE Writes(h)
    <3>1. /\ chain[h] # <<>> /\ chain[h] \in Seq(Entry)
          /\ chain \in [Hosts -> Seq(Entry)] /\ connected \in [Hosts -> SUBSET Records]
      BY <2>4, TypeParts DEF Writes, WriteTypes
    <3>2. Head(chain[h]) \in Entry /\ Tail(chain[h]) \in Seq(Entry)
      BY <3>1, HeadTailProperties
    <3>3. file' \subseteq Records /\ acked' \subseteq Records
      BY <2>4, <3>1, <3>2 DEF Writes, Acknowledges, TypeOK, Entry
    <3>4. chain' \in [Hosts -> Seq(Entry)] /\ \A g \in Hosts \ {h} : chain'[g] = chain[g]
      BY <2>4, <3>1, <3>2 DEF Writes
    <3>5. /\ connected' \in [Hosts -> SUBSET Records]
          /\ \A g \in Hosts : connected'[g] \subseteq connected[g]
      BY <2>4, <3>1 DEF Writes, Acknowledges
    <3>6. UNCHANGED <<working, asking, aborted>>
      BY <2>4 DEF Writes
    <3> QED
      BY <1>1, <3>1, <3>3, <3>4, <3>5, <3>6, TypeParts DEF TypeOK, WriteTypes, Busy, Serving
  <2> QED
    BY <2>1, <2>2, <2>3, <2>4 DEF QueueStep
<1> QED
  BY <1>1, <1>2 DEF TypeOK, Entry, Busy, WriteTypes, Serving

\* Every step keeps the types.
LEMMA NextType == TypeOK /\ [Next]_vars => TypeOK'
<1>1. CASE UNCHANGED vars
  BY <1>1 DEF vars, queueVars, writeVars, TypeOK, Serving
<1> QED
  BY <1>1, StartsType, StopsType, EndsType, RequestType, QueueType DEF Next, HostStep

\* Every variable keeps its type: a server is open exactly from listen() to close(), a
\* request has a connection only while the server waits for it, and a host that starts
\* has no writes under way.
THEOREM TypeCorrect == Spec => []TypeOK
  BY InitType, NextType, PTL DEF Spec
------------------------------------------------------------------------------
(* What was answered is in the file.                                        *)

\* None of the three ways in which an answered record is known to be lost happened.
Accounted == used.early = 0 /\ used.takeover = 0 /\ used.import <= 1

\* No two hosts are in use: the second server that opens counts as a takeover.
OneServer == \A g, h \in Hosts : InUse(g) /\ InUse(h) => g = h

\* Until the old file is imported nobody gets beyond the import, which happens once.
ImportFirst ==
  /\ \A h \in Hosts : At(h, "import") => Imported # {}
  /\ Imported # {} /\ used.import = 0
       => file = NoFile /\ \A h \in Hosts : pc[h] \in {"off", "import"}

\* A queue is loaded and has requests to come or writes to make.
Holding(h) == pc[h] \in {"up", "close", "drain"} \/ asking[h] # {} \/ chain[h] # <<>>

\* A loaded queue holds what was answered, what is asked and what waits to be written, as
\* long as it may still write, and a snapshot holds the writes that were chained before it
\* or with it.
QueueHolds(h) ==
  /\ At(h, "load") => asking[h] = {} /\ chain[h] = <<>>
  /\ Holding(h) => acked \subseteq mem[h]
  /\ asking[h] \subseteq mem[h] \cup {Worker}
  /\ \A i \in DOMAIN chain[h] :
       chain[h][i].write \in mem[h] \cup {Worker} /\ acked \subseteq chain[h][i].snapshot
  /\ \A i, j \in DOMAIN chain[h] :
       i <= j => chain[h][i].write \in chain[h][j].snapshot \cup {Worker}

FileFacts == OneServer /\ ImportFirst /\ acked \subseteq file /\ \A h \in Hosts : QueueHolds(h)
FileInv == Accounted => FileFacts

\* Every step keeps the counters that say so, or counts a loss.
LEMMA AccountedBefore ==
  ASSUME TypeOK, [Next]_vars, Accounted'
  PROVE Accounted
<1>1. used \in Usage
  BY DEF TypeOK, Usage
<1>2. \A what \in {"missed", "dropped", "crash", "early"} : Disturb(what) /\ Accounted' => Accounted
  BY <1>1 DEF Disturb, Count, Accounted, Usage
<1>3. \A what \in {"takeover", "import"} :
        CountTo(what, IF what = "import" THEN 2 ELSE 1) /\ Accounted' => Accounted
  BY <1>1 DEF CountTo, Accounted, Usage
<1>4. UNCHANGED used => Accounted
  BY DEF Accounted
<1>5. ASSUME NEW h \in Hosts, Imports(h) PROVE Accounted
  BY <1>3, <1>5 DEF Imports
<1>6. ASSUME NEW h \in Hosts, Probes(h) PROVE Accounted
  BY <1>2, <1>4, <1>6 DEF Probes
<1>7. ASSUME NEW h \in Hosts, Listens(h) PROVE Accounted
  BY <1>3, <1>4, <1>7 DEF Listens
<1>8. ASSUME NEW h \in Hosts, Crashes(h) PROVE Accounted
  BY <1>2, <1>8 DEF Crashes
<1>9. ASSUME NEW h \in Hosts, NEW r \in Records, Enqueues(h, r) \/ Disconnects(h, r)
      PROVE Accounted
  BY <1>2, <1>4, <1>9 DEF Enqueues, Disconnects
<1>10. ASSUME NEW h \in Hosts,
              \/ Activates(h) \/ UnlinksStale(h) \/ Registers(h) \/ Loads(h) \/ StopsQueue(h)
              \/ ClosesServer(h) \/ Drains(h) \/ ChecksRelease(h) \/ Unregisters(h)
              \/ Exits(h) \/ QueueStep(h)
       PROVE Accounted
  BY <1>4, <1>10
  DEF Activates, UnlinksStale, Registers, Loads, StopsQueue, ClosesServer, Drains,
      ChecksRelease, Unregisters, Exits, QueueStep, WorkerStarts, WorkerPersists, WorkerRests,
      ChecksLease, Writes
<1>11. CASE UNCHANGED vars
  BY <1>4, <1>11 DEF vars
<1> QED
  BY <1>5, <1>6, <1>7, <1>8, <1>9, <1>10, <1>11 DEF Next, HostStep

\* A queue that is left alone holds what it held, whatever its host goes on to do short
\* of taking it into use.
LEMMA QueueKept ==
  ASSUME NEW h \in Hosts, QueueHolds(h), UNCHANGED acked,
         mem'[h] = mem[h], asking'[h] = asking[h], chain'[h] = chain[h],
         At(h, "load")' => asking[h] = {} /\ chain[h] = <<>>,
         Holding(h)' => Holding(h)
  PROVE QueueHolds(h)'
  BY DEF QueueHolds, At

\* A queue that is not in use has nothing to hold.
LEMMA QueueIdle ==
  ASSUME NEW h \in Hosts, pc'[h] \notin {"up", "close", "drain"},
         asking'[h] = {}, chain'[h] = <<>>
  PROVE QueueHolds(h)'
  BY DEF QueueHolds, Holding

\* No two hosts are in use if none but h may have come into use.
LEMMA OneServerKept ==
  ASSUME OneServer, NEW h \in Hosts,
         \A g \in Hosts \ {h} : InUse(g)' => InUse(g),
         InUse(h)' => InUse(h) \/ \A g \in Hosts \ {h} : ~InUse(g)
  PROVE OneServer'
  BY DEF OneServer

LEMMA InitFile == Init => FileInv
<1> SUFFICES ASSUME Init PROVE FileInv
  OBVIOUS
<1>1. \A h \in Hosts : pc[h] = "off" /\ asking[h] = {} /\ chain[h] = <<>>
  BY DEF Init
<1>2. \A h \in Hosts : QueueHolds(h)
  BY <1>1 DEF QueueHolds, Holding, At
<1> QED
  BY <1>1, <1>2 DEF Init, FileInv, FileFacts, OneServer, ImportFirst, At, Serving, InUse

\* Activation: the import happens before anybody is answered, and a server that opens
\* beside no other loads all that was answered.
LEMMA StartsFile ==
  ASSUME TypeOK, FileFacts, Accounted', NEW h \in Hosts,
         \/ Activates(h) \/ Imports(h) \/ Probes(h) \/ UnlinksStale(h) \/ Registers(h)
         \/ Listens(h) \/ Loads(h)
  PROVE FileFacts'
<1>1. /\ UNCHANGED <<asking, chain, acked>> /\ used \in Usage
      /\ pc' \in [Hosts -> Places] /\ pc \in [Hosts -> Places]
      /\ \A g \in Hosts \ {h} : pc'[g] = pc[g] /\ mem'[g] = mem[g]
  <2>1. pc \in [Hosts -> Places] /\ mem \in [Hosts -> SUBSET Records] /\ used \in Usage
    BY DEF TypeOK, Usage
  <2>2. pc' \in [Hosts -> Places]
    BY StartsType DEF TypeOK
  <2>3. CASE Activates(h) \/ Imports(h) \/ Probes(h)
    BY <2>1, <2>2, <2>3 DEF Activates, Imports, Probes, queueVars, writeVars, Goto
  <2>4. CASE UnlinksStale(h) \/ Registers(h) \/ Listens(h) \/ Loads(h)
    BY <2>1, <2>2, <2>4 DEF UnlinksStale, Registers, Listens, Loads, queueVars, writeVars, Goto
  <2> QED
    BY <2>3, <2>4
<1>2. OneServer'
  <2>1. \A g \in Hosts \ {h} : InUse(g)' => InUse(g)
    BY <1>1 DEF InUse, Serving
  <2>2. CASE Listens(h) /\ Serving(h)'
    <3>1. pc'[h] # "release"
      BY <2>2 DEF Serving
    <3>2. ~\E g \in Hosts \ {h} : InUse(g)
      BY <1>1, <2>2, <3>1 DEF Listens, CountTo, Accounted, Usage, Goto
    <3> QED
      BY <2>1, <3>2, OneServerKept DEF FileFacts
  <2>3. CASE Serving(h)' => Serving(h)
    BY <1>1, <2>1, <2>3, OneServerKept DEF FileFacts, InUse
  <2>4. Listens(h) \/ (Serving(h)' => Serving(h))
    BY <1>1
    DEF Activates, Imports, Probes, UnlinksStale, Registers, Loads, Goto, At, Serving
  <2> QED
    BY <2>2, <2>3, <2>4
<1>3. Imports(h) => used'.import > 0 /\ (used.import > 0 => used'.import > 1)
  BY <1>1 DEF Imports, CountTo, Usage
<1>4. ImportFirst'
  <2>1. \A g \in Hosts : At(g, "import")' => Imported # {}
    BY <1>1
    DEF FileFacts, ImportFirst, Activates, Imports, Probes, UnlinksStale, Registers, Listens,
        Loads, Goto, At
  <2>2. ASSUME Imported # {}, used'.import = 0
        PROVE file' = NoFile /\ \A g \in Hosts : pc'[g] \in {"off", "import"}
    <3>1. ~Imports(h)
      BY <1>1, <1>3, <2>2 DEF Imports, CountTo, Usage
    <3>2. used.import = 0
      BY <1>1, <2>2, <3>1
      DEF Activates, Probes, Disturb, Count, UnlinksStale, Registers, Listens, CountTo, Loads,
          Usage
    <3>3. file = NoFile /\ \A g \in Hosts : pc[g] \in {"off", "import"}
      BY <2>2, <3>2 DEF FileFacts, ImportFirst
    <3>4. Activates(h)
      BY <3>1, <3>3 DEF Imports, Probes, UnlinksStale, Registers, Listens, Loads, At
    <3> QED
      BY <1>1, <2>2, <3>3, <3>4 DEF Activates, Goto, queueVars
  <2> QED
    BY <2>1, <2>2 DEF ImportFirst
<1>5. acked' \subseteq file'
  <2>1. CASE Imports(h)
    <3>1. Imported # {} /\ used.import = 0
      <4>1. used.import \in Nat /\ used'.import <= 1
        BY <1>1 DEF Usage, Accounted
      <4>2. used'.import \in Nat
        BY StartsType DEF TypeOK
      <4> QED
        BY <1>3, <2>1, <4>1, <4>2 DEF Imports, FileFacts, ImportFirst
    <3>2. acked = {}
      BY <3>1, HostsAssumption DEF FileFacts, ImportFirst, NoFile, TypeOK
    <3> QED
      BY <1>1, <3>2
  <2>2. CASE ~Imports(h)
    BY <1>1, <2>2
    DEF FileFacts, Activates, Probes, UnlinksStale, Registers, Listens, Loads, queueVars
  <2> QED
    BY <2>1, <2>2
<1>6. \A g \in Hosts \ {h} : QueueHolds(g)'
  BY <1>1, QueueKept DEF FileFacts, QueueHolds, Holding, At
<1>7. QueueHolds(h)'
  <2>1. CASE Loads(h)
    <3>1. /\ asking'[h] = {} /\ chain'[h] = <<>> /\ ~At(h, "load")'
          /\ mem'[h] = IF file = NoFile THEN mem[h] ELSE file
      BY <1>1, <2>1 DEF Loads, FileFacts, QueueHolds, Goto, At, TypeOK, writeVars
    <3>2. acked' \subseteq mem'[h]
      BY <1>1, <3>1, HostsAssumption DEF FileFacts, NoFile, TypeOK
    <3> QED
      BY <3>1, <3>2 DEF QueueHolds
  <2>2. CASE ~Loads(h)
    <3>1. pc[h] \in Starting \cup {"off"} /\ pc'[h] \notin {"up", "close", "drain"}
      BY <1>1, <2>2
      DEF Activates, Imports, Probes, UnlinksStale, Registers, Listens, Goto, At, Starting
    <3>2. asking'[h] = {} /\ chain'[h] = <<>>
      BY <1>1, <3>1 DEF TypeOK
    <3> QED
      BY <3>1, <3>2, QueueIdle
  <2> QED
    BY <2>1, <2>2
<1> QED
  BY <1>2, <1>4, <1>5, <1>6, <1>7 DEF FileFacts

\* Deactivation: a queue that is given up with writes under way holds what it held.
LEMMA StopsFile ==
  ASSUME TypeOK, FileFacts, Accounted, NEW h \in Hosts,
         StopsQueue(h) \/ ClosesServer(h) \/ Drains(h) \/ ChecksRelease(h) \/ Unregisters(h)
  PROVE FileFacts'
<1>1. /\ UNCHANGED <<file, acked, mem, asking, chain, used>>
      /\ \A g \in Hosts \ {h} : pc'[g] = pc[g]
      /\ pc'[h] \in {"close", "drain", "release", "unregister", "stopped"}
      /\ pc'[h] \in {"close", "drain"} => pc[h] \in {"up", "close"}
      /\ pc[h] \notin {"off", "import"}
  <2>1. pc \in [Hosts -> Places]
    BY DEF TypeOK
  <2>2. CASE StopsQueue(h) \/ ClosesServer(h) \/ Drains(h)
    BY <2>1, <2>2 DEF StopsQueue, ClosesServer, Drains, queueVars, writeVars, Goto, At
  <2>3. CASE ChecksRelease(h) \/ Unregisters(h)
    BY <2>1, <2>3 DEF ChecksRelease, Unregisters, queueVars, writeVars, Goto, At
  <2> QED
    BY <2>2, <2>3
<1>2. OneServer'
  <2>1. \A g \in Hosts : InUse(g)' => InUse(g)
    BY <1>1 DEF InUse, Serving
  <2> QED
    BY <2>1, OneServerKept DEF FileFacts
<1>3. ImportFirst'
  BY <1>1 DEF ImportFirst, FileFacts, At
<1>4. \A g \in Hosts : QueueHolds(g)'
  BY <1>1, QueueKept DEF FileFacts, QueueHolds, Holding, At
<1> QED
  BY <1>1, <1>2, <1>3, <1>4 DEF FileFacts

\* The end of a process: what it had not written was not answered.
LEMMA EndsFile ==
  ASSUME TypeOK, FileFacts, Accounted, NEW h \in Hosts, Exits(h) \/ Crashes(h)
  PROVE FileFacts'
<1>1. /\ UNCHANGED <<file, acked>> /\ used'.import = used.import
      /\ asking'[h] = {} /\ chain'[h] = <<>> /\ pc'[h] = "off"
      /\ \A g \in Hosts \ {h} :
           pc'[g] = pc[g] /\ mem'[g] = mem[g] /\ asking'[g] = asking[g] /\ chain'[g] = chain[g]
  <2>1. /\ pc \in [Hosts -> Places] /\ mem \in [Hosts -> SUBSET Records]
        /\ asking \in [Hosts -> SUBSET (Records \cup {Worker})]
        /\ chain \in [Hosts -> Seq(Entry)] /\ used \in Usage
    BY DEF TypeOK, Usage, Entry
  <2>2. /\ UNCHANGED <<file, acked>> /\ Goto(h, "off") /\ Forgets(h)
        /\ used'.import = used.import
    BY <2>1 DEF Exits, Crashes, Disturb, Count, Usage
  <2> QED
    BY <2>1, <2>2 DEF Goto, Forgets
<1>2. OneServer'
  <2>1. \A g \in Hosts : InUse(g)' => InUse(g)
    BY <1>1 DEF InUse, Serving
  <2> QED
    BY <2>1, OneServerKept DEF FileFacts
<1>3. ImportFirst'
  BY <1>1 DEF ImportFirst, FileFacts, At
<1>4. \A g \in Hosts \ {h} : QueueHolds(g)'
  BY <1>1, QueueKept DEF FileFacts, QueueHolds, Holding, At
<1>5. QueueHolds(h)'
  BY <1>1, QueueIdle
<1> QED
  BY <1>1, <1>2, <1>3, <1>4, <1>5 DEF FileFacts

\* A request, and the loss of its connection: it is in the memory the next snapshot is
\* taken of.
LEMMA RequestFile ==
  ASSUME TypeOK, FileFacts, Accounted, Accounted', NEW h \in Hosts, NEW r \in Records,
         Enqueues(h, r) \/ Disconnects(h, r)
  PROVE FileFacts'
<1>1. CASE Disconnects(h, r)
  <2>1. UNCHANGED <<pc, file, mem, asking, chain, acked>> /\ used'.import = used.import
    BY <1>1 DEF Disconnects, Disturb, Count, TypeOK
  <2>2. \A g \in Hosts : QueueHolds(g)'
    BY <2>1 DEF FileFacts, QueueHolds, Holding, At
  <2> QED
    BY <2>1, <2>2 DEF FileFacts, OneServer, InUse, Serving, ImportFirst, At
<1>2. CASE Enqueues(h, r)
  <2>1. UNCHANGED <<pc, file, chain, acked>> /\ used'.import = used.import /\ ~At(h, "load")
    BY <1>2 DEF Enqueues, Disturb, Count, Accounted, TypeOK
  <2>2. /\ mem'[h] = mem[h] \cup {r} /\ asking'[h] = asking[h] \cup {r}
        /\ \A g \in Hosts \ {h} : mem'[g] = mem[g] /\ asking'[g] = asking[g]
    BY <1>2 DEF Enqueues, Asks, TypeOK
  <2>3. Serving(h) /\ Serving(h)'
    BY <1>2, <2>1 DEF Enqueues, Serving
  <2>4. OneServer'
    <3>1. \A g \in Hosts : InUse(g)' => InUse(g)
      BY <2>1, <2>2, <2>3 DEF InUse, Serving
    <3> QED
      BY <3>1, OneServerKept DEF FileFacts
  <2>5. \A g \in Hosts \ {h} : QueueHolds(g)'
    BY <2>1, <2>2, QueueKept DEF FileFacts, QueueHolds, Holding, At
  <2>6. QueueHolds(h)'
    <3>1. Holding(h)
      BY <2>1, <2>3 DEF Holding, Serving, At
    <3> QED
      BY <2>1, <2>2, <3>1 DEF FileFacts, QueueHolds, At
  <2> QED
    BY <2>1, <2>4, <2>5, <2>6 DEF FileFacts, ImportFirst, At
<1> QED
  BY <1>1, <1>2

\* The queue: snapshots are written in the order they were taken, and nobody else is in
\* use who could write one.
LEMMA QueueFile ==
  ASSUME TypeOK, FileFacts, Accounted, Accounted', NEW h \in Hosts, QueueStep(h)
  PROVE FileFacts'
<1>1. UNCHANGED <<pc, mem, used>>
  BY DEF QueueStep, WorkerStarts, WorkerPersists, WorkerRests, ChecksLease, Writes
<1>2. CASE WorkerStarts(h) \/ WorkerRests(h)
  <2>1. UNCHANGED <<file, asking, chain, acked>>
    BY <1>2 DEF WorkerStarts, WorkerRests, writeVars
  <2>2. \A g \in Hosts : QueueHolds(g)'
    BY <1>1, <2>1 DEF FileFacts, QueueHolds, Holding, At
  <2> QED
    BY <1>1, <2>1, <2>2 DEF FileFacts, OneServer, InUse, Serving, ImportFirst, At
<1> SUFFICES ASSUME WorkerPersists(h) \/ ChecksLease(h) \/ Writes(h) PROVE FileFacts'
  BY <1>2 DEF QueueStep
<1>3. InUse(h) /\ Holding(h) /\ pc[h] \notin {"off", "import", "load"}
  <2>1. CASE WorkerPersists(h)
    BY <2>1 DEF WorkerPersists, TypeOK, InUse, Serving, Holding
  <2>2. CASE ChecksLease(h) \/ Writes(h)
    BY <2>2 DEF ChecksLease, Writes, TypeOK, InUse, Holding, FileFacts, QueueHolds, At, Starting
  <2> QED
    BY <2>1, <2>2
<1>4. \A g \in Hosts \ {h} :
        /\ pc[g] \notin {"load", "up", "close", "drain"}
        /\ asking[g] = {} /\ chain[g] = <<>>
  BY <1>3 DEF FileFacts, OneServer, InUse, Serving
<1>5. \A g \in Hosts \ {h} : asking'[g] = asking[g] /\ chain'[g] = chain[g]
  BY DEF WorkerPersists, ChecksLease, Writes, Asks, Answered, Chained, Refused, TypeOK
<1>6. OneServer'
  <2>1. \A g \in Hosts \ {h} : InUse(g)' => InUse(g)
    BY <1>1, <1>5 DEF InUse, Serving
  <2> QED
    BY <1>3, <2>1, OneServerKept DEF FileFacts
<1>7. \A g \in Hosts \ {h} : QueueHolds(g)'
  BY <1>1, <1>4, <1>5, QueueIdle
<1>8. ImportFirst'
  BY <1>1, <1>3 DEF ImportFirst, FileFacts, At
<1> acked \subseteq mem[h] /\ asking[h] \subseteq mem[h] \cup {Worker}
  BY <1>3 DEF FileFacts, QueueHolds
<1> chain[h] \in Seq(Entry)
  BY DEF TypeOK, Entry
<1>9. acked' \subseteq file' /\ QueueHolds(h)'
  <2>1. CASE WorkerPersists(h)
    BY <1>1, <1>3, <2>1 DEF WorkerPersists, Asks, FileFacts, QueueHolds, At, TypeOK
  <2>2. CASE ChecksLease(h)
    <3>1. PICK write \in asking[h] :
            /\ Answered(h, write)
            /\ \/ chain' = [chain EXCEPT
                              ![h] = Append(@, [write |-> write, snapshot |-> mem[h]])]
               \/ UNCHANGED chain
      BY <2>2 DEF ChecksLease, Chained, Refused
    <3>2. UNCHANGED <<file, acked>> /\ asking'[h] \subseteq asking[h]
      BY <2>2, <3>1 DEF ChecksLease, Answered, TypeOK
    <3>3. CASE UNCHANGED chain
      BY <1>1, <1>3, <3>2, <3>3 DEF FileFacts, QueueHolds, At
    <3>4. CASE chain' = [chain EXCEPT ![h] = Append(@, [write |-> write, snapshot |-> mem[h]])]
      <4>1. chain'[h] = Append(chain[h], [write |-> write, snapshot |-> mem[h]])
        BY <3>4 DEF TypeOK
      <4>2. /\ DOMAIN chain[h] = 1..Len(chain[h]) /\ Len(chain[h]) \in Nat
            /\ DOMAIN chain'[h] = 1..(Len(chain[h]) + 1)
            /\ \A i \in 1..Len(chain[h]) : chain'[h][i] = chain[h][i]
            /\ chain'[h][Len(chain[h]) + 1] = [write |-> write, snapshot |-> mem[h]]
        BY <4>1
      <4>3. \A i \in DOMAIN chain'[h] :
              /\ chain'[h][i].write \in mem'[h] \cup {Worker}
              /\ acked' \subseteq chain'[h][i].snapshot
        BY <1>1, <3>2, <4>2 DEF FileFacts, QueueHolds
      <4>4. \A i, j \in DOMAIN chain'[h] :
              i <= j => chain'[h][i].write \in chain'[h][j].snapshot \cup {Worker}
        <5> SUFFICES ASSUME NEW i \in DOMAIN chain'[h], NEW j \in DOMAIN chain'[h], i <= j
                     PROVE chain'[h][i].write \in chain'[h][j].snapshot \cup {Worker}
          OBVIOUS
        <5>1. CASE j = Len(chain[h]) + 1
          BY <1>1, <3>2, <4>2, <4>3, <5>1
        <5>2. CASE j # Len(chain[h]) + 1
          <6>1. i \in DOMAIN chain[h] /\ j \in DOMAIN chain[h]
            BY <4>2, <5>2
          <6>2. chain'[h][i] = chain[h][i] /\ chain'[h][j] = chain[h][j]
            BY <4>2, <6>1
          <6> QED
            BY <6>1, <6>2 DEF FileFacts, QueueHolds
        <5> QED
          BY <5>1, <5>2
      <4> QED
        BY <1>1, <1>3, <3>2, <4>3, <4>4 DEF FileFacts, QueueHolds, At
    <3> QED
      BY <3>1, <3>3, <3>4
  <2>3. CASE Writes(h)
    <3>1. /\ chain[h] # <<>> /\ chain'[h] = Tail(chain[h]) /\ UNCHANGED asking
          /\ file' = Head(chain[h]).snapshot
          /\ acked' \subseteq acked \cup ({Head(chain[h]).write} \ {Worker})
      BY <2>3, HostsAssumption DEF Writes, Acknowledges, TypeOK
    <3>2. /\ DOMAIN chain[h] = 1..Len(chain[h]) /\ Len(chain[h]) \in Nat \ {0}
          /\ Head(chain[h]) = chain[h][1]
          /\ DOMAIN chain'[h] = 1..(Len(chain[h]) - 1)
          /\ \A i \in 1..(Len(chain[h]) - 1) : chain'[h][i] = chain[h][i + 1]
      BY <3>1
    <3>3. \A j \in DOMAIN chain[h] : acked' \subseteq chain[h][j].snapshot
      BY <3>1, <3>2 DEF FileFacts, QueueHolds
    <3>4. acked' \subseteq file' /\ acked' \subseteq mem'[h]
      BY <1>1, <3>1, <3>2, <3>3 DEF FileFacts, QueueHolds
    <3>5. \A i \in DOMAIN chain'[h] :
            i + 1 \in DOMAIN chain[h] /\ chain'[h][i] = chain[h][i + 1]
      BY <3>2
    <3>6. \A i, j \in DOMAIN chain'[h] :
            i <= j => chain'[h][i].write \in chain'[h][j].snapshot \cup {Worker}
      <4>1. ASSUME NEW i \in DOMAIN chain'[h], NEW j \in DOMAIN chain'[h], i <= j
            PROVE i + 1 \in DOMAIN chain[h] /\ j + 1 \in DOMAIN chain[h] /\ i + 1 <= j + 1
        BY <3>2, <4>1
      <4>2. \A i, j \in DOMAIN chain[h] :
              i <= j => chain[h][i].write \in chain[h][j].snapshot \cup {Worker}
        BY DEF FileFacts, QueueHolds
      <4> QED
        BY <3>5, <4>1, <4>2
    <3> QED
      BY <1>1, <1>3, <3>1, <3>3, <3>4, <3>5, <3>6 DEF FileFacts, QueueHolds, At
  <2> QED
    BY <2>1, <2>2, <2>3
<1> QED
  BY <1>6, <1>7, <1>8, <1>9 DEF FileFacts

LEMMA NextFile == TypeOK /\ FileInv /\ [Next]_vars => FileInv'
<1> SUFFICES ASSUME TypeOK, FileInv, [Next]_vars, Accounted' PROVE FileFacts'
  BY DEF FileInv
<1>1. Accounted /\ FileFacts
  BY AccountedBefore DEF FileInv
<1>2. CASE UNCHANGED vars
  BY <1>1, <1>2
  DEF vars, queueVars, writeVars, FileFacts, OneServer, ImportFirst, QueueHolds, Holding, At,
      InUse, Serving
<1> QED
  BY <1>1, <1>2, StartsFile, StopsFile, EndsFile, RequestFile, QueueFile DEF Next, HostStep

\* In every reachable state FileInv holds, whatever hosts crash, reload or race and
\* whatever connections end.
LEMMA FileAlways == Spec => []FileInv
  BY InitFile, NextFile, TypeCorrect, PTL DEF Spec

\* A record whose client was answered is in the queue file, for any number of hosts and
\* records, unless a request came before the queue was loaded, a server was opened while another host
\* was open or still had a write under way, or two hosts imported the old file.
THEOREM LossesAccountedFor == Spec => []LossesAccounted
<1>1. TypeOK /\ FileInv => LossesAccounted
  <2> SUFFICES ASSUME TypeOK, FileInv, ~LossesAccounted PROVE FALSE
    OBVIOUS
  <2>1. used \in Usage
    BY DEF TypeOK, Usage
  <2> QED
    BY <2>1 DEF Usage, FileInv, FileFacts, LossesAccounted, Accounted
<1> QED
  BY <1>1, TypeCorrect, FileAlways, PTL
=============================================================================
