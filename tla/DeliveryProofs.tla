---------------------------- MODULE DeliveryProofs ----------------------------
(***************************************************************************)
(* What the deliveries and the policy monitor keep true for any number of  *)
(* threads, attempts, messages and handoffs: where a stray message comes   *)
(* from, what a second copy costs, and what the handled markers say.       *)
(***************************************************************************)
EXTENDS Delivery, FiniteSetTheorems, SequenceTheorems, TLAPS

Jobs == [by : {"worker", "monitor"}, to : Owned, text : Texts]
LateCalls == [call : {"select", "send"}, to : Owned, text : Texts]
Handoffs == Owned \X Nat

TypeInv ==
  /\ thread \in [Threads -> Seq(Entries)] /\ selected \in Threads
  /\ line \in Seq(Jobs)
  /\ call \in [pc : {"none", "select", "send", "confirm"}, attempt : 0..Attempts, prior : Nat]
  /\ monitor \in [pc : {"poll", "answering", "compacting", "settle", "ack"},
                  marker : Handoffs \cup {NoHandoff}]
  /\ handled \subseteq Markers /\ compacted \subseteq Owned
  /\ late \in Seq(LateCalls)
  /\ used \in [message : Nat, handoff : Nat, select : Nat, fault : Nat, late : Nat, reset : Nat]

\* The worker has one message in line and the monitor one, which it waits for, and the
\* first of the line is the one a call is made for.
LineInv ==
  /\ call = NoCall \/ (call.pc # "none" /\ line # <<>>)
  /\ \A i, j \in DOMAIN line : line[i].by = line[j].by => i = j
  /\ \A i \in DOMAIN line :
       /\ line[i].by = "worker" => line[i].to = WorkerThread /\ line[i].text = "correct"
       /\ line[i].by = "monitor" => line[i].text \in {"compact", "continue"}
  /\ monitor.pc \in {"answering", "compacting"} <=> \E i \in DOMAIN line : line[i].by = "monitor"
  /\ monitor.pc # "poll" => monitor.marker \in Handoffs

LEMMA TypesImplied == TypeInv /\ LineInv => TypeOK
  BY DEF TypeInv, LineInv, TypeOK, Jobs, LateCalls

LEMMA InitTypes == Init => TypeInv /\ LineInv
<1> SUFFICES ASSUME Init PROVE TypeInv /\ LineInv
  OBVIOUS
<1>1. \A none \in Seq(Jobs) : \A quiet \in Seq(LateCalls) :
        none = <<>> /\ quiet = <<>> /\ line = none /\ late = quiet => TypeInv
  BY DeliveryAssumption
  DEF Init, TypeInv, NoCall, Watching, NoHandoff, Entry, Entries, Texts, Markers
<1>2. TypeInv
  BY <1>1, EmptySeq DEF Init
<1>3. LineInv
  BY DEF Init, LineInv, NoCall, Watching
<1> QED
  BY <1>2, <1>3

------------------------------------------------------------------------------
(* The transcripts and the line.                                            *)

\* An entry is written at the end of a transcript; the others stay as they are.
LEMMA PostedKept ==
  ASSUME TypeInv, NEW t \in Threads, NEW text \in Texts, NEW for \in Threads,
         thread' = Posted(t, text, for)
  PROVE /\ thread' \in [Threads -> Seq(Entries)]
        /\ \A u \in Threads \ {t} : thread'[u] = thread[u]
        /\ Len(thread'[t]) = Len(thread[t]) + 1 /\ Len(thread[t]) \in Nat
        /\ \A i \in DOMAIN thread[t] : i \in DOMAIN thread'[t] /\ thread'[t][i] = thread[t][i]
        /\ thread'[t][Len(thread[t]) + 1] = Entry(text, for)
        /\ DOMAIN thread'[t] = DOMAIN thread[t] \cup {Len(thread[t]) + 1}
        /\ Len(thread[t]) + 1 \notin DOMAIN thread[t]
<1> DEFINE s == thread[t]
           e == Entry(text, for)
<1>1. s \in Seq(Entries) /\ e \in Entries
  BY DEF TypeInv, Entry, Entries
<1>2. thread' = [thread EXCEPT ![t] = Append(s, e)]
  BY DEF Posted
<1>3. /\ Append(s, e) \in Seq(Entries) /\ Len(Append(s, e)) = Len(s) + 1 /\ Len(s) \in Nat
      /\ \A i \in 1..Len(s) : Append(s, e)[i] = s[i]
      /\ Append(s, e)[Len(s) + 1] = e
  BY <1>1
<1>4. /\ thread' \in [Threads -> Seq(Entries)] /\ thread'[t] = Append(s, e)
      /\ \A u \in Threads \ {t} : thread'[u] = thread[u]
  BY <1>2, <1>3 DEF TypeInv
<1>5. DOMAIN s = 1..Len(s) /\ DOMAIN Append(s, e) = 1..(Len(s) + 1)
  BY <1>1, <1>3
<1> QED
  BY <1>3, <1>4, <1>5

\* A delivery ends: the others move up.
LEMMA TailKept ==
  ASSUME TypeInv, line # <<>>, line' = Tail(line)
  PROVE /\ line' \in Seq(Jobs) /\ Head(line) = line[1] /\ line[1] \in Jobs /\ 1 \in DOMAIN line
        /\ \A i \in DOMAIN line' : i + 1 \in DOMAIN line /\ i + 1 # 1 /\ line'[i] = line[i + 1]
        /\ \A i \in DOMAIN line \ {1} : i - 1 \in DOMAIN line' /\ line'[i - 1] = line[i]
<1>1. line \in Seq(Jobs)
  BY DEF TypeInv
<1>2. Len(line) \in Nat /\ Len(line) > 0 /\ DOMAIN line = 1..Len(line)
  BY <1>1, EmptySeq
<1>3. /\ line' \in Seq(Jobs) /\ Len(line') = Len(line) - 1
      /\ \A i \in 1..Len(line') : line'[i] = line[i + 1]
  BY <1>1, <1>2, HeadTailProperties
<1>4. DOMAIN line' = 1..(Len(line) - 1)
  BY <1>3
<1> QED
  BY <1>1, <1>2, <1>3, <1>4

\* A delivery is put at the end of the line.
LEMMA EnqueueKept ==
  ASSUME TypeInv, NEW job \in Jobs, Enqueue(job)
  PROVE /\ line' \in Seq(Jobs) /\ line' # <<>>
        /\ DOMAIN line' = DOMAIN line \cup {Len(line) + 1} /\ Len(line) + 1 \notin DOMAIN line
        /\ \A i \in DOMAIN line : line'[i] = line[i]
        /\ line'[Len(line) + 1] = job
        /\ line # <<>> => Head(line') = Head(line)
<1>1. line \in Seq(Jobs) /\ line' = Append(line, job)
  BY DEF TypeInv, Enqueue
<1>2. /\ line' \in Seq(Jobs) /\ Len(line') = Len(line) + 1 /\ Len(line) \in Nat
      /\ \A i \in 1..Len(line) : line'[i] = line[i]
      /\ line'[Len(line) + 1] = job
  BY <1>1
<1>3. DOMAIN line = 1..Len(line) /\ DOMAIN line' = 1..(Len(line) + 1)
  BY <1>1, <1>2
<1>4. line # <<>> => Head(line') = Head(line)
  BY <1>1, <1>2, EmptySeq
<1> QED
  BY <1>2, <1>3, <1>4

MonitorState == [pc : {"poll", "answering", "compacting", "settle", "ack"},
                 marker : Handoffs \cup {NoHandoff}]
CallState == [pc : {"none", "select", "send", "confirm"}, attempt : 0..Attempts, prior : Nat]
UsedState == [message : Nat, handoff : Nat, select : Nat, fault : Nat, late : Nat, reset : Nat]

LEMMA NoCallTyped == NoCall \in CallState /\ NoCall.pc = "none"
  BY DeliveryAssumption DEF NoCall, CallState

LEMMA SpendKept ==
  ASSUME TypeInv, NEW what \in {"message", "handoff", "select", "fault", "reset"}, Spend(what)
  PROVE /\ used' \in UsedState /\ used'[what] = used[what] + 1
        /\ \A other \in {"message", "handoff", "select", "fault", "late", "reset"} \ {what} :
             used'[other] = used[other]
<1>1. used \in UsedState
  BY DEF TypeInv, UsedState
<1>2. CASE what = "message"
  <2>1. used' = [used EXCEPT !.message = @ + 1]
    BY <1>2 DEF Spend
  <2> QED
    BY <1>1, <1>2, <2>1 DEF UsedState
<1>3. CASE what = "handoff"
  <2>1. used' = [used EXCEPT !.handoff = @ + 1]
    BY <1>3 DEF Spend
  <2> QED
    BY <1>1, <1>3, <2>1 DEF UsedState
<1>4. CASE what = "select"
  <2>1. used' = [used EXCEPT !.select = @ + 1]
    BY <1>4 DEF Spend
  <2> QED
    BY <1>1, <1>4, <2>1 DEF UsedState
<1>5. CASE what = "fault"
  <2>1. used' = [used EXCEPT !.fault = @ + 1]
    BY <1>5 DEF Spend
  <2> QED
    BY <1>1, <1>5, <2>1 DEF UsedState
<1>6. CASE what = "reset"
  <2>1. used' = [used EXCEPT !.reset = @ + 1]
    BY <1>6 DEF Spend
  <2> QED
    BY <1>1, <1>6, <2>1 DEF UsedState
<1> QED
  BY <1>2, <1>3, <1>4, <1>5, <1>6

LEMMA LeavesKept ==
  ASSUME TypeInv, LineInv, NEW lands \in BOOLEAN, LeavesBehind(lands)
  PROVE /\ used' \in UsedState /\ late' \in Seq(LateCalls)
        /\ Len(late) \in Nat
        /\ \A what \in {"message", "handoff", "select", "reset"} : used'[what] = used[what]
        /\ \/ UNCHANGED late /\ used'.late = used.late
           \/ /\ Len(late') = Len(late) + 1 /\ used'.late = used.late + 1
              /\ call.pc \in {"select", "send"} /\ line # <<>>
              /\ late' = Append(late, [call |-> call.pc, to |-> Head(line).to,
                                       text |-> Head(line).text])
<1>1. late \in Seq(LateCalls) /\ Len(late) \in Nat
  BY DEF TypeInv
<1> DEFINE fault == used.fault + 1
           cost == used.late + (IF lands THEN 1 ELSE 0)
<1>2. fault \in Nat /\ cost \in Nat /\ used \in UsedState
  BY DEF TypeInv, UsedState
<1>3. used' = [used EXCEPT !.fault = fault, !.late = cost]
  BY DEF LeavesBehind
<1>4. lands => cost = used.late + 1
  OBVIOUS
<1>5. ~lands => cost = used.late
  BY <1>2 DEF UsedState
<1> HIDE DEF fault, cost
<1>6. /\ used' \in UsedState /\ used'.late = cost
      /\ \A what \in {"message", "handoff", "select", "reset"} : used'[what] = used[what]
  BY <1>2, <1>3 DEF UsedState
<1>7. CASE lands
  <2>1. call.pc \in {"select", "send"} /\ line # <<>>
    BY <1>7 DEF LeavesBehind, LineInv, NoCall
  <2>2. Head(line) \in Jobs
    BY <2>1, EmptySeq DEF TypeInv
  <2> DEFINE entry == [call |-> call.pc, to |-> Head(line).to, text |-> Head(line).text]
  <2>3. entry \in LateCalls /\ late' = Append(late, entry)
    BY <1>7, <2>1, <2>2 DEF LeavesBehind, Jobs, LateCalls
  <2> HIDE DEF entry
  <2>4. late' \in Seq(LateCalls) /\ Len(late') = Len(late) + 1
    BY <1>1, <2>3
  <2> QED
    BY <1>1, <1>4, <1>6, <1>7, <2>1, <2>3, <2>4 DEF entry
<1>8. CASE ~lands
  BY <1>1, <1>5, <1>6, <1>8 DEF LeavesBehind
<1> QED
  BY <1>7, <1>8

\* The first delivery ends, and its sender hears of it.
LEMMA EndsKept ==
  ASSUME TypeInv, LineInv, call.pc # "none", Delivered \/ Undelivered
  PROVE /\ LineInv' /\ line' \in Seq(Jobs) /\ call' = NoCall /\ monitor' \in MonitorState
        /\ line' = Tail(line) /\ line # <<>>
<1>1. line # <<>> /\ line' = Tail(line) /\ call' = NoCall
  BY DEF LineInv, NoCall, Delivered, Undelivered
<1>2. /\ line' \in Seq(Jobs) /\ Head(line) = line[1] /\ line[1] \in Jobs /\ 1 \in DOMAIN line
      /\ \A i \in DOMAIN line' : i + 1 \in DOMAIN line /\ i + 1 # 1 /\ line'[i] = line[i + 1]
      /\ \A i \in DOMAIN line \ {1} : i - 1 \in DOMAIN line' /\ line'[i - 1] = line[i]
  BY <1>1, TailKept
<1>3. \A i \in DOMAIN line' : i \in Nat
  BY <1>2
<1>4. \A i, j \in DOMAIN line' : line'[i].by = line'[j].by => i = j
  <2> SUFFICES ASSUME NEW i \in DOMAIN line', NEW j \in DOMAIN line', line'[i].by = line'[j].by
               PROVE i = j
    OBVIOUS
  <2>1. i + 1 = j + 1
    BY <1>2 DEF LineInv
  <2> QED
    BY <1>3, <2>1
<1>5. \A i \in DOMAIN line' :
        /\ line'[i].by = "worker" => line'[i].to = WorkerThread /\ line'[i].text = "correct"
        /\ line'[i].by = "monitor" => line'[i].text \in {"compact", "continue"}
  BY <1>2 DEF LineInv
<1>6. CASE Head(line).by = "worker"
  <2>1. monitor' = monitor
    BY <1>6 DEF Delivered, Undelivered
  <2>2. (\E i \in DOMAIN line' : line'[i].by = "monitor") <=> \E i \in DOMAIN line : line[i].by = "monitor"
    BY <1>2, <1>6
  <2> QED
    BY <1>1, <1>2, <1>4, <1>5, <2>1, <2>2 DEF LineInv, TypeInv, MonitorState
<1>7. CASE Head(line).by = "monitor"
  <2>1. \A i \in DOMAIN line' : line'[i].by # "monitor"
    BY <1>2, <1>7 DEF LineInv
  <2>2. monitor.pc \in {"answering", "compacting"} /\ monitor.marker \in Handoffs
    BY <1>2, <1>7 DEF LineInv
  <2>3. /\ monitor' \in MonitorState /\ monitor'.pc \in {"poll", "settle", "ack"}
        /\ monitor'.pc # "poll" => monitor'.marker \in Handoffs
    <3>1. CASE Undelivered
      BY <1>7, <3>1 DEF Undelivered, Watching, MonitorState, NoHandoff
    <3>2. CASE Delivered
      <4>1. monitor \in MonitorState
        BY DEF TypeInv, MonitorState
      <4>2. monitor' = [monitor EXCEPT !.pc = IF @ = "compacting" THEN "settle" ELSE "ack"]
        BY <1>7, <3>2 DEF Delivered
      <4> QED
        BY <2>2, <4>1, <4>2 DEF MonitorState
    <3> QED
      BY <3>1, <3>2
  <2> QED
    BY <1>1, <1>2, <1>4, <1>5, <2>1, <2>3 DEF LineInv
<1> QED
  BY <1>2, <1>6, <1>7 DEF Jobs

\* A sender that has nothing in line puts a delivery into it.
LEMMA JoinsKept ==
  ASSUME TypeInv, LineInv, NEW job \in Jobs, Enqueue(job), UNCHANGED call,
         \A i \in DOMAIN line : line[i].by # job.by,
         job.by = "worker" => job.to = WorkerThread /\ job.text = "correct" /\ UNCHANGED monitor,
         job.by = "monitor" => /\ job.text \in {"compact", "continue"}
                               /\ monitor'.pc \in {"answering", "compacting"}
                               /\ monitor'.marker \in Handoffs
  PROVE LineInv' /\ line' \in Seq(Jobs)
<1>1. /\ line' \in Seq(Jobs) /\ line' # <<>>
      /\ DOMAIN line' = DOMAIN line \cup {Len(line) + 1} /\ Len(line) + 1 \notin DOMAIN line
      /\ \A i \in DOMAIN line : line'[i] = line[i]
      /\ line'[Len(line) + 1] = job
  BY EnqueueKept
<1>2. \A i, j \in DOMAIN line' : line'[i].by = line'[j].by => i = j
  BY <1>1 DEF LineInv
<1>3. \A i \in DOMAIN line' :
        /\ line'[i].by = "worker" => line'[i].to = WorkerThread /\ line'[i].text = "correct"
        /\ line'[i].by = "monitor" => line'[i].text \in {"compact", "continue"}
  BY <1>1 DEF LineInv
<1>4. (\E i \in DOMAIN line' : line'[i].by = "monitor")
        <=> job.by = "monitor" \/ \E i \in DOMAIN line : line[i].by = "monitor"
  BY <1>1
<1>5. CASE job.by = "worker"
  BY <1>1, <1>2, <1>3, <1>4, <1>5 DEF LineInv
<1>6. CASE job.by = "monitor"
  BY <1>1, <1>2, <1>3, <1>4, <1>6 DEF LineInv
<1> QED
  BY <1>5, <1>6 DEF Jobs

\* A handoff that asks is in a thread of this workspace, and the marker names its place.
LEMMA AskingTyped ==
  ASSUME TypeInv, NEW m \in Due
  PROVE m \in Handoffs /\ m \in Markers /\ m[1] \in Threads
<1>1. PICK t \in Threads : m \in {t} \X DOMAIN thread[t]
  BY DEF Due, Asking, Requests
<1>2. DOMAIN thread[t] = 1..Len(thread[t]) /\ Len(thread[t]) \in Nat
  BY DEF TypeInv
<1>3. m = <<m[1], m[2]>> /\ m[1] = t /\ m[2] \in Nat
  BY <1>1, <1>2
<1> QED
  BY <1>3 DEF Due, Handoffs, Markers

\* Places of a transcript with some mark are finitely many.
LEMMA CountTyped ==
  ASSUME TypeInv, NEW t \in Threads, NEW text
  PROVE CountOf(t, text) \in Nat
<1>1. thread[t] \in Seq(Entries)
  BY DEF TypeInv
<1>2. DOMAIN thread[t] = 1..Len(thread[t]) /\ Len(thread[t]) \in Nat
  BY <1>1
<1>3. IsFiniteSet(DOMAIN thread[t])
  BY <1>2, FS_Interval
<1> DEFINE P == {i \in DOMAIN thread[t] : thread[t][i].text = text}
<1>4. IsFiniteSet(P)
  BY <1>3, FS_Subset
<1>5. Cardinality(P) \in Nat
  BY <1>4, FS_CardinalityType
<1> QED
  BY <1>5 DEF CountOf

\* While a delivery is under way the first of the line is a delivery.
LEMMA HeadTyped ==
  ASSUME TypeInv, LineInv, call.pc # "none" \/ line # <<>>
  PROVE line # <<>> /\ Head(line) \in Jobs /\ Head(line) = line[1] /\ 1 \in DOMAIN line
                    /\ Head(line).to \in Threads
<1>1. line # <<>> /\ line \in Seq(Jobs)
  BY DEF LineInv, NoCall, TypeInv
<1>2. Len(line) \in Nat /\ Len(line) > 0 /\ DOMAIN line = 1..Len(line)
  BY <1>1, EmptySeq
<1>3. 1 \in DOMAIN line /\ line[1] \in Jobs /\ Head(line) = line[1]
  BY <1>1, <1>2
<1> QED
  BY <1>1, <1>3, DeliveryAssumption DEF Jobs

\* The rest of the state keeps its type when a step leaves it alone or sets it so.
LEMMA TypedAgain ==
  ASSUME thread' \in [Threads -> Seq(Entries)], selected' \in Threads, line' \in Seq(Jobs),
         call' \in CallState, monitor' \in MonitorState, handled' \subseteq Markers,
         compacted' \subseteq Owned, late' \in Seq(LateCalls), used' \in UsedState
  PROVE TypeInv'
BY DEF TypeInv, CallState, MonitorState, UsedState

LEMMA TypedNow ==
  ASSUME TypeInv
  PROVE /\ thread \in [Threads -> Seq(Entries)] /\ selected \in Threads /\ line \in Seq(Jobs)
        /\ call \in CallState /\ monitor \in MonitorState /\ handled \subseteq Markers
        /\ compacted \subseteq Owned /\ late \in Seq(LateCalls) /\ used \in UsedState
BY DEF TypeInv, CallState, MonitorState, UsedState

\* A step that leaves the line and the monitor alone, and a call where it is or under way.
LEMMA LineStays ==
  ASSUME LineInv, UNCHANGED <<line, monitor>>, UNCHANGED call \/ (call'.pc # "none" /\ line # <<>>)
  PROVE LineInv'
BY DEF LineInv

\* Nothing waits and the monitor polls: after an abort or a reload.
LEMMA LineCleared ==
  ASSUME line' = <<>>, call' = NoCall, monitor' = Watching("poll", NoHandoff)
  PROVE LineInv' /\ line' \in Seq(Jobs) /\ call' \in CallState /\ monitor' \in MonitorState
<1>1. line' \in Seq(Jobs) /\ DOMAIN line' = {}
  BY EmptySeq
<1>2. call' \in CallState
  BY NoCallTyped
<1>3. monitor' \in MonitorState /\ monitor'.pc = "poll"
  BY DEF Watching, MonitorState
<1> QED
  BY <1>1, <1>2, <1>3 DEF LineInv

------------------------------------------------------------------------------
(* The step.                                                                *)

LEMMA CallSteps ==
  ASSUME TypeInv, LineInv, DeliveryStarts \/ SelectsThread \/ SendsMessage \/ MissesMessage \/ Retries
  PROVE TypeInv' /\ LineInv'
<1>1. CASE DeliveryStarts
  <2>1. line # <<>> /\ Head(line).to \in Threads
    BY <1>1, HeadTyped DEF DeliveryStarts
  <2>2. call' = [pc |-> "select", attempt |-> 1, prior |-> CountOf(Head(line).to, Head(line).text)]
    BY <1>1 DEF DeliveryStarts
  <2>3. call' \in CallState /\ call'.pc = "select"
    BY <2>1, <2>2, CountTyped, DeliveryAssumption DEF CallState
  <2>4. TypeInv'
    BY <1>1, <2>3, TypedNow, TypedAgain DEF DeliveryStarts
  <2> QED
    BY <1>1, <2>1, <2>3, <2>4, LineStays DEF DeliveryStarts
<1>2. CASE SelectsThread
  <2>1. line # <<>> /\ Head(line).to \in Threads
    BY <1>2, HeadTyped DEF SelectsThread
  <2>2. call' \in CallState /\ call'.pc = "send"
    BY <1>2, TypedNow DEF SelectsThread, CallState
  <2>3. TypeInv'
    BY <1>2, <2>1, <2>2, TypedNow, TypedAgain DEF SelectsThread
  <2> QED
    BY <1>2, <2>1, <2>2, <2>3, LineStays DEF SelectsThread
<1>3. CASE SendsMessage
  <2>1. line # <<>> /\ Head(line) \in Jobs /\ Head(line).to \in Threads
    BY <1>3, HeadTyped DEF SendsMessage
  <2>2. thread' \in [Threads -> Seq(Entries)]
    BY <1>3, <2>1, PostedKept, TypedNow DEF SendsMessage, Jobs
  <2>3. call' \in CallState /\ call'.pc = "confirm"
    BY <1>3, TypedNow DEF SendsMessage, CallState
  <2>4. TypeInv'
    BY <1>3, <2>2, <2>3, TypedNow, TypedAgain DEF SendsMessage
  <2> QED
    BY <1>3, <2>1, <2>3, <2>4, LineStays DEF SendsMessage
<1>4. CASE MissesMessage
  <2>1. line # <<>>
    BY <1>4, HeadTyped DEF MissesMessage
  <2>2. used' \in UsedState /\ late' \in Seq(LateCalls)
    BY <1>4, LeavesKept, TypedNow DEF MissesMessage
  <2>3. call' \in CallState /\ call'.pc = "confirm"
    BY <1>4, TypedNow DEF MissesMessage, CallState
  <2>4. TypeInv'
    BY <1>4, <2>2, <2>3, TypedNow, TypedAgain DEF MissesMessage
  <2> QED
    BY <1>4, <2>1, <2>3, <2>4, LineStays DEF MissesMessage
<1>5. CASE Retries
  <2>1. line # <<>>
    BY <1>5, HeadTyped DEF Retries
  <2> DEFINE next == call.attempt + 1
  <2>2. next \in 0..Attempts
    BY <1>5, TypedNow, DeliveryAssumption DEF Retries, CallState
  <2>3. call' = [call EXCEPT !.pc = "select", !.attempt = next]
    BY <1>5 DEF Retries
  <2> HIDE DEF next
  <2>4. call' \in CallState /\ call'.pc = "select"
    BY <2>2, <2>3, TypedNow DEF CallState
  <2>5. TypeInv'
    BY <1>5, <2>4, TypedNow, TypedAgain DEF Retries
  <2> QED
    BY <1>5, <2>1, <2>4, <2>5, LineStays DEF Retries
<1> QED
  BY <1>1, <1>2, <1>3, <1>4, <1>5

LEMMA EndSteps ==
  ASSUME TypeInv, LineInv, ConfirmsDelivery \/ GivesUp \/ CallTimesOut
  PROVE TypeInv' /\ LineInv'
<1>1. call.pc # "none" /\ (Delivered \/ Undelivered) /\ UNCHANGED <<thread, selected, handled, compacted>>
  BY DEF ConfirmsDelivery, GivesUp, CallTimesOut
<1>2. LineInv' /\ line' \in Seq(Jobs) /\ call' \in CallState /\ monitor' \in MonitorState
  BY <1>1, EndsKept, NoCallTyped
<1>3. CASE ConfirmsDelivery \/ GivesUp
  <2>1. UNCHANGED <<late, used>>
    BY <1>3 DEF ConfirmsDelivery, GivesUp
  <2> QED
    BY <1>1, <1>2, <2>1, TypedNow, TypedAgain
<1>4. CASE CallTimesOut
  <2>1. used' \in UsedState /\ late' \in Seq(LateCalls)
    BY <1>4, LeavesKept, TypedNow DEF CallTimesOut
  <2> QED
    BY <1>1, <1>2, <2>1, TypedNow, TypedAgain
<1> QED
  BY <1>3, <1>4

LEMMA MonitorKept ==
  ASSUME TypeInv, LineInv, MonitorSteps
  PROVE TypeInv' /\ LineInv'
<1>1. ASSUME MonitorPolls PROVE TypeInv' /\ LineInv'
  <2>1. PICK m \in Due : Suppresses(m) \/ Answers(m) \/ Compacts(m)
    BY <1>1 DEF MonitorPolls
  <2>2. m \in Handoffs /\ m \in Markers /\ m[1] \in Owned
    BY <2>1, AskingTyped DEF Due
  <2>3. monitor.pc = "poll" /\ \A i \in DOMAIN line : line[i].by # "monitor"
    BY <1>1 DEF MonitorPolls, LineInv
  <2>4. CASE Suppresses(m)
    BY <1>1, <2>2, <2>4, TypedNow, TypedAgain, LineStays DEF MonitorPolls, Suppresses
  <2>5. ASSUME NEW text \in {"continue", "compact"}, NEW pc \in {"answering", "compacting"},
               Enqueue(Job("monitor", m[1], text)), monitor' = Watching(pc, m),
               handled' = handled, compacted' \subseteq Owned
        PROVE TypeInv' /\ LineInv'
    <3> DEFINE job == Job("monitor", m[1], text)
    <3>1. job \in Jobs /\ job.by = "monitor" /\ job.text = text
      BY <2>2 DEF Job, Jobs, Texts
    <3>2. monitor' \in MonitorState /\ monitor'.pc = pc /\ monitor'.marker = m
      BY <2>2, <2>5 DEF Watching, MonitorState
    <3>3. Enqueue(job) /\ UNCHANGED <<thread, selected, call, late, used>>
      BY <1>1, <2>5 DEF MonitorPolls
    <3> HIDE DEF job
    <3>4. LineInv' /\ line' \in Seq(Jobs)
      BY <2>2, <2>3, <2>5, <3>1, <3>2, <3>3, JoinsKept
    <3> QED
      BY <2>5, <3>2, <3>3, <3>4, TypedNow, TypedAgain
  <2>6. CASE Answers(m)
    BY <2>5, <2>6, TypedNow DEF Answers
  <2>7. CASE Compacts(m)
    BY <2>2, <2>5, <2>7, TypedNow DEF Compacts
  <2> QED
    BY <2>1, <2>4, <2>6, <2>7
<1>2. ASSUME MonitorSettles PROVE TypeInv' /\ LineInv'
  <2>1. /\ monitor.pc = "settle" /\ monitor \in MonitorState /\ monitor.marker \in Handoffs
        /\ \A i \in DOMAIN line : line[i].by # "monitor"
    BY <1>2, TypedNow DEF MonitorSettles, LineInv
  <2> DEFINE job == Job("monitor", monitor.marker[1], "continue")
  <2>2. job \in Jobs /\ job.by = "monitor" /\ job.text = "continue"
    BY <2>1 DEF Job, Jobs, Texts, Handoffs
  <2>3. monitor' \in MonitorState /\ monitor'.pc = "answering" /\ monitor'.marker = monitor.marker
    BY <1>2, <2>1 DEF MonitorSettles, MonitorState
  <2>4. Enqueue(job) /\ UNCHANGED <<thread, selected, call, handled, compacted, late, used>>
    BY <1>2 DEF MonitorSettles
  <2> HIDE DEF job
  <2>5. LineInv' /\ line' \in Seq(Jobs)
    BY <2>1, <2>2, <2>3, <2>4, JoinsKept
  <2> QED
    BY <2>3, <2>4, <2>5, TypedNow, TypedAgain
<1>3. ASSUME MonitorMarksHandled PROVE TypeInv' /\ LineInv'
  <2>1. monitor.pc = "ack" /\ monitor.marker \in Handoffs /\ monitor.marker \in Markers
    BY <1>3, DeliveryAssumption DEF MonitorMarksHandled, LineInv, Handoffs, Markers
  <2>2. monitor' \in MonitorState /\ monitor'.pc = "poll"
    BY <1>3 DEF MonitorMarksHandled, Watching, MonitorState
  <2>3. LineInv'
    BY <1>3, <2>1, <2>2 DEF MonitorMarksHandled, LineInv
  <2>4. TypeInv'
    BY <1>3, <2>1, <2>2, TypedNow, TypedAgain DEF MonitorMarksHandled
  <2> QED
    BY <2>3, <2>4
<1> QED
  BY <1>1, <1>2, <1>3 DEF MonitorSteps

LEMMA OtherSteps ==
  ASSUME TypeInv, LineInv,
         WorkerSends \/ LandsLate \/ LifecycleEnds \/ ClineAsksNewTask \/ UserOpensThread
  PROVE TypeInv' /\ LineInv'
<1>1. CASE WorkerSends
  <2> DEFINE job == Job("worker", WorkerThread, "correct")
  <2>1. job \in Jobs /\ job.by = "worker" /\ job.to = WorkerThread /\ job.text = "correct"
    BY DeliveryAssumption DEF Job, Jobs, Texts
  <2>2. /\ Enqueue(job) /\ UNCHANGED <<thread, selected, call, monitor, handled, compacted, late>>
        /\ \A i \in DOMAIN line : line[i].by # "worker"
    BY <1>1 DEF WorkerSends
  <2> HIDE DEF job
  <2>3. LineInv' /\ line' \in Seq(Jobs)
    BY <2>1, <2>2, JoinsKept
  <2>4. used' \in UsedState
    BY <1>1, SpendKept DEF WorkerSends, Budget
  <2> QED
    BY <2>2, <2>3, <2>4, TypedNow, TypedAgain
<1>2. CASE LandsLate
  <2>1. late # <<>> /\ late \in Seq(LateCalls)
    BY <1>2, TypedNow DEF LandsLate
  <2>2. late' \in Seq(LateCalls) /\ Head(late) \in LateCalls
    BY <1>2, <2>1, HeadTailProperties DEF LandsLate
  <2>3. Head(late).to \in Threads /\ Head(late).text \in Texts
    BY <2>2, DeliveryAssumption DEF LateCalls
  <2>4. thread' \in [Threads -> Seq(Entries)] /\ selected' \in Threads
    <3>1. CASE Head(late).call = "select"
      BY <1>2, <2>3, <3>1, TypedNow DEF LandsLate
    <3>2. CASE Head(late).call # "select"
      BY <1>2, <2>3, <3>2, TypedNow, PostedKept DEF LandsLate
    <3> QED
      BY <3>1, <3>2
  <2>5. UNCHANGED <<line, call, monitor, handled, compacted, used>>
    BY <1>2 DEF LandsLate
  <2> QED
    BY <2>2, <2>4, <2>5, TypedNow, TypedAgain, LineStays
<1>3. CASE LifecycleEnds
  <2>1. used' \in UsedState
    BY <1>3, SpendKept DEF LifecycleEnds, Disturb
  <2>2. handled' = {} /\ compacted' = {} /\ UNCHANGED <<thread, selected, line, call, monitor, late>>
    BY <1>3 DEF LifecycleEnds
  <2> QED
    BY <2>1, <2>2, TypedNow, TypedAgain, LineStays
<1>4. CASE ClineAsksNewTask
  <2>1. used' \in UsedState
    BY <1>4, SpendKept DEF ClineAsksNewTask, Budget
  <2>2. thread' \in [Threads -> Seq(Entries)]
    BY <1>4, PostedKept, TypedNow DEF ClineAsksNewTask, Texts
  <2>3. UNCHANGED <<selected, line, call, monitor, handled, compacted, late>>
    BY <1>4 DEF ClineAsksNewTask
  <2> QED
    BY <2>1, <2>2, <2>3, TypedNow, TypedAgain, LineStays
<1>5. CASE UserOpensThread
  <2>1. used' \in UsedState /\ selected' \in Threads
    BY <1>5, SpendKept DEF UserOpensThread, Disturb
  <2>2. UNCHANGED <<thread, line, call, monitor, handled, compacted, late>>
    BY <1>5 DEF UserOpensThread
  <2> QED
    BY <2>1, <2>2, TypedNow, TypedAgain, LineStays
<1> QED
  BY <1>1, <1>2, <1>3, <1>4, <1>5

LEMMA ClearSteps ==
  ASSUME TypeInv, LineInv, QueueAborts \/ HostReloads
  PROVE TypeInv' /\ LineInv'
<1>1. /\ LineInv' /\ line' \in Seq(Jobs) /\ call' \in CallState /\ monitor' \in MonitorState
      /\ UNCHANGED <<thread, handled, compacted>>
  BY LineCleared DEF QueueAborts, HostReloads
<1>2. CASE QueueAborts
  <2>1. used' \in UsedState /\ late' \in Seq(LateCalls) /\ UNCHANGED selected
    BY <1>2, LeavesKept DEF QueueAborts
  <2> QED
    BY <1>1, <2>1, TypedNow, TypedAgain
<1>3. CASE HostReloads
  <2>1. used' \in UsedState /\ late' \in Seq(LateCalls) /\ selected' \in Threads
    BY <1>3, SpendKept, EmptySeq DEF HostReloads, Disturb
  <2> QED
    BY <1>1, <2>1, TypedNow, TypedAgain
<1> QED
  BY <1>2, <1>3

LEMMA NextTypes == TypeInv /\ LineInv /\ [Next]_vars => TypeInv' /\ LineInv'
<1> SUFFICES ASSUME TypeInv, LineInv, [Next]_vars PROVE TypeInv' /\ LineInv'
  OBVIOUS
<1>1. CASE Next
  BY <1>1, CallSteps, EndSteps, MonitorKept, OtherSteps, ClearSteps DEF Next, DeliverySteps
<1>2. CASE UNCHANGED vars
  BY <1>2, TypedNow, TypedAgain, LineStays DEF vars
<1> QED
  BY <1>1, <1>2

LEMMA LineAlways == Spec => [](TypeInv /\ LineInv)
BY InitTypes, NextTypes, PTL DEF Spec

\* Whatever is lost, late, given up or aborted, the first delivery of the line is the
\* one a call is made for, and the monitor waits for a delivery exactly while one of its
\* own is in line.
THEOREM TypeCorrect == Spec => []TypeOK
BY LineAlways, TypesImplied, PTL

------------------------------------------------------------------------------
(* The handled markers.                                                     *)

\* A transcript changes by one entry at its end, written by one of three.
LEMMA Writers ==
  ASSUME TypeInv, LineInv, [Next]_vars
  PROVE \/ UNCHANGED thread
        \/ SendsMessage /\ Head(line) \in Jobs /\ thread' = Posted(selected, Head(line).text, Head(line).to)
        \/ /\ LandsLate /\ late # <<>> /\ Head(late) \in LateCalls /\ Head(late).call = "send"
           /\ thread' = Posted(selected, Head(late).text, Head(late).to)
        \/ ClineAsksNewTask /\ thread' = Posted(selected, "handoff", selected)
<1>1. CASE SendsMessage
  BY <1>1, HeadTyped DEF SendsMessage
<1>2. CASE LandsLate
  <2>1. late # <<>> /\ late \in Seq(LateCalls)
    BY <1>2, TypedNow DEF LandsLate
  <2>2. Head(late) \in LateCalls
    BY <2>1, HeadTailProperties
  <2> QED
    BY <1>2, <2>1, <2>2 DEF LandsLate, LateCalls
<1>3. CASE ClineAsksNewTask
  BY <1>3 DEF ClineAsksNewTask
<1>4. CASE UNCHANGED vars
  BY <1>4 DEF vars
<1>5. CASE Next /\ ~SendsMessage /\ ~LandsLate /\ ~ClineAsksNewTask
  BY <1>5 DEF Next, DeliverySteps, MonitorSteps, DeliveryStarts, SelectsThread, ConfirmsDelivery,
     Retries, GivesUp, MonitorPolls, MonitorSettles, MonitorMarksHandled, WorkerSends,
     MissesMessage, CallTimesOut, QueueAborts, HostReloads, LifecycleEnds, UserOpensThread
<1> QED
  BY <1>1, <1>2, <1>3, <1>4, <1>5

\* What stands in a transcript stays where it is.
LEMMA TranscriptsGrow ==
  ASSUME TypeInv, LineInv, [Next]_vars, NEW t \in Threads
  PROVE /\ Len(thread[t]) \in Nat /\ Len(thread'[t]) \in Nat /\ Len(thread[t]) <= Len(thread'[t])
        /\ DOMAIN thread[t] = 1..Len(thread[t]) /\ DOMAIN thread'[t] = 1..Len(thread'[t])
        /\ \A i \in DOMAIN thread[t] : thread'[t][i] = thread[t][i]
<1>1. thread[t] \in Seq(Entries) /\ thread'[t] \in Seq(Entries)
  BY NextTypes DEF TypeInv
<1>2. /\ Len(thread[t]) \in Nat /\ Len(thread'[t]) \in Nat
      /\ DOMAIN thread[t] = 1..Len(thread[t]) /\ DOMAIN thread'[t] = 1..Len(thread'[t])
  BY <1>1
<1>3. ASSUME NEW text \in Texts, NEW for \in Threads, thread' = Posted(selected, text, for)
      PROVE Len(thread[t]) <= Len(thread'[t]) /\ \A i \in DOMAIN thread[t] : thread'[t][i] = thread[t][i]
  <2>1. selected \in Threads
    BY DEF TypeInv
  <2>2. CASE t = selected
    BY <1>2, <1>3, <2>1, <2>2, PostedKept
  <2>3. CASE t # selected
    BY <1>2, <1>3, <2>1, <2>3, PostedKept
  <2> QED
    BY <2>2, <2>3
<1>4. UNCHANGED thread \/ \E text \in Texts : \E for \in Threads : thread' = Posted(selected, text, for)
  BY Writers, DeliveryAssumption DEF Jobs, LateCalls, Texts, TypeInv
<1> QED
  BY <1>2, <1>3, <1>4

LEMMA AcknowledgementStays ==
  ASSUME TypeInv, LineInv, [Next]_vars, NEW t \in Threads, NEW i \in Nat, AcknowledgedAfter(t, i)
  PROVE AcknowledgedAfter(t, i)'
<1>1. PICK j \in (i + 1)..Len(thread[t]) : thread[t][j].text = "continue"
  BY DEF AcknowledgedAfter
<1>2. /\ Len(thread[t]) \in Nat /\ Len(thread'[t]) \in Nat /\ Len(thread[t]) <= Len(thread'[t])
      /\ DOMAIN thread[t] = 1..Len(thread[t])
      /\ \A k \in DOMAIN thread[t] : thread'[t][k] = thread[t][k]
  BY TranscriptsGrow
<1>3. j \in DOMAIN thread[t] /\ j \in (i + 1)..Len(thread'[t])
  BY <1>2
<1> QED
  BY <1>1, <1>2, <1>3 DEF AcknowledgedAfter

LEMMA NextHandled ==
  TypeInv /\ LineInv /\ HandledOnlyAnswered /\ [Next]_vars => HandledOnlyAnswered'
<1> SUFFICES ASSUME TypeInv, LineInv, HandledOnlyAnswered, [Next]_vars,
                    NEW m \in handled'
             PROVE Answered(m)' \/ m[1] \in compacted'
  BY DEF HandledOnlyAnswered
<1>1. m \in Markers /\ m[1] \in Threads /\ m[2] \in Nat
  BY NextTypes DEF TypeInv, Markers
<1>2. m \in handled /\ Answered(m) => Answered(m)'
  BY <1>1, AcknowledgementStays DEF Answered
<1>3. CASE LifecycleEnds
  BY <1>3 DEF LifecycleEnds
<1>4. CASE MonitorMarksHandled
  <2>1. CASE m \in handled
    BY <1>2, <1>4, <2>1 DEF HandledOnlyAnswered, MonitorMarksHandled
  <2>2. CASE m \notin handled
    <3>1. AcknowledgedAfter(m[1], m[2])
      BY <1>4, <2>2 DEF MonitorMarksHandled
    <3> QED
      BY <1>1, <3>1, AcknowledgementStays DEF Answered
  <2> QED
    BY <2>1, <2>2
<1>5. CASE MonitorPolls
  <2>1. PICK n \in Due : Suppresses(n) \/ Answers(n) \/ Compacts(n)
    BY <1>5 DEF MonitorPolls
  <2>2. compacted \subseteq compacted'
    BY <2>1 DEF Suppresses, Answers, Compacts
  <2>3. CASE m \in handled
    BY <1>2, <2>2, <2>3 DEF HandledOnlyAnswered
  <2>4. CASE m \notin handled
    <3>1. m = n /\ Suppresses(n)
      BY <2>1, <2>4 DEF Suppresses, Answers, Compacts
    <3> QED
      BY <3>1 DEF Suppresses, Policy
  <2> QED
    BY <2>3, <2>4
<1>6. CASE ~LifecycleEnds /\ ~MonitorMarksHandled /\ ~MonitorPolls
  <2>1. UNCHANGED <<handled, compacted>>
    BY <1>6 DEF Next, vars, DeliverySteps, MonitorSteps, DeliveryStarts, SelectsThread, SendsMessage,
       ConfirmsDelivery, Retries, GivesUp, MonitorSettles, WorkerSends, MissesMessage, CallTimesOut,
       LandsLate, QueueAborts, HostReloads, ClineAsksNewTask, UserOpensThread
  <2> QED
    BY <1>2, <2>1 DEF HandledOnlyAnswered
<1> QED
  BY <1>3, <1>4, <1>5, <1>6

\* A handoff is marked handled only when its answer stands after it in its own thread or
\* the thread has been compacted, for any number of threads, messages and disturbances:
\* answers are read from the transcript, and a transcript only grows.
THEOREM HandledAnswered == Spec => []HandledOnlyAnswered
<1>1. Init => HandledOnlyAnswered
  BY DEF Init, HandledOnlyAnswered
<1> QED
  BY <1>1, NextHandled, LineAlways, PTL DEF Spec

------------------------------------------------------------------------------
(* The messages that strayed.                                               *)

\* A message about to be sent while Cline shows another thread than its own.
Astray == IF call.pc = "send" /\ selected # Head(line).to THEN 1 ELSE 0

\* Every stray message, every call that may still move the selection or write something,
\* and the message about to stray, was paid for by a thread the user opened or a call
\* that was given up.
StrayInv ==
  /\ IsFiniteSet(Strays)
  /\ Cardinality(Strays) + Len(late) + Astray <= used.select + used.late

LEMMA StraysAre == \A t, i : <<t, i>> \in Strays <=>
  t \in Threads /\ i \in DOMAIN thread[t] /\ thread[t][i].for # t
BY DEF Strays

LEMMA StrayPairs == \A e \in Strays : e = <<e[1], e[2]>>
BY DEF Strays

LEMMA StraysAreThen == \A t, i : <<t, i>> \in Strays' <=>
  t \in Threads /\ i \in DOMAIN thread'[t] /\ thread'[t][i].for # t
BY DEF Strays

LEMMA StrayPairsThen == \A e \in Strays' : e = <<e[1], e[2]>>
BY DEF Strays

\* Writing an entry makes one stray, or none when it is meant for its thread.
LEMMA StrayWritten ==
  ASSUME TypeInv, IsFiniteSet(Strays), NEW t \in Threads, NEW text \in Texts, NEW for \in Threads,
         thread' = Posted(t, text, for)
  PROVE /\ IsFiniteSet(Strays') /\ Cardinality(Strays) \in Nat /\ Cardinality(Strays') \in Nat
        /\ for = t => Cardinality(Strays') = Cardinality(Strays)
        /\ for # t => Cardinality(Strays') = Cardinality(Strays) + 1
<1> DEFINE n == Len(thread[t]) + 1
           x == <<t, n>>
<1>1. /\ \A u \in Threads \ {t} : thread'[u] = thread[u]
      /\ \A i \in DOMAIN thread[t] : i \in DOMAIN thread'[t] /\ thread'[t][i] = thread[t][i]
      /\ thread'[t][n] = Entry(text, for)
      /\ DOMAIN thread'[t] = DOMAIN thread[t] \cup {n}
      /\ n \notin DOMAIN thread[t]
  BY PostedKept
<1> HIDE DEF n
<1>2. x \notin Strays
  BY <1>1, StraysAre
<1>3. \A u, i : <<u, i>> \in Strays' <=> <<u, i>> \in Strays \/ (u = t /\ i = n /\ for # t)
  <2> SUFFICES ASSUME NEW u, NEW i
               PROVE <<u, i>> \in Strays' <=> <<u, i>> \in Strays \/ (u = t /\ i = n /\ for # t)
    OBVIOUS
  <2>1. CASE u \in Threads \ {t}
    BY <1>1, <2>1, StraysAre, StraysAreThen
  <2>2. CASE u = t
    BY <1>1, <2>2, StraysAre, StraysAreThen DEF Entry
  <2>3. CASE u \notin Threads
    BY <2>3, StraysAre, StraysAreThen
  <2> QED
    BY <2>1, <2>2, <2>3
<1>4. for = t => Strays' = Strays
  BY <1>3, StrayPairs, StrayPairsThen
<1>5. for # t => Strays' = Strays \cup {x}
  BY <1>3, StrayPairs, StrayPairsThen
<1>6. IsFiniteSet(Strays \cup {x}) /\ Cardinality(Strays \cup {x}) = Cardinality(Strays) + 1
  BY <1>2, FS_AddElement
<1>7. Cardinality(Strays) \in Nat
  BY FS_CardinalityType
<1> QED
  BY <1>4, <1>5, <1>6, <1>7

LEMMA StraysStay ==
  ASSUME UNCHANGED thread
  PROVE Strays' = Strays
BY DEF Strays

LEMMA InitStrays == Init => StrayInv
<1> SUFFICES ASSUME Init PROVE StrayInv
  OBVIOUS
<1>1. Strays = {}
  <2>1. \A t \in Threads : thread[t] = <<Entry("task", t)>>
    BY DEF Init
  <2>2. \A t \in Threads : \A i \in DOMAIN thread[t] : thread[t][i].for = t
    <3> SUFFICES ASSUME NEW t \in Threads, NEW i \in DOMAIN thread[t] PROVE thread[t][i].for = t
      OBVIOUS
    <3>1. thread[t] = <<Entry("task", t)>>
      BY <2>1
    <3>2. i = 1 /\ thread[t][1] = Entry("task", t)
      BY <3>1
    <3> QED
      BY <3>2 DEF Entry
  <2>3. \A e \in Strays : FALSE
    BY <2>2, StraysAre, StrayPairs
  <2> QED
    BY <2>3
<1>2. Len(late) = 0 /\ Astray = 0 /\ used.select = 0 /\ used.late = 0
  BY DEF Init, Astray, NoCall
<1> QED
  BY <1>1, <1>2, FS_EmptySet DEF StrayInv

\* The first delivery stays the first while a call is made for it.
LEMMA HeadStays ==
  ASSUME TypeInv, LineInv, call.pc # "none", NEW job \in Jobs, Enqueue(job)
  PROVE Head(line') = Head(line)
BY HeadTyped, EnqueueKept

LEMMA HeadUnderPolls ==
  ASSUME TypeInv, LineInv, call.pc # "none",
         WorkerSends \/ MonitorPolls \/ MonitorSettles \/ MonitorMarksHandled
  PROVE Head(line') = Head(line)
<1>1. CASE WorkerSends
  <2>1. Job("worker", WorkerThread, "correct") \in Jobs
    BY DeliveryAssumption DEF Job, Jobs, Texts
  <2> QED
    BY <1>1, <2>1, HeadStays DEF WorkerSends
<1>2. CASE MonitorPolls
  <2>1. PICK m \in Due : Suppresses(m) \/ Answers(m) \/ Compacts(m)
    BY <1>2 DEF MonitorPolls
  <2>2. Job("monitor", m[1], "continue") \in Jobs /\ Job("monitor", m[1], "compact") \in Jobs
    BY <2>1, AskingTyped DEF Due, Job, Jobs, Texts
  <2> QED
    BY <2>1, <2>2, HeadStays DEF Suppresses, Answers, Compacts
<1>3. CASE MonitorSettles
  <2>1. Job("monitor", monitor.marker[1], "continue") \in Jobs
    BY <1>3 DEF MonitorSettles, LineInv, Job, Jobs, Texts, Handoffs
  <2> QED
    BY <1>3, <2>1, HeadStays DEF MonitorSettles
<1>4. CASE MonitorMarksHandled
  BY <1>4 DEF MonitorMarksHandled
<1> QED
  BY <1>1, <1>2, <1>3, <1>4

LEMMA NextStrays == TypeInv /\ LineInv /\ StrayInv /\ [Next]_vars => StrayInv'
<1> SUFFICES ASSUME TypeInv, LineInv, StrayInv, [Next]_vars PROVE StrayInv'
  OBVIOUS
<1> DEFINE S == Cardinality(Strays)
           T == Cardinality(Strays')
           L == Len(late)
           M == Len(late')
           Fits == T + M + Astray' <= used'.select + used'.late /\ IsFiniteSet(Strays') /\ T \in Nat
<1>0. TypeInv'
  BY NextTypes
<1>a. S \in Nat /\ IsFiniteSet(Strays) /\ S + L + Astray <= used.select + used.late
  BY FS_CardinalityType DEF StrayInv
<1>b. L \in Nat /\ used.select \in Nat /\ used.late \in Nat
  BY DEF TypeInv
<1>c. M \in Nat /\ used'.select \in Nat /\ used'.late \in Nat
  BY <1>0 DEF TypeInv
<1>1. /\ S \in Nat /\ L \in Nat /\ M \in Nat /\ used.select \in Nat /\ used.late \in Nat
      /\ used'.select \in Nat /\ used'.late \in Nat
      /\ S + L + Astray <= used.select + used.late /\ IsFiniteSet(Strays)
  BY <1>a, <1>b, <1>c
<1>2. Astray \in {0, 1} /\ Astray' \in {0, 1}
  BY DEF Astray
<1>3. UNCHANGED thread => T = S /\ IsFiniteSet(Strays')
  BY <1>1, StraysStay
<1>4. ASSUME UNCHANGED thread, Astray' <= Astray, UNCHANGED late,
             used'.select = used.select, used'.late = used.late
      PROVE Fits
  <2>1. M = L
    BY <1>4
  <2> HIDE DEF S, T, L, M
  <2> QED
    BY <1>1, <1>2, <1>3, <1>4, <2>1
<1>5. ASSUME UNCHANGED thread, Astray' = 0, NEW lands \in BOOLEAN, LeavesBehind(lands)
      PROVE Fits
  <2>1. /\ used'.select = used.select
        /\ \/ M = L /\ used'.late = used.late
           \/ M = L + 1 /\ used'.late = used.late + 1
    BY <1>5, LeavesKept
  <2> HIDE DEF S, T, L, M
  <2> QED
    BY <1>1, <1>2, <1>3, <1>5, <2>1
<1>51. UNCHANGED late => M = L
  OBVIOUS
<1> SUFFICES Fits
  BY <1>1, <1>2 DEF StrayInv
<1> HIDE DEF S, T, L, M, Fits
<1>6. CASE DeliveryStarts
  <2>1. Astray' <= Astray
    BY <1>2, <1>6 DEF DeliveryStarts, Astray
  <2> QED
    BY <1>4, <1>6, <2>1 DEF DeliveryStarts
<1>7. CASE SelectsThread
  <2>1. Astray' <= Astray
    BY <1>2, <1>7 DEF SelectsThread, Astray, TypeInv
  <2> QED
    BY <1>4, <1>7, <2>1 DEF SelectsThread
<1>8. CASE SendsMessage
  <2>1. Head(line) \in Jobs /\ Head(line).to \in Threads /\ selected \in Threads
    BY <1>8, HeadTyped DEF SendsMessage, TypeInv
  <2>2. IsFiniteSet(Strays') /\ T = S + Astray
    BY <1>1, <1>8, <2>1, StrayWritten DEF SendsMessage, Astray, Jobs, S, T
  <2>3. Astray' = 0
    BY <1>8 DEF SendsMessage, Astray, TypeInv
  <2>4. UNCHANGED <<late, used>>
    BY <1>8 DEF SendsMessage
  <2> QED
    BY <1>1, <1>2, <1>51, <2>2, <2>3, <2>4 DEF Fits
<1>9. CASE MissesMessage
  <2>1. UNCHANGED thread /\ Astray' = 0
    BY <1>9 DEF MissesMessage, Astray, TypeInv
  <2> QED
    BY <1>5, <1>9, <2>1 DEF MissesMessage
<1>10. CASE ConfirmsDelivery \/ GivesUp
  <2>1. Astray' = 0
    BY <1>10 DEF ConfirmsDelivery, GivesUp, Delivered, Undelivered, Astray, NoCall
  <2> QED
    BY <1>2, <1>4, <1>10, <2>1 DEF ConfirmsDelivery, GivesUp
<1>11. CASE CallTimesOut
  <2>1. UNCHANGED thread /\ Astray' = 0
    BY <1>11 DEF CallTimesOut, Undelivered, Astray, NoCall
  <2> QED
    BY <1>5, <1>11, <2>1 DEF CallTimesOut
<1>12. CASE Retries
  <2>1. Astray' = 0
    BY <1>12 DEF Retries, Astray, TypeInv
  <2> QED
    BY <1>2, <1>4, <1>12, <2>1 DEF Retries
<1>13. CASE WorkerSends \/ MonitorPolls \/ MonitorSettles \/ MonitorMarksHandled
  <2>1. UNCHANGED <<thread, selected, call, late>>
    BY <1>13 DEF WorkerSends, MonitorPolls, MonitorSettles, MonitorMarksHandled
  <2>2. Astray' <= Astray
    BY <1>2, <1>13, <2>1, HeadUnderPolls DEF Astray
  <2>3. used'.select = used.select /\ used'.late = used.late
    BY <1>13, SpendKept DEF WorkerSends, Budget, MonitorPolls, MonitorSettles, MonitorMarksHandled
  <2> QED
    BY <1>4, <2>1, <2>2, <2>3
<1>14. CASE LandsLate
  <2>1. late # <<>> /\ late \in Seq(LateCalls) /\ late' = Tail(late) /\ UNCHANGED <<line, call, used>>
    BY <1>14, TypedNow DEF LandsLate
  <2>2. M = L - 1 /\ Head(late) \in LateCalls
    BY <2>1, HeadTailProperties DEF M, L
  <2>3. selected \in Threads /\ Head(late).to \in Threads /\ Head(late).text \in Texts
    BY <2>2, DeliveryAssumption DEF LateCalls, TypeInv
  <2>4. CASE Head(late).call = "select"
    BY <1>1, <1>2, <1>3, <1>14, <2>1, <2>2, <2>4 DEF LandsLate, Fits
  <2>5. CASE Head(late).call # "select"
    <3>1. thread' = Posted(selected, Head(late).text, Head(late).to) /\ UNCHANGED selected
      BY <1>14, <2>5 DEF LandsLate
    <3>2. IsFiniteSet(Strays') /\ T <= S + 1 /\ T \in Nat
      BY <1>1, <2>3, <3>1, StrayWritten DEF S, T
    <3>3. Astray' = Astray
      BY <2>1, <3>1 DEF Astray
    <3> QED
      BY <1>1, <1>2, <2>1, <2>2, <3>2, <3>3 DEF Fits
  <2> QED
    BY <2>4, <2>5
<1>15. CASE QueueAborts
  <2>1. UNCHANGED thread /\ Astray' = 0
    BY <1>15 DEF QueueAborts, Astray, NoCall
  <2> QED
    BY <1>5, <1>15, <2>1 DEF QueueAborts
<1>16. CASE HostReloads
  <2>1. UNCHANGED thread /\ Astray' = 0 /\ M = 0
    BY <1>16 DEF HostReloads, Astray, NoCall, M
  <2>2. used'.select = used.select /\ used'.late = used.late
    BY <1>16, SpendKept DEF HostReloads, Disturb
  <2> QED
    BY <1>1, <1>2, <1>3, <1>51, <2>1, <2>2 DEF Fits
<1>17. CASE LifecycleEnds
  <2>1. UNCHANGED <<thread, late>> /\ Astray' = Astray
    BY <1>17 DEF LifecycleEnds, Astray
  <2>2. used'.select = used.select /\ used'.late = used.late
    BY <1>17, SpendKept DEF LifecycleEnds, Disturb
  <2> QED
    BY <1>2, <1>4, <2>1, <2>2
<1>18. CASE ClineAsksNewTask
  <2>1. UNCHANGED late /\ Astray' = Astray
    BY <1>18 DEF ClineAsksNewTask, Astray
  <2>2. used'.select = used.select /\ used'.late = used.late
    BY <1>18, SpendKept DEF ClineAsksNewTask, Budget
  <2>3. selected \in Threads /\ thread' = Posted(selected, "handoff", selected)
    BY <1>18 DEF ClineAsksNewTask, TypeInv
  <2>4. IsFiniteSet(Strays') /\ T = S
    BY <1>1, <2>3, StrayWritten DEF Texts, S, T
  <2> QED
    BY <1>1, <1>2, <1>51, <2>1, <2>2, <2>4 DEF Fits
<1>19. CASE UserOpensThread
  <2>1. UNCHANGED <<thread, late>>
    BY <1>19 DEF UserOpensThread
  <2>2. used'.select = used.select + 1 /\ used'.late = used.late
    BY <1>19, SpendKept DEF UserOpensThread, Disturb
  <2> QED
    BY <1>1, <1>2, <1>3, <1>51, <2>1, <2>2 DEF Fits
<1>20. CASE UNCHANGED vars
  <2>1. Astray' = Astray
    BY <1>20 DEF vars, Astray
  <2> QED
    BY <1>2, <1>4, <1>20, <2>1 DEF vars
<1> QED
  BY <1>6, <1>7, <1>8, <1>9, <1>10, <1>11, <1>12, <1>13, <1>14, <1>15, <1>16, <1>17, <1>18,
     <1>19, <1>20 DEF Next, DeliverySteps, MonitorSteps

LEMMA StraysBounded == TypeInv /\ StrayInv => StraysAccounted
<1> SUFFICES ASSUME TypeInv, StrayInv PROVE StraysAccounted
  OBVIOUS
<1>1. /\ Cardinality(Strays) \in Nat /\ Len(late) \in Nat /\ Astray \in {0, 1}
      /\ used.select \in Nat /\ used.late \in Nat
  BY FS_CardinalityType DEF StrayInv, TypeInv, Astray
<1> QED
  BY <1>1 DEF StrayInv, StraysAccounted

\* Messages in threads they were not meant for are at most as many as the threads the
\* user opened and the calls that were given up and may still take effect, for any number
\* of threads and messages: the select before each send is what the count rests on.
THEOREM StraysPaidFor == Spec => []StraysAccounted
BY LineAlways, InitStrays, NextStrays, StraysBounded, PTL DEF Spec

------------------------------------------------------------------------------
(* The copies of a message.                                                 *)

Places(t, text) == {i \in DOMAIN thread[t] : thread[t][i] = Entry(text, t)}
Copies(t, text) == Cardinality(Places(t, text))

\* A delivery of this text to this thread waits, or is under way and not seen to arrive.
Arrived == call.pc = "confirm" /\ Seen
Owes(t, text) ==
  \E i \in DOMAIN line : line[i].to = t /\ line[i].text = text /\ ~(i = 1 /\ Arrived)
Owed(t, text) == IF Owes(t, text) THEN 1 ELSE 0

\* What the sender counted before it sent stands in the thread already.
PriorInv ==
  \A to \in Threads : \A text \in Texts :
    call.pc # "none" /\ Head(line).to = to /\ Head(line).text = text => call.prior <= CountOf(to, text)

\* Only the worker asks for corrections, and only of its thread.
ForInv ==
  /\ \A t \in Threads : \A i \in DOMAIN thread[t] :
       thread[t][i].text = "correct" => thread[t][i].for = WorkerThread
  /\ \A i \in DOMAIN late : late[i].text = "correct" => late[i].to = WorkerThread

LEMMA PlacesFinite ==
  ASSUME TypeInv, NEW t \in Threads, NEW text
  PROVE IsFiniteSet(Places(t, text)) /\ Copies(t, text) \in Nat
<1>1. thread[t] \in Seq(Entries)
  BY DEF TypeInv
<1>2. DOMAIN thread[t] = 1..Len(thread[t]) /\ Len(thread[t]) \in Nat
  BY <1>1
<1>3. IsFiniteSet(DOMAIN thread[t])
  BY <1>2, FS_Interval
<1>4. IsFiniteSet(Places(t, text))
  BY <1>3, FS_Subset DEF Places
<1> QED
  BY <1>4, FS_CardinalityType DEF Copies

\* One write is one more copy, or none.
LEMMA CopyWritten ==
  ASSUME TypeInv, NEW t \in Threads, NEW x \in Texts,
         NEW u \in Threads, NEW text \in Texts, NEW for \in Threads, thread' = Posted(u, text, for)
  PROVE /\ Copies(t, x)' \in Nat
        /\ u = t /\ text = x /\ for = t => Copies(t, x)' = Copies(t, x) + 1
        /\ ~(u = t /\ text = x /\ for = t) => Copies(t, x)' = Copies(t, x)
<1>1. /\ \A v \in Threads \ {u} : thread'[v] = thread[v]
      /\ \A i \in DOMAIN thread[u] : i \in DOMAIN thread'[u] /\ thread'[u][i] = thread[u][i]
      /\ thread'[u][Len(thread[u]) + 1] = Entry(text, for)
      /\ DOMAIN thread'[u] = DOMAIN thread[u] \cup {Len(thread[u]) + 1}
      /\ Len(thread[u]) + 1 \notin DOMAIN thread[u]
  BY PostedKept
<1>2. Entry(text, for) = Entry(x, t) <=> text = x /\ for = t
  BY DEF Entry
<1>3. IsFiniteSet(Places(t, x)) /\ Copies(t, x) \in Nat
  BY PlacesFinite
<1>4. ASSUME u = t, text = x, for = t PROVE Copies(t, x)' = Copies(t, x) + 1
  <2>1. Places(t, x)' = Places(t, x) \cup {Len(thread[u]) + 1}
    BY <1>1, <1>2, <1>4 DEF Places
  <2>2. Len(thread[u]) + 1 \notin Places(t, x)
    BY <1>1, <1>4 DEF Places
  <2>3. Cardinality(Places(t, x) \cup {Len(thread[u]) + 1}) = Cardinality(Places(t, x)) + 1
    BY <1>3, <2>2, FS_AddElement
  <2> QED
    BY <2>1, <2>3 DEF Copies
<1>5. ASSUME ~(u = t /\ text = x /\ for = t) PROVE Copies(t, x)' = Copies(t, x)
  <2>1. Places(t, x)' = Places(t, x)
    <3>1. CASE u = t
      BY <1>1, <1>2, <1>5, <3>1 DEF Places
    <3>2. CASE u # t
      BY <1>1, <3>2 DEF Places
    <3> QED
      BY <3>1, <3>2
  <2> QED
    BY <2>1 DEF Copies
<1> QED
  BY <1>3, <1>4, <1>5

LEMMA CopiesStay ==
  ASSUME UNCHANGED thread, NEW t, NEW x
  PROVE Copies(t, x)' = Copies(t, x) /\ CountOf(t, x)' = CountOf(t, x)
BY DEF Copies, Places, CountOf

\* Texts are found as often as before, or more often.
LEMMA CountGrows ==
  ASSUME TypeInv, LineInv, [Next]_vars, NEW t \in Threads, NEW x
  PROVE /\ CountOf(t, x) \in Nat /\ CountOf(t, x)' \in Nat /\ CountOf(t, x)' >= CountOf(t, x)
<1> DEFINE P == {i \in DOMAIN thread[t] : thread[t][i].text = x}
           Q == {i \in DOMAIN thread'[t] : thread'[t][i].text = x}
<1>1. /\ DOMAIN thread[t] = 1..Len(thread[t]) /\ DOMAIN thread'[t] = 1..Len(thread'[t])
      /\ Len(thread[t]) \in Nat /\ Len(thread'[t]) \in Nat /\ Len(thread[t]) <= Len(thread'[t])
      /\ \A i \in DOMAIN thread[t] : thread'[t][i] = thread[t][i]
  BY TranscriptsGrow
<1>2. P \subseteq Q
  BY <1>1
<1>3. IsFiniteSet(Q)
  <2>1. IsFiniteSet(DOMAIN thread'[t])
    BY <1>1, FS_Interval
  <2> QED
    BY <2>1, FS_Subset
<1>4. IsFiniteSet(P) /\ Cardinality(P) <= Cardinality(Q)
  BY <1>2, <1>3, FS_Subset
<1>5. Cardinality(P) \in Nat /\ Cardinality(Q) \in Nat
  BY <1>3, <1>4, FS_CardinalityType
<1>6. CountOf(t, x) = Cardinality(P) /\ CountOf(t, x)' = Cardinality(Q)
  BY DEF CountOf
<1> HIDE DEF P, Q
<1> QED
  BY <1>4, <1>5, <1>6

\* A call that goes on is made for the same delivery, and was counted before.
LEMMA CallGoesOn ==
  ASSUME TypeInv, LineInv, [Next]_vars, call'.pc # "none"
  PROVE \/ DeliveryStarts /\ call'.pc = "select"
           /\ call'.prior = CountOf(Head(line).to, Head(line).text) /\ UNCHANGED <<line, thread>>
        \/ call.pc # "none" /\ call'.prior = call.prior /\ Head(line') = Head(line)
<1>1. CASE DeliveryStarts
  BY <1>1 DEF DeliveryStarts
<1>2. CASE WorkerSends \/ MonitorPolls \/ MonitorSettles \/ MonitorMarksHandled
  <2>1. UNCHANGED call
    BY <1>2 DEF WorkerSends, MonitorPolls, MonitorSettles, MonitorMarksHandled
  <2> QED
    BY <1>2, <2>1, HeadUnderPolls
<1>3. CASE SelectsThread \/ SendsMessage \/ MissesMessage \/ Retries
  <2>1. call \in CallState /\ UNCHANGED line /\ call.pc # "none"
    BY <1>3, TypedNow DEF SelectsThread, SendsMessage, MissesMessage, Retries
  <2>2. call'.prior = call.prior
    BY <1>3, <2>1 DEF SelectsThread, SendsMessage, MissesMessage, Retries, CallState
  <2> QED
    BY <2>1, <2>2
<1>4. CASE ConfirmsDelivery \/ GivesUp \/ CallTimesOut \/ QueueAborts \/ HostReloads
  BY <1>4 DEF ConfirmsDelivery, GivesUp, CallTimesOut, QueueAborts, HostReloads, Delivered,
     Undelivered, NoCall
<1>5. CASE LandsLate \/ LifecycleEnds \/ ClineAsksNewTask \/ UserOpensThread \/ UNCHANGED vars
  BY <1>5 DEF LandsLate, LifecycleEnds, ClineAsksNewTask, UserOpensThread, vars
<1> QED
  BY <1>1, <1>2, <1>3, <1>4, <1>5 DEF Next, DeliverySteps, MonitorSteps

LEMMA NextPrior == TypeInv /\ LineInv /\ PriorInv /\ [Next]_vars => PriorInv'
<1> SUFFICES ASSUME TypeInv, LineInv, PriorInv, [Next]_vars, call'.pc # "none",
                    NEW to \in Threads, NEW text \in Texts,
                    Head(line').to = to, Head(line').text = text
             PROVE call'.prior <= CountOf(to, text)'
  BY DEF PriorInv
<1>1. /\ CountOf(to, text) \in Nat /\ CountOf(to, text)' \in Nat
      /\ CountOf(to, text)' >= CountOf(to, text)
  BY CountGrows
<1>2. CASE DeliveryStarts /\ call'.prior = CountOf(Head(line).to, Head(line).text)
           /\ UNCHANGED <<line, thread>>
  <2>1. call'.prior = CountOf(to, text)
    BY <1>2
  <2> QED
    BY <1>1, <2>1
<1>3. CASE call.pc # "none" /\ call'.prior = call.prior /\ Head(line') = Head(line)
  <2>1. call.prior \in Nat /\ call.prior <= CountOf(to, text)
    BY <1>3 DEF PriorInv, TypeInv
  <2> QED
    BY <1>1, <1>3, <2>1
<1> QED
  BY <1>2, <1>3, CallGoesOn

LEMMA SeenIs ==
  ASSUME NEW to, NEW text, Head(line).to = to, Head(line).text = text
  PROVE Seen <=> CountOf(to, text) > call.prior
BY DEF Seen

LEMMA SeenIsThen ==
  ASSUME NEW to, NEW text, Head(line').to = to, Head(line').text = text
  PROVE Seen' <=> CountOf(to, text)' > call'.prior
BY DEF Seen, CountOf

\* The message that is looked for stays found.
LEMMA ArrivedStays ==
  ASSUME TypeInv, LineInv, [Next]_vars, Arrived, UNCHANGED call
  PROVE Arrived'
<1>1. call.pc = "confirm" /\ call'.pc = "confirm" /\ call'.prior = call.prior
  BY DEF Arrived
<1>2. Head(line') = Head(line) /\ Head(line).to \in Threads
  BY <1>1, CallGoesOn, HeadTyped DEF DeliveryStarts, NoCall
<1>a. PICK to \in Threads : Head(line).to = to
  BY <1>2
<1>b. PICK text : Head(line).text = text
  OBVIOUS
<1>3. /\ CountOf(to, text) \in Nat /\ CountOf(to, text)' \in Nat
      /\ CountOf(to, text)' >= CountOf(to, text)
  BY CountGrows
<1>4. call.prior \in Nat /\ CountOf(to, text) > call.prior
  BY <1>a, <1>b, SeenIs DEF Arrived, TypeInv
<1>5. Head(line').to = to /\ Head(line').text = text
  BY <1>2, <1>a, <1>b
<1>6. CountOf(to, text)' > call'.prior
  BY <1>1, <1>3, <1>4
<1>7. Seen'
  BY <1>5, <1>6, SeenIsThen
<1> QED
  BY <1>1, <1>7 DEF Arrived

\* A delivery of a correction is put in line by the worker, one of a compaction by the
\* monitor that trips the breaker.
Sends(t, text) ==
  \/ WorkerSends /\ t = WorkerThread /\ text = "correct"
  \/ MonitorPolls /\ text = "compact" /\ \E m \in Due : Compacts(m) /\ m[1] = t

LEMMA OwesMoves ==
  ASSUME TypeInv, LineInv, [Next]_vars, NEW t \in Threads, NEW x \in {"correct", "compact"},
         Owes(t, x)'
  PROVE Owes(t, x) \/ Sends(t, x)
<1>1. PICK i \in DOMAIN line' : line'[i].to = t /\ line'[i].text = x /\ ~(i = 1 /\ Arrived')
  BY DEF Owes
<1>2. ASSUME UNCHANGED line, Arrived => Arrived' PROVE Owes(t, x)
  BY <1>1, <1>2 DEF Owes
<1>3. UNCHANGED call => (Arrived => Arrived')
  BY ArrivedStays
<1>4. ASSUME NEW job \in Jobs, Enqueue(job), UNCHANGED call, job.to # t \/ job.text # x
      PROVE Owes(t, x)
  <2>1. /\ DOMAIN line' = DOMAIN line \cup {Len(line) + 1} /\ line'[Len(line) + 1] = job
        /\ \A k \in DOMAIN line : line'[k] = line[k]
    BY <1>4, EnqueueKept
  <2>2. i \in DOMAIN line /\ line[i] = line'[i]
    BY <1>1, <1>4, <2>1
  <2> QED
    BY <1>1, <1>3, <1>4, <2>2 DEF Owes
<1>5. CASE DeliveryStarts \/ SelectsThread \/ SendsMessage \/ MissesMessage \/ Retries
  <2>1. ~Arrived /\ UNCHANGED line
    BY <1>5 DEF DeliveryStarts, SelectsThread, SendsMessage, MissesMessage, Retries, Arrived, NoCall
  <2> QED
    BY <1>2, <2>1
<1>6. CASE ConfirmsDelivery \/ GivesUp \/ CallTimesOut
  <2>1. line # <<>> /\ line' = Tail(line)
    BY <1>6, EndsKept DEF ConfirmsDelivery, GivesUp, CallTimesOut
  <2>2. i + 1 \in DOMAIN line /\ i + 1 # 1 /\ line'[i] = line[i + 1]
    BY <2>1, TailKept
  <2> QED
    BY <1>1, <2>2 DEF Owes
<1>7. CASE QueueAborts \/ HostReloads
  <2>1. line' = <<>>
    BY <1>7 DEF QueueAborts, HostReloads
  <2> QED
    BY <1>1, <2>1
<1>8. CASE WorkerSends
  <2>1. Job("worker", WorkerThread, "correct") \in Jobs
    BY DeliveryAssumption DEF Job, Jobs, Texts
  <2>2. Enqueue(Job("worker", WorkerThread, "correct")) /\ UNCHANGED call
    BY <1>8 DEF WorkerSends
  <2> QED
    BY <1>4, <1>8, <2>1, <2>2 DEF Job, Sends
<1>9. CASE MonitorPolls
  <2>1. PICK m \in Due : Suppresses(m) \/ Answers(m) \/ Compacts(m)
    BY <1>9 DEF MonitorPolls
  <2>2. Job("monitor", m[1], "continue") \in Jobs /\ Job("monitor", m[1], "compact") \in Jobs
    BY <2>1, AskingTyped DEF Due, Job, Jobs, Texts
  <2>3. CASE Suppresses(m)
    BY <1>2, <1>3, <1>9, <2>3 DEF MonitorPolls, Suppresses
  <2>4. CASE Answers(m)
    BY <1>4, <1>9, <2>2, <2>4 DEF MonitorPolls, Answers, Job
  <2>5. CASE Compacts(m)
    BY <1>4, <1>9, <2>1, <2>2, <2>5 DEF MonitorPolls, Compacts, Job, Sends
  <2> QED
    BY <2>1, <2>3, <2>4, <2>5
<1>10. CASE MonitorSettles
  <2>1. Job("monitor", monitor.marker[1], "continue") \in Jobs
    BY <1>10 DEF MonitorSettles, LineInv, Job, Jobs, Texts, Handoffs
  <2> QED
    BY <1>4, <1>10, <2>1 DEF MonitorSettles, Job
<1>11. CASE MonitorMarksHandled \/ LandsLate \/ LifecycleEnds \/ ClineAsksNewTask \/ UserOpensThread
            \/ UNCHANGED vars
  BY <1>2, <1>3, <1>11 DEF MonitorMarksHandled, LandsLate, LifecycleEnds, ClineAsksNewTask,
     UserOpensThread, vars
<1> QED
  BY <1>5, <1>6, <1>7, <1>8, <1>9, <1>10, <1>11 DEF Next, DeliverySteps, MonitorSteps

\* A message written into its own thread is owed no more: the texts of the deliveries in
\* line differ.
LEMMA WrittenIsNotOwed ==
  ASSUME TypeInv, LineInv, PriorInv, SendsMessage,
         NEW to \in Threads, NEW text \in Texts,
         Head(line).to = to, Head(line).text = text, selected = to
  PROVE ~Owes(to, text)'
<1>1. /\ Head(line) \in Jobs /\ Head(line) = line[1] /\ 1 \in DOMAIN line
  BY HeadTyped DEF SendsMessage, Jobs
<1>2. line' = line /\ call'.pc = "confirm" /\ call'.prior = call.prior
  BY DEF SendsMessage, TypeInv
<1>3. thread' = Posted(to, text, to)
  BY DEF SendsMessage
<1>4. CountOf(to, text) \in Nat /\ call.prior \in Nat /\ call.prior <= CountOf(to, text)
  BY <1>1, CountTyped DEF SendsMessage, PriorInv, TypeInv
<1>5. CountOf(to, text)' = CountOf(to, text) + 1
  <2> DEFINE n == Len(thread[to]) + 1
             P == {i \in DOMAIN thread[to] : thread[to][i].text = text}
             Q == {i \in DOMAIN thread'[to] : thread'[to][i].text = text}
  <2>1. /\ \A i \in DOMAIN thread[to] : i \in DOMAIN thread'[to] /\ thread'[to][i] = thread[to][i]
        /\ thread'[to][n] = Entry(text, to)
        /\ DOMAIN thread'[to] = DOMAIN thread[to] \cup {n}
        /\ n \notin DOMAIN thread[to]
    BY <1>1, <1>3, PostedKept
  <2>2. IsFiniteSet(P)
    <3>1. DOMAIN thread[to] = 1..Len(thread[to]) /\ Len(thread[to]) \in Nat
      BY <1>1 DEF TypeInv
    <3>2. IsFiniteSet(DOMAIN thread[to])
      BY <3>1, FS_Interval
    <3> QED
      BY <3>2, FS_Subset
  <2>3. Q = P \cup {n} /\ n \notin P
    BY <2>1 DEF Entry
  <2>4. CountOf(to, text) = Cardinality(P) /\ CountOf(to, text)' = Cardinality(Q)
    BY <1>2 DEF CountOf
  <2> HIDE DEF P, Q, n
  <2>5. Cardinality(P \cup {n}) = Cardinality(P) + 1
    BY <2>2, <2>3, FS_AddElement
  <2> QED
    BY <2>3, <2>4, <2>5
<1>6. CountOf(to, text)' > call'.prior
  BY <1>2, <1>4, <1>5
<1>7. Head(line').to = to /\ Head(line').text = text
  BY <1>2
<1>8. \A i \in DOMAIN line : line[i].text = text => i = 1
  <2>1. line \in Seq(Jobs)
    BY DEF TypeInv
  <2>2. \A i \in DOMAIN line : line[i] \in Jobs
    BY <2>1
  <2>3. \A i \in DOMAIN line : line[i].by = "worker" <=> line[i].text = "correct"
    BY <2>2 DEF LineInv, Jobs
  <2>4. \A i \in DOMAIN line : line[i].by = "monitor" <=> line[i].text # "correct"
    BY <2>2, <2>3 DEF Jobs
  <2> QED
    BY <1>1, <2>3, <2>4 DEF LineInv
<1>9. Seen'
  BY <1>6, <1>7, SeenIsThen
<1>10. Arrived'
  BY <1>2, <1>9 DEF Arrived
<1> QED
  BY <1>2, <1>8, <1>10 DEF Owes

Weight(t, text) == Copies(t, text) + Len(late) + Owed(t, text)

\* A call that may still take effect costs one that was given up.
LEMMA LateMoves ==
  ASSUME TypeInv, LineInv, [Next]_vars
  PROVE /\ Len(late) \in Nat /\ Len(late') \in Nat /\ used.late \in Nat /\ used'.late \in Nat
        /\ Len(late') + used.late <= Len(late) + used'.late
        /\ LandsLate => Len(late') + 1 = Len(late) /\ used'.late = used.late
        /\ UNCHANGED late => used'.late >= used.late
<1>1. Len(late) \in Nat /\ used.late \in Nat
  BY DEF TypeInv
<1>2. Len(late') \in Nat /\ used'.late \in Nat
  <2>1. TypeInv'
    BY NextTypes
  <2> QED
    BY <2>1 DEF TypeInv
<1>3. ASSUME NEW lands \in BOOLEAN, LeavesBehind(lands)
      PROVE \/ UNCHANGED late /\ used'.late = used.late
            \/ Len(late') = Len(late) + 1 /\ used'.late = used.late + 1
  BY <1>3, LeavesKept
<1>4. CASE MissesMessage \/ CallTimesOut \/ QueueAborts
  <2>1. ~LandsLate
    BY <1>4 DEF MissesMessage, CallTimesOut, QueueAborts, LandsLate, Undelivered, NoCall, LineInv,
       TypeInv, Watching
  <2> QED
    BY <1>1, <1>2, <1>3, <1>4, <2>1 DEF MissesMessage, CallTimesOut, QueueAborts
<1>5. CASE LandsLate
  <2>1. late # <<>> /\ late \in Seq(LateCalls) /\ late' = Tail(late) /\ used' = used
    BY <1>5, TypedNow DEF LandsLate
  <2>2. Len(late') = Len(late) - 1 /\ used'.late = used.late
    BY <2>1, HeadTailProperties
  <2>3. ~(UNCHANGED late)
    BY <1>1, <2>2
  <2> QED
    BY <1>1, <1>2, <2>2, <2>3
<1>6. CASE HostReloads
  <2>1. late' = <<>> /\ used'.late = used.late
    BY <1>6, SpendKept DEF HostReloads, Disturb
  <2>2. Len(late') = 0
    BY <2>1
  <2>3. LandsLate => Len(late) = 1
    <3> SUFFICES ASSUME LandsLate PROVE Len(late) = 1
      OBVIOUS
    <3>1. late # <<>> /\ late \in Seq(LateCalls) /\ late' = Tail(late)
      BY TypedNow DEF LandsLate
    <3>2. Len(late') = Len(late) - 1
      BY <3>1, HeadTailProperties
    <3> QED
      BY <1>1, <2>2, <3>2
  <2> QED
    BY <1>1, <1>2, <2>1, <2>2, <2>3
<1>7. CASE WorkerSends \/ LifecycleEnds \/ ClineAsksNewTask \/ UserOpensThread
  <2>1. UNCHANGED late /\ used'.late = used.late
    BY <1>7, SpendKept DEF WorkerSends, Budget, LifecycleEnds, Disturb, ClineAsksNewTask,
       UserOpensThread
  <2> QED
    BY <1>1, <1>2, <1>5, <2>1
<1>8. CASE DeliverySteps \/ MonitorSteps \/ UNCHANGED vars
  <2>1. UNCHANGED <<late, used>>
    BY <1>8 DEF DeliverySteps, MonitorSteps, DeliveryStarts, SelectsThread, SendsMessage, Retries,
       ConfirmsDelivery, GivesUp, MonitorPolls, MonitorSettles, MonitorMarksHandled, vars
  <2> QED
    BY <1>1, <1>2, <1>5, <2>1
<1> QED
  BY <1>4, <1>5, <1>6, <1>7, <1>8 DEF Next

LEMMA WeightMoves ==
  ASSUME TypeInv, LineInv, PriorInv, [Next]_vars, NEW t \in Threads,
         NEW x \in {"correct", "compact"}
  PROVE /\ Weight(t, x) \in Nat /\ Weight(t, x)' \in Nat
        /\ used.late \in Nat /\ used'.late \in Nat
        /\ Weight(t, x)' + used.late <= Weight(t, x) + used'.late + (IF Sends(t, x) THEN 1 ELSE 0)
<1> DEFINE C == Copies(t, x)
           D == Copies(t, x)'
           L == Len(late)
           M == Len(late')
           O == Owed(t, x)
           P == Owed(t, x)'
           joins == IF Sends(t, x) THEN 1 ELSE 0
           Fits == D + M + P + used.late <= C + L + O + used'.late + joins
<1>1. /\ L \in Nat /\ M \in Nat /\ used.late \in Nat /\ used'.late \in Nat
      /\ M + used.late <= L + used'.late
      /\ LandsLate => M + 1 = L /\ used'.late = used.late
      /\ UNCHANGED late => used'.late >= used.late
  BY LateMoves
<1>2. C \in Nat
  BY PlacesFinite
<1>3. O \in {0, 1} /\ P \in {0, 1} /\ joins \in {0, 1}
  BY DEF Owed
<1>4. P <= O + joins
  <2>1. CASE Owes(t, x)'
    BY <1>3, <2>1, OwesMoves DEF Owed
  <2>2. CASE ~Owes(t, x)'
    BY <1>3, <2>2 DEF Owed
  <2> QED
    BY <2>1, <2>2
<1>5. x \in Texts
  BY DEF Texts
<1>6. UNCHANGED thread => D = C
  BY CopiesStay
<1>7. D \in Nat
  <2>1. \A u \in Threads : \A text \in Texts : \A for \in Threads :
          thread' = Posted(u, text, for) => D \in Nat
    BY <1>5, CopyWritten
  <2> QED
    BY <1>2, <1>6, <2>1, Writers, DeliveryAssumption DEF Jobs, LateCalls, Texts, TypeInv
<1>8. CASE UNCHANGED thread
  <2>1. D = C
    BY <1>6, <1>8
  <2> HIDE DEF C, D, L, M, O, P, joins
  <2>2. Fits
    BY <1>1, <1>2, <1>3, <1>4, <2>1
  <2> QED
    BY <1>1, <1>2, <1>3, <1>7, <2>2 DEF Weight, C, D, L, M, O, P, joins
<1>9. CASE /\ SendsMessage /\ Head(line) \in Jobs
           /\ thread' = Posted(selected, Head(line).text, Head(line).to)
  <2>1. PICK to \in Threads : Head(line).to = to
    BY <1>9, DeliveryAssumption DEF Jobs
  <2>2. PICK text \in Texts : Head(line).text = text
    BY <1>9 DEF Jobs
  <2>3. selected \in Threads /\ thread' = Posted(selected, text, to)
    BY <1>9, <2>1, <2>2 DEF TypeInv
  <2>4. UNCHANGED late
    BY <1>9 DEF SendsMessage
  <2>5. CASE selected = t /\ text = x /\ to = t
    <3>1. D = C + 1
      BY <1>5, <2>3, <2>5, CopyWritten
    <3>2. P = 0
      BY <1>9, <2>1, <2>2, <2>5, WrittenIsNotOwed DEF Owed
    <3>3. O = 1
      <4>1. line[1].to = t /\ line[1].text = x /\ 1 \in DOMAIN line
        BY <1>9, <2>1, <2>2, <2>5, HeadTyped DEF SendsMessage
      <4>2. ~Arrived
        BY <1>9 DEF SendsMessage, Arrived
      <4> QED
        BY <4>1, <4>2 DEF Owed, Owes
    <3>4. M = L
      BY <2>4
    <3> HIDE DEF C, D, L, M, O, P, joins
    <3>5. Fits
      BY <1>1, <1>2, <1>3, <2>4, <3>1, <3>2, <3>3, <3>4
    <3> QED
      BY <1>1, <1>2, <1>3, <1>7, <3>5 DEF Weight, C, D, L, M, O, P, joins
  <2>6. CASE ~(selected = t /\ text = x /\ to = t)
    <3>1. D = C
      BY <1>5, <2>3, <2>6, CopyWritten
    <3> HIDE DEF C, D, L, M, O, P, joins
    <3>2. Fits
      BY <1>1, <1>2, <1>3, <1>4, <3>1
    <3> QED
      BY <1>1, <1>2, <1>3, <1>7, <3>2 DEF Weight, C, D, L, M, O, P, joins
  <2> QED
    BY <2>5, <2>6
<1>10. CASE /\ LandsLate /\ Head(late) \in LateCalls
            /\ thread' = Posted(selected, Head(late).text, Head(late).to)
  <2>1. D <= C + 1
    <3>1. PICK to \in Threads : Head(late).to = to
      BY <1>10, DeliveryAssumption DEF LateCalls
    <3>2. PICK text \in Texts : Head(late).text = text
      BY <1>10 DEF LateCalls
    <3>3. selected \in Threads /\ thread' = Posted(selected, text, to)
      BY <1>10, <3>1, <3>2 DEF TypeInv
    <3>4. D = C + 1 \/ D = C
      BY <1>5, <3>3, CopyWritten
    <3> HIDE DEF C, D
    <3> QED
      BY <1>2, <3>4
  <2> HIDE DEF C, D, L, M, O, P, joins
  <2>2. Fits
    BY <1>1, <1>2, <1>3, <1>4, <1>7, <1>10, <2>1
  <2> QED
    BY <1>1, <1>2, <1>3, <1>7, <2>2 DEF Weight, C, D, L, M, O, P, joins
<1>11. CASE ClineAsksNewTask /\ thread' = Posted(selected, "handoff", selected)
  <2>1. "handoff" \in Texts /\ selected \in Threads /\ "handoff" # x
    BY DEF Texts, TypeInv
  <2>2. D = C
    BY <1>5, <1>11, <2>1, CopyWritten
  <2> HIDE DEF C, D, L, M, O, P, joins
  <2>3. Fits
    BY <1>1, <1>2, <1>3, <1>4, <2>2
  <2> QED
    BY <1>1, <1>2, <1>3, <1>7, <2>3 DEF Weight, C, D, L, M, O, P, joins
<1> QED
  BY <1>8, <1>9, <1>10, <1>11, Writers

LEMMA HeadFor ==
  ASSUME TypeInv, LineInv, line # <<>>, Head(line).text = "correct"
  PROVE Head(line).to = WorkerThread
<1>1. Head(line) \in Jobs /\ Head(line) = line[1] /\ 1 \in DOMAIN line
  BY HeadTyped
<1>2. Head(line).by = "worker"
  BY <1>1 DEF LineInv, Jobs
<1> QED
  BY <1>1, <1>2 DEF LineInv

LEMMA NextFor == TypeInv /\ LineInv /\ ForInv /\ [Next]_vars => ForInv'
<1> SUFFICES ASSUME TypeInv, LineInv, ForInv, [Next]_vars PROVE ForInv'
  OBVIOUS
<1>1. late \in Seq(LateCalls)
  BY TypedNow
<1>2. ASSUME NEW text \in Texts, NEW for \in Threads, thread' = Posted(selected, text, for),
             text = "correct" => for = WorkerThread,
             NEW t \in Threads, NEW i \in DOMAIN thread'[t], thread'[t][i].text = "correct"
      PROVE thread'[t][i].for = WorkerThread
  <2>1. selected \in Threads
    BY DEF TypeInv
  <2>2. /\ \A u \in Threads \ {selected} : thread'[u] = thread[u]
        /\ \A k \in DOMAIN thread[selected] : thread'[selected][k] = thread[selected][k]
        /\ thread'[selected][Len(thread[selected]) + 1] = Entry(text, for)
        /\ DOMAIN thread'[selected] = DOMAIN thread[selected] \cup {Len(thread[selected]) + 1}
    BY <1>2, <2>1, PostedKept
  <2>3. CASE t # selected
    BY <1>2, <2>2, <2>3 DEF ForInv
  <2>4. CASE t = selected /\ i \in DOMAIN thread[selected]
    BY <1>2, <2>2, <2>4 DEF ForInv
  <2>5. CASE t = selected /\ i = Len(thread[selected]) + 1
    BY <1>2, <2>2, <2>5 DEF Entry
  <2> QED
    BY <1>2, <2>2, <2>3, <2>4, <2>5
<1>3. ASSUME NEW t \in Threads, NEW i \in DOMAIN thread'[t], thread'[t][i].text = "correct"
      PROVE thread'[t][i].for = WorkerThread
  <2>1. CASE UNCHANGED thread
    BY <1>3, <2>1 DEF ForInv
  <2>2. CASE /\ SendsMessage /\ Head(line) \in Jobs
             /\ thread' = Posted(selected, Head(line).text, Head(line).to)
    <3>1. line # <<>>
      BY <2>2, HeadTyped DEF SendsMessage
    <3>2. Head(line).text = "correct" => Head(line).to = WorkerThread
      BY <3>1, HeadFor
    <3>3. Head(line).text \in Texts /\ Head(line).to \in Threads
      BY <2>2, DeliveryAssumption DEF Jobs
    <3> QED
      BY <1>2, <1>3, <2>2, <3>2, <3>3
  <2>3. CASE /\ LandsLate /\ late # <<>> /\ Head(late) \in LateCalls
             /\ thread' = Posted(selected, Head(late).text, Head(late).to)
    <3>1. Head(late) = late[1] /\ 1 \in DOMAIN late
      BY <1>1, <2>3, EmptySeq
    <3>2. Head(late).text = "correct" => Head(late).to = WorkerThread
      BY <3>1 DEF ForInv
    <3>3. Head(late).text \in Texts /\ Head(late).to \in Threads
      BY <2>3, DeliveryAssumption DEF LateCalls
    <3> QED
      BY <1>2, <1>3, <2>3, <3>2, <3>3
  <2>4. CASE ClineAsksNewTask /\ thread' = Posted(selected, "handoff", selected)
    <3>1. "handoff" \in Texts /\ selected \in Threads
      BY DEF Texts, TypeInv
    <3> QED
      BY <1>2, <1>3, <2>4, <3>1
  <2> QED
    BY <2>1, <2>2, <2>3, <2>4, Writers
<1>4. ASSUME NEW lands \in BOOLEAN, LeavesBehind(lands),
             NEW i \in DOMAIN late', late'[i].text = "correct"
      PROVE late'[i].to = WorkerThread
  <2>1. CASE UNCHANGED late
    BY <1>4, <2>1 DEF ForInv
  <2>2. CASE line # <<>> /\ late' = Append(late, [call |-> call.pc, to |-> Head(line).to,
                                                 text |-> Head(line).text])
    <3> DEFINE entry == [call |-> call.pc, to |-> Head(line).to, text |-> Head(line).text]
    <3>1. entry.text = Head(line).text /\ entry.to = Head(line).to
      OBVIOUS
    <3>2. late' = Append(late, entry)
      BY <2>2
    <3> HIDE DEF entry
    <3>3. (i \in DOMAIN late /\ late'[i] = late[i]) \/ late'[i] = entry
      BY <1>1, <1>4, <3>2
    <3>4. CASE i \in DOMAIN late /\ late'[i] = late[i]
      BY <1>4, <3>4 DEF ForInv
    <3>5. CASE late'[i] = entry
      BY <1>4, <2>2, <3>1, <3>5, HeadFor
    <3> QED
      BY <3>3, <3>4, <3>5
  <2> QED
    BY <1>4, <2>1, <2>2, LeavesKept
<1>5. ASSUME NEW i \in DOMAIN late', late'[i].text = "correct"
      PROVE late'[i].to = WorkerThread
  <2>1. CASE MissesMessage \/ CallTimesOut \/ QueueAborts
    BY <1>4, <1>5, <2>1 DEF MissesMessage, CallTimesOut, QueueAborts
  <2>2. CASE LandsLate
    <3>1. late # <<>> /\ late' = Tail(late)
      BY <2>2 DEF LandsLate
    <3>2. i + 1 \in DOMAIN late /\ late'[i] = late[i + 1]
      BY <1>1, <1>5, <3>1, EmptySeq, HeadTailProperties
    <3> QED
      BY <1>5, <3>2 DEF ForInv
  <2>3. CASE HostReloads
    BY <1>5, <2>3 DEF HostReloads
  <2>4. CASE UNCHANGED late
    BY <1>5, <2>4 DEF ForInv
  <2> QED
    BY <2>1, <2>2, <2>3, <2>4 DEF Next, vars, DeliverySteps, MonitorSteps, DeliveryStarts,
       SelectsThread, SendsMessage, Retries, ConfirmsDelivery, GivesUp, MonitorPolls,
       MonitorSettles, MonitorMarksHandled, WorkerSends, LifecycleEnds, ClineAsksNewTask,
       UserOpensThread
<1> QED
  BY <1>3, <1>5 DEF ForInv

\* Each correction in the worker's thread, waiting, or still to take effect was paid for
\* by a message of the worker or a call that was given up.
CopyInv == Weight(WorkerThread, "correct") <= used.message + used.late

\* Each compaction of a thread likewise by the trip of its breaker, once in a lifecycle,
\* or by a call that was given up.
Untripped(t) == IF t \in compacted THEN 0 ELSE 1
CompactInv ==
  \A t \in Threads : Weight(t, "compact") + Untripped(t) <= 1 + used.reset + used.late

LEMMA InitCopies == Init => PriorInv /\ ForInv /\ CopyInv /\ CompactInv
<1> SUFFICES ASSUME Init PROVE PriorInv /\ ForInv /\ CopyInv /\ CompactInv
  OBVIOUS
<1>1. PriorInv
  BY DEF Init, PriorInv, NoCall
<1>2. ASSUME NEW t \in Threads, NEW i \in DOMAIN thread[t] PROVE thread[t][i] = Entry("task", t)
  <2>1. thread[t] = <<Entry("task", t)>>
    BY DEF Init
  <2> QED
    BY <2>1
<1>3. \A t \in Threads : \A i \in DOMAIN thread[t] : thread[t][i].text = "task"
  <2> SUFFICES ASSUME NEW t \in Threads, NEW i \in DOMAIN thread[t] PROVE thread[t][i].text = "task"
    OBVIOUS
  <2>1. thread[t][i] = Entry("task", t)
    BY <1>2
  <2> QED
    BY <2>1 DEF Entry
<1>4. ForInv
  BY <1>3 DEF Init, ForInv
<1>5. ASSUME NEW t \in Threads, NEW x \in {"correct", "compact"} PROVE Weight(t, x) = 0
  <2>1. Places(t, x) = {}
    BY <1>3 DEF Places, Entry
  <2>2. Copies(t, x) = 0
    BY <2>1, FS_EmptySet DEF Copies
  <2>3. Len(late) = 0 /\ Owed(t, x) = 0
    BY DEF Init, Owed, Owes
  <2> QED
    BY <2>2, <2>3 DEF Weight
<1>6. used.message = 0 /\ used.late = 0 /\ used.reset = 0
  BY DEF Init
<1>7. CopyInv
  BY <1>5, <1>6, DeliveryAssumption DEF CopyInv
<1>8. CompactInv
  BY <1>5, <1>6 DEF CompactInv, Untripped
<1> QED
  BY <1>1, <1>4, <1>7, <1>8

\* Messages and lifecycles are only ever counted up.
LEMMA CountedUp ==
  ASSUME TypeInv, LineInv, [Next]_vars
  PROVE /\ used.message \in Nat /\ used'.message \in Nat /\ used.reset \in Nat /\ used'.reset \in Nat
        /\ used'.message >= used.message + (IF WorkerSends THEN 1 ELSE 0)
        /\ used'.reset >= used.reset + (IF LifecycleEnds THEN 1 ELSE 0)
<1>1. used.message \in Nat /\ used.reset \in Nat
  BY DEF TypeInv
<1>2. CASE WorkerSends
  <2>1. used'.message = used.message + 1 /\ used'.reset = used.reset
    BY <1>2, SpendKept DEF WorkerSends, Budget
  <2>2. ~LifecycleEnds
    <3>1. LifecycleEnds => used'.message = used.message
      BY SpendKept DEF LifecycleEnds, Disturb
    <3> QED
      BY <1>1, <2>1, <3>1
  <2> QED
    BY <1>1, <1>2, <2>1, <2>2
<1>3. CASE LifecycleEnds
  <2>1. used'.message = used.message /\ used'.reset = used.reset + 1
    BY <1>3, SpendKept DEF LifecycleEnds, Disturb
  <2>2. ~WorkerSends
    <3>1. WorkerSends => used'.message = used.message + 1
      BY SpendKept DEF WorkerSends, Budget
    <3> QED
      BY <1>1, <2>1, <3>1
  <2> QED
    BY <1>1, <1>3, <2>1, <2>2
<1>4. CASE ~WorkerSends /\ ~LifecycleEnds
  <2>1. used'.message = used.message /\ used'.reset = used.reset
    <3>1. CASE MissesMessage \/ CallTimesOut \/ QueueAborts
      BY <3>1, LeavesKept DEF MissesMessage, CallTimesOut, QueueAborts
    <3>2. CASE HostReloads \/ ClineAsksNewTask \/ UserOpensThread
      BY <3>2, SpendKept DEF HostReloads, ClineAsksNewTask, UserOpensThread, Disturb, Budget
    <3>3. CASE UNCHANGED used
      BY <3>3
    <3> QED
      BY <1>4, <3>1, <3>2, <3>3 DEF Next, vars, DeliverySteps, MonitorSteps, DeliveryStarts,
         SelectsThread, SendsMessage, Retries, ConfirmsDelivery, GivesUp, MonitorPolls,
         MonitorSettles, MonitorMarksHandled, LandsLate
  <2> QED
    BY <1>1, <1>4, <2>1
<1> QED
  BY <1>2, <1>3, <1>4

LEMMA NextCopies == TypeInv /\ LineInv /\ PriorInv /\ CopyInv /\ [Next]_vars => CopyInv'
<1> SUFFICES ASSUME TypeInv, LineInv, PriorInv, CopyInv, [Next]_vars PROVE CopyInv'
  OBVIOUS
<1> DEFINE W == Weight(WorkerThread, "correct")
           V == Weight(WorkerThread, "correct")'
           sends == IF Sends(WorkerThread, "correct") THEN 1 ELSE 0
<1>1. /\ W \in Nat /\ V \in Nat /\ used.late \in Nat /\ used'.late \in Nat
      /\ V + used.late <= W + used'.late + sends
  BY WeightMoves, DeliveryAssumption
<1>2. /\ used.message \in Nat /\ used'.message \in Nat
      /\ used'.message >= used.message + sends
  <2>1. Sends(WorkerThread, "correct") <=> WorkerSends
    BY DEF Sends
  <2> QED
    BY <2>1, CountedUp
<1>3. W <= used.message + used.late /\ sends \in {0, 1}
  BY DEF CopyInv
<1> HIDE DEF W, V, sends
<1>4. V <= used'.message + used'.late
  BY <1>1, <1>2, <1>3
<1> QED
  BY <1>4 DEF CopyInv, V

LEMMA NextCompact == TypeInv /\ LineInv /\ PriorInv /\ CompactInv /\ [Next]_vars => CompactInv'
<1> SUFFICES ASSUME TypeInv, LineInv, PriorInv, CompactInv, [Next]_vars, NEW t \in Threads
             PROVE Weight(t, "compact")' + Untripped(t)' <= 1 + used'.reset + used'.late
  BY DEF CompactInv
<1> DEFINE W == Weight(t, "compact")
           V == Weight(t, "compact")'
           sends == IF Sends(t, "compact") THEN 1 ELSE 0
           U == Untripped(t)
           X == Untripped(t)'
<1>1. /\ W \in Nat /\ V \in Nat /\ used.late \in Nat /\ used'.late \in Nat
      /\ V + used.late <= W + used'.late + sends
  BY WeightMoves
<1>2. /\ used.reset \in Nat /\ used'.reset \in Nat /\ used'.reset >= used.reset
      /\ LifecycleEnds => used'.reset >= used.reset + 1
  BY CountedUp
<1>3. W + U <= 1 + used.reset + used.late
  BY DEF CompactInv
<1>4. sends \in {0, 1} /\ U \in {0, 1} /\ X \in {0, 1}
  BY DEF Untripped
<1>5. Sends(t, "compact") => U = 1 /\ X = 0
  <2> SUFFICES ASSUME Sends(t, "compact") PROVE U = 1 /\ X = 0
    OBVIOUS
  <2>1. PICK m \in Due : Compacts(m) /\ m[1] = t
    BY DEF Sends
  <2>2. t \notin compacted /\ t \in compacted'
    BY <2>1 DEF Compacts, Policy
  <2> QED
    BY <2>2 DEF Untripped
<1>6. LifecycleEnds => ~Sends(t, "compact")
  <2> SUFFICES ASSUME LifecycleEnds, Sends(t, "compact") PROVE FALSE
    OBVIOUS
  <2>1. PICK m \in Due : Compacts(m) /\ m[1] = t
    BY DEF Sends
  <2> QED
    BY <2>1 DEF Compacts, LifecycleEnds
<1>7. ~LifecycleEnds => compacted \subseteq compacted'
  BY DEF Next, vars, DeliverySteps, MonitorSteps, DeliveryStarts, SelectsThread, SendsMessage,
     Retries, ConfirmsDelivery, GivesUp, MonitorPolls, Suppresses, Answers, Compacts,
     MonitorSettles, MonitorMarksHandled, LandsLate, WorkerSends, MissesMessage, CallTimesOut,
     QueueAborts, HostReloads, ClineAsksNewTask, UserOpensThread
<1>8. ~LifecycleEnds => X <= U
  BY <1>7 DEF Untripped
<1>9. ~Sends(t, "compact") => sends = 0
  OBVIOUS
<1> HIDE DEF W, V, sends, U, X
<1>10. CASE Sends(t, "compact")
  BY <1>1, <1>2, <1>3, <1>4, <1>5, <1>10 DEF V, X
<1>11. CASE LifecycleEnds
  BY <1>1, <1>2, <1>3, <1>4, <1>6, <1>9, <1>11 DEF V, X
<1>12. CASE ~LifecycleEnds /\ ~Sends(t, "compact")
  BY <1>1, <1>2, <1>3, <1>4, <1>8, <1>9, <1>12 DEF V, X
<1> QED
  BY <1>10, <1>11, <1>12

CountsInv == PriorInv /\ ForInv /\ CopyInv /\ CompactInv

LEMMA CountsAlways == Spec => []CountsInv
<1>1. Init => CountsInv
  BY InitCopies DEF CountsInv
<1>2. TypeInv /\ LineInv /\ CountsInv /\ [Next]_vars => CountsInv'
  BY NextPrior, NextFor, NextCopies, NextCompact DEF CountsInv
<1> QED
  BY <1>1, <1>2, LineAlways, PTL DEF Spec

LEMMA CopiesBounded == TypeInv /\ CountsInv => CopiesAccounted /\ CompactsOnce
<1> SUFFICES ASSUME TypeInv, CountsInv PROVE CopiesAccounted /\ CompactsOnce
  OBVIOUS
<1>1. Len(late) \in Nat /\ used.message \in Nat /\ used.late \in Nat /\ used.reset \in Nat
  BY DEF TypeInv
<1>2. \A t \in Threads : \A x : Copies(t, x) \in Nat /\ Owed(t, x) \in {0, 1}
  BY PlacesFinite DEF Owed
<1>3. CopiesAccounted
  <2>1. WorkerThread \in Threads
    BY DeliveryAssumption
  <2>2. {i \in DOMAIN thread[WorkerThread] : thread[WorkerThread][i].text = "correct"}
          = Places(WorkerThread, "correct")
    <3>1. \A i \in DOMAIN thread[WorkerThread] :
            thread[WorkerThread][i].text = "correct"
              <=> thread[WorkerThread][i] = Entry("correct", WorkerThread)
      <4> SUFFICES ASSUME NEW i \in DOMAIN thread[WorkerThread]
                   PROVE thread[WorkerThread][i].text = "correct"
                           <=> thread[WorkerThread][i] = Entry("correct", WorkerThread)
        OBVIOUS
      <4>1. thread[WorkerThread] \in Seq(Entries)
        BY <2>1 DEF TypeInv
      <4>2. thread[WorkerThread][i] \in Entries
        BY <4>1
      <4>3. thread[WorkerThread][i].text = "correct" => thread[WorkerThread][i].for = WorkerThread
        BY <2>1 DEF CountsInv, ForInv
      <4> QED
        BY <4>2, <4>3 DEF Entries, Entry
    <3> QED
      BY <3>1 DEF Places
  <2>3. CountOf(WorkerThread, "correct") = Copies(WorkerThread, "correct")
    BY <2>2 DEF CountOf, Copies
  <2> QED
    BY <1>1, <1>2, <2>1, <2>3 DEF CopiesAccounted, CountsInv, CopyInv, Weight
<1>4. CompactsOnce
  <2> SUFFICES ASSUME NEW t \in Threads PROVE Copies(t, "compact") <= 1 + used.reset + used.late
    BY DEF CompactsOnce, Copies, Places
  <2> QED
    BY <1>1, <1>2 DEF CountsInv, CompactInv, Weight, Untripped
<1> QED
  BY <1>3, <1>4

\* The worker's messages stand in its thread at most as often as it sent them, but for the
\* calls that were given up, for any number of attempts: a message is sent again only
\* when it was looked for and not found.
THEOREM CopiesPaidFor == Spec => []CopiesAccounted
BY LineAlways, CountsAlways, CopiesBounded, PTL

\* A thread is compacted once in a lifecycle, but for the calls that were given up: the
\* breaker is saved before its message is put in line, and no abort, reload or failure
\* takes it back.
THEOREM CompactedOnce == Spec => []CompactsOnce
BY LineAlways, CountsAlways, CopiesBounded, PTL
=============================================================================
