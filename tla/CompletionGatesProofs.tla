------------------------- MODULE CompletionGatesProofs -------------------------
(***************************************************************************)
(* What the gates keep true for any limits, any length of a thread and any *)
(* number of failures and restarts.                                        *)
(***************************************************************************)
EXTENDS CompletionGates, FiniteSetTheorems, SequenceTheorems, WellFoundedInduction, TLAPS

------------------------------------------------------------------------------
(* The scans of a transcript.                                               *)

\* Some place is the last one of a set of places: the greatest element of a bounded set of
\* numbers exists because the distances from the bound are well-founded.
LEMMA LastExists ==
  ASSUME NEW n \in Nat, NEW I \in SUBSET (1..n), I # {}
  PROVE \E m \in I : \A j \in I : m >= j
<1> DEFINE D == {n - i : i \in I}
<1>1. D \subseteq Nat /\ D # {}
  <2>1. PICK i \in I : TRUE
    OBVIOUS
  <2>2. n - i \in D
    BY <2>1
  <2>3. \A j \in I : n - j \in Nat
    OBVIOUS
  <2> QED
    BY <2>2, <2>3
<1>2. PICK d \in D : \A e \in D : ~(<<e, d>> \in OpToRel(<, Nat))
  BY <1>1, NatLessThanWellFounded, WFMin
<1>3. PICK m \in I : d = n - m
  BY <1>2
<1>4. ASSUME NEW j \in I PROVE m >= j
  <2>1. n - j \in D /\ n - j \in Nat /\ d \in Nat
    BY <1>1
  <2>2. ~(n - j < d)
    BY <1>2, <2>1 DEF OpToRel
  <2> QED
    BY <1>3, <2>2
<1> QED
  BY <1>4

\* A transcript opens with a thread.
Log(s) == s \in Seq(Entries) /\ Len(s) >= 1 /\ s[1] = "task"

LEMMA LogIs ==
  ASSUME NEW s, Log(s)
  PROVE /\ Len(s) \in Nat /\ 1 \in 1..Len(s) /\ Len(s) \in 1..Len(s) /\ DOMAIN s = 1..Len(s)
        /\ \A i \in 1..Len(s) : s[i] \in Entries
        /\ Last(s) = s[Len(s)]
BY DEF Log, Last

\* The last place of a kind of entry that the transcript has.
LEMMA LastInIs ==
  ASSUME NEW s, Log(s), NEW K, \E i \in 1..Len(s) : s[i] \in K
  PROVE /\ LastIn(s, K) \in 1..Len(s) /\ s[LastIn(s, K)] \in K
        /\ \A j \in 1..Len(s) : s[j] \in K => j <= LastIn(s, K)
<1> DEFINE I == {i \in 1..Len(s) : s[i] \in K}
           x == LastIn(s, K)
<1>1. DOMAIN s = 1..Len(s) /\ Len(s) \in Nat
  BY LogIs
<1>2. PICK m \in I : \A j \in I : m >= j
  BY <1>1, LastExists
<1>3. s[m] \in K /\ \A j \in (m + 1)..Len(s) : s[j] \notin K
  <2>1. ASSUME NEW j \in (m + 1)..Len(s), s[j] \in K PROVE FALSE
    BY <1>1, <1>2, <2>1
  <2> QED
    BY <1>2, <2>1
<1>4. x \in DOMAIN s /\ s[x] \in K /\ \A j \in (x + 1)..Len(s) : s[j] \notin K
  BY <1>1, <1>2, <1>3 DEF LastIn
<1> HIDE DEF x
<1>5. ASSUME NEW j \in 1..Len(s), s[j] \in K PROVE j <= x
  <2>1. j \notin (x + 1)..Len(s)
    BY <1>4, <1>5
  <2> QED
    BY <1>1, <1>4, <2>1
<1> QED
  BY <1>1, <1>4, <1>5 DEF x

\* The newest thread begins at its last opening.
LEMMA ThreadStartIs ==
  ASSUME NEW s, Log(s)
  PROVE /\ ThreadStart(s) \in 1..Len(s) /\ s[ThreadStart(s)] = "task"
        /\ \A j \in 1..Len(s) : s[j] = "task" => j <= ThreadStart(s)
<1>1. \E i \in 1..Len(s) : s[i] \in {"task"}
  BY LogIs DEF Log
<1>2. /\ ThreadStart(s) \in 1..Len(s) /\ s[ThreadStart(s)] \in {"task"}
      /\ \A j \in 1..Len(s) : s[j] \in {"task"} => j <= ThreadStart(s)
  BY <1>1, LastInIs DEF ThreadStart
<1> QED
  BY <1>2

\* The last entry of some kind in the newest thread, if there is one.
LEMMA LastOfIs ==
  ASSUME NEW s, Log(s), NEW K, "task" \notin K
  PROVE /\ LastOf(s, K) \in 0..Len(s)
        /\ LastOf(s, K) # 0 => /\ LastOf(s, K) > ThreadStart(s) /\ s[LastOf(s, K)] \in K
        /\ \A j \in 1..Len(s) : j > ThreadStart(s) /\ s[j] \in K => j <= LastOf(s, K)
<1> DEFINE x == LastIn(s, K \cup {"task"})
           t == ThreadStart(s)
<1>1. \E i \in 1..Len(s) : s[i] \in K \cup {"task"}
  BY LogIs DEF Log
<1>2. LastOf(s, K) = IF s[x] \in K THEN x ELSE 0
  BY DEF LastOf
<1>3. Len(s) \in Nat
  BY LogIs
<1>4. /\ x \in 1..Len(s) /\ s[x] \in K \cup {"task"}
      /\ \A j \in 1..Len(s) : s[j] \in K \cup {"task"} => j <= x
  BY <1>1, LastInIs
<1>5. t \in 1..Len(s) /\ s[t] = "task" /\ \A j \in 1..Len(s) : s[j] = "task" => j <= t
  BY ThreadStartIs
<1> HIDE DEF x, t
<1>6. x \in 1..Len(s) /\ x >= t /\ \A j \in 1..Len(s) : s[j] \in K => j <= x
  BY <1>4, <1>5
<1>7. CASE s[x] \in K
  <2>1. x # t /\ LastOf(s, K) = x
    BY <1>2, <1>5, <1>7
  <2> QED
    BY <1>3, <1>5, <1>6, <1>7, <2>1 DEF t
<1>8. CASE s[x] \notin K
  <2>1. s[x] = "task" /\ x <= t /\ LastOf(s, K) = 0
    BY <1>2, <1>4, <1>5, <1>8
  <2>2. x = t
    BY <1>5, <1>6, <2>1
  <2> QED
    BY <1>3, <1>5, <1>6, <1>8, <2>1, <2>2 DEF t
<1> QED
  BY <1>7, <1>8

\* What one more entry changes.
Adds(s, e, r) == r = Append(s, e)

LEMMA EntryAdded ==
  ASSUME NEW s, Log(s), NEW e \in Entries, NEW r, Adds(s, e, r)
  PROVE /\ Log(r) /\ Len(r) = Len(s) + 1 /\ r[Len(r)] = e /\ Last(r) = e
        /\ \A i \in 1..Len(s) : r[i] = s[i]
        /\ e = "task" => ThreadStart(r) = Len(r)
        /\ e # "task" => ThreadStart(r) = ThreadStart(s)
<1>1. s \in Seq(Entries) /\ Len(s) \in Nat /\ Len(s) >= 1 /\ s[1] = "task"
  BY DEF Log
<1>2. /\ r \in Seq(Entries) /\ Len(r) = Len(s) + 1 /\ r[Len(s) + 1] = e
      /\ \A i \in 1..Len(s) : r[i] = s[i]
  BY <1>1 DEF Adds
<1>3. Log(r) /\ r[Len(r)] = e
  BY <1>1, <1>2 DEF Log
<1>4. Last(r) = e
  BY <1>3, LogIs
<1>5. /\ ThreadStart(r) \in 1..Len(r) /\ r[ThreadStart(r)] = "task"
      /\ \A j \in 1..Len(r) : r[j] = "task" => j <= ThreadStart(r)
  BY <1>3, ThreadStartIs
<1>6. /\ ThreadStart(s) \in 1..Len(s) /\ s[ThreadStart(s)] = "task"
      /\ \A j \in 1..Len(s) : s[j] = "task" => j <= ThreadStart(s)
  BY ThreadStartIs
<1> DEFINE t == ThreadStart(s)
           u == ThreadStart(r)
           n == Len(s)
           m == Len(r)
<1> HIDE DEF t, u, n, m
<1>7. CASE e = "task"
  <2>1. u >= m
    BY <1>1, <1>2, <1>3, <1>5, <1>7 DEF u, m
  <2>2. u = m
    BY <1>1, <1>2, <1>5, <2>1 DEF u, m
  <2> QED
    BY <1>2, <1>3, <1>4, <1>7, <2>2 DEF u, m
<1>8. CASE e # "task"
  <2>1. u # m /\ u \in 1..n
    BY <1>1, <1>2, <1>3, <1>5, <1>8 DEF u, m, n
  <2>2. s[u] = "task" /\ u <= t
    BY <1>2, <1>5, <1>6, <2>1 DEF u, m, n, t
  <2>3. t <= u
    BY <1>1, <1>2, <1>5, <1>6 DEF u, m, n, t
  <2>4. u = t
    BY <1>1, <1>6, <2>1, <2>2, <2>3 DEF t, n
  <2> QED
    BY <1>2, <1>3, <1>4, <1>8, <2>4 DEF u, t
<1> QED
  BY <1>7, <1>8

LEMMA LastOfAdded ==
  ASSUME NEW s, Log(s), NEW e \in Entries, NEW r, Adds(s, e, r), NEW K, "task" \notin K
  PROVE /\ e = "task" => LastOf(r, K) = 0
        /\ e \in K => LastOf(r, K) = Len(r)
        /\ e # "task" /\ e \notin K => LastOf(r, K) = LastOf(s, K)
<1>1. /\ Log(r) /\ Len(r) = Len(s) + 1 /\ r[Len(r)] = e
      /\ \A i \in 1..Len(s) : r[i] = s[i]
      /\ e = "task" => ThreadStart(r) = Len(r)
      /\ e # "task" => ThreadStart(r) = ThreadStart(s)
  BY EntryAdded
<1> DEFINE a == LastOf(s, K)
           b == LastOf(r, K)
           t == ThreadStart(s)
           u == ThreadStart(r)
           n == Len(s)
<1>2. /\ b \in 0..(n + 1)
      /\ b # 0 => b > u /\ r[b] \in K
      /\ \A j \in 1..(n + 1) : j > u /\ r[j] \in K => j <= b
  BY <1>1, LastOfIs
<1>3. /\ a \in 0..n
      /\ a # 0 => a > t /\ s[a] \in K
      /\ \A j \in 1..n : j > t /\ s[j] \in K => j <= a
  BY LastOfIs
<1>4. n \in Nat /\ n >= 1 /\ t \in 1..n
  BY LogIs, ThreadStartIs DEF Log
<1>5. /\ Len(r) = n + 1 /\ r[n + 1] = e /\ \A i \in 1..n : r[i] = s[i]
      /\ e = "task" => u = n + 1
      /\ e # "task" => u = t
  BY <1>1
<1> HIDE DEF a, b, t, u, n
<1>6. CASE e = "task"
  <2>1. b = 0
    BY <1>2, <1>4, <1>5, <1>6
  <2> QED
    BY <1>6, <2>1 DEF b
<1>7. CASE e \in K
  <2>1. b = n + 1 /\ e # "task"
    BY <1>2, <1>4, <1>5, <1>7
  <2> QED
    BY <1>5, <1>7, <2>1 DEF b
<1>8. CASE e # "task" /\ e \notin K
  <2>1. b # n + 1
    BY <1>2, <1>4, <1>5, <1>8
  <2>2. CASE b # 0
    <3>1. b \in 1..n /\ s[b] \in K /\ b > t
      BY <1>2, <1>4, <1>5, <1>8, <2>1, <2>2
    <3>2. b <= a /\ a # 0
      BY <1>3, <1>4, <3>1
    <3>3. r[a] \in K /\ a > u /\ a \in 1..(n + 1)
      BY <1>3, <1>4, <1>5, <1>8, <3>2
    <3>4. a <= b
      BY <1>2, <3>3
    <3>5. a = b
      BY <1>3, <3>1, <3>2, <3>4
    <3> QED
      BY <1>8, <3>5 DEF a, b
  <2>3. CASE b = 0
    <3>1. a = 0
      <4> SUFFICES ASSUME a # 0 PROVE FALSE
        OBVIOUS
      <4>1. a \in 1..(n + 1) /\ a > u /\ r[a] \in K
        BY <1>3, <1>4, <1>5, <1>8
      <4> QED
        BY <1>2, <1>3, <1>4, <1>5, <1>8, <2>3, <4>1
    <3> QED
      BY <1>8, <2>3, <3>1 DEF a, b
  <2> QED
    BY <2>2, <2>3
<1> QED
  BY <1>6, <1>7, <1>8

------------------------------------------------------------------------------
(* Types.                                                                   *)

Pendings == [kind : {"none", "overflow", "failure"}, marker : Nat]
Errors == {"none", "yolo", "mistakes", "timeout", "limit", "call"}
Items ==
  [state : {"running", "completed", "failed"}, error : Errors, pending : Pendings,
   marker : Nat, recovery : Nat, failure : Nat, timeout : Nat, scope : Nat,
   claims : Nat \cup {-1}, unchanged : Nat, stuck : Nat, handled : BOOLEAN,
   verified : BOOLEAN, rounds : Nat, reflected : BOOLEAN, yolo : Nat, fresh : Nat]
Uses == [work : Nat, trouble : Nat, user : Nat, disturbance : Nat]

\* The markers of a record that are entries of a transcript of this length.
Within(it, n) ==
  /\ it.marker <= n /\ it.recovery <= n /\ it.failure <= n /\ it.timeout <= n
  /\ it.scope <= n /\ it.pending.marker <= n /\ it.yolo <= n /\ it.fresh <= n

TypeInv ==
  /\ Log(log) /\ live \in BOOLEAN /\ recovering \in BOOLEAN
  /\ item \in Items /\ Within(item, Len(log))
  /\ steps \in Seq(Token) /\ used \in Uses
  /\ seen \in Nat /\ seen <= Len(log) /\ request \in Nat /\ request <= Len(log)

LEMMA TypesImplied == TypeInv => TypeOK
<1> SUFFICES ASSUME TypeInv PROVE TypeOK
  OBVIOUS
<1>1. log \in Seq(Entries) /\ log # <<>>
  BY EmptySeq DEF TypeInv, Log
<1>2. \A m \in {item.marker, item.recovery, item.failure, item.timeout, item.scope,
               item.pending.marker, item.yolo, item.fresh, seen, request} : m <= Len(log)
  BY DEF TypeInv, Within
<1> QED
  BY <1>1, <1>2 DEF TypeInv, TypeOK, Items, Errors, Pendings, Uses

LEMMA InitTypes == Init => TypeInv
<1> SUFFICES ASSUME Init PROVE TypeInv
  OBVIOUS
<1>1. log = <<"task">> /\ "task" \in Entries
  BY DEF Init, Entries
<1>2. log \in Seq(Entries) /\ Len(log) = 1 /\ log[1] = "task"
  BY <1>1
<1>3. item \in Items /\ Within(item, 1)
  BY DEF Init, NewItem, NoPending, Items, Errors, Pendings, Within
<1>4. steps \in Seq(Token)
  BY EmptySeq DEF Init
<1> QED
  <2>1. used \in Uses
    BY DEF Init, Uses
  <2>2. live \in BOOLEAN /\ recovering \in BOOLEAN /\ seen = 0 /\ request = 0
    BY DEF Init
  <2> QED
    BY <1>2, <1>3, <1>4, <2>1, <2>2 DEF TypeInv, Log

\* The fields of a record that the gates start from.
LEMMA SupersededIs ==
  ASSUME TypeInv
  PROVE /\ Superseded \in Items /\ Within(Superseded, Len(log))
        /\ Superseded.state = item.state /\ Superseded.pending = NoPending
        /\ Superseded.error \in {item.error, "none"}
        /\ Superseded.marker = item.marker /\ Superseded.recovery = item.recovery
        /\ Superseded.failure = item.failure /\ Superseded.timeout = item.timeout
        /\ Superseded.scope = item.scope /\ Superseded.claims = item.claims
        /\ Superseded.unchanged = item.unchanged /\ Superseded.stuck = item.stuck
        /\ Superseded.handled = item.handled /\ Superseded.verified = item.verified
        /\ Superseded.rounds = item.rounds /\ Superseded.reflected = item.reflected
        /\ Superseded.yolo = item.yolo /\ Superseded.fresh = item.fresh
<1>1. item \in Items /\ Within(item, Len(log)) /\ Len(log) \in Nat
  BY LogIs DEF TypeInv
<1>2. NoPending \in Pendings /\ NoPending.marker = 0
  BY DEF NoPending, Pendings
<1>3. CASE item.pending = NoPending
  BY <1>1, <1>3 DEF Superseded
<1>4. CASE item.pending # NoPending
  <2>1. Superseded = [item EXCEPT !.pending = NoPending, !.error = "none"]
    BY <1>4 DEF Superseded
  <2>2. Superseded \in Items
    BY <1>1, <1>2, <2>1 DEF Items, Errors
  <2>3. /\ Superseded.state = item.state /\ Superseded.pending = NoPending
        /\ Superseded.error = "none"
        /\ Superseded.marker = item.marker /\ Superseded.recovery = item.recovery
        /\ Superseded.failure = item.failure /\ Superseded.timeout = item.timeout
        /\ Superseded.scope = item.scope /\ Superseded.claims = item.claims
        /\ Superseded.unchanged = item.unchanged /\ Superseded.stuck = item.stuck
        /\ Superseded.handled = item.handled /\ Superseded.verified = item.verified
        /\ Superseded.rounds = item.rounds /\ Superseded.reflected = item.reflected
        /\ Superseded.yolo = item.yolo /\ Superseded.fresh = item.fresh
    BY <1>1, <2>1 DEF Items
  <2>4. Within(Superseded, Len(log))
    BY <1>1, <1>2, <2>3 DEF Within
  <2> QED
    BY <2>2, <2>3, <2>4
<1> QED
  BY <1>3, <1>4

ClaimsCounted ==
  1 + (IF item.claims # -1 THEN item.claims ELSE IF item.marker # 0 THEN 1 ELSE 0)

\* The record after the audit of a report that is unfinished.
LEMMA AuditedIs ==
  ASSUME TypeInv
  PROVE /\ Audited \in Items /\ Within(Audited, Len(log))
        /\ Audited.state = item.state /\ Audited.pending = NoPending
        /\ Audited.error \in {item.error, "none"}
        /\ Audited.marker = Len(log)
        /\ Audited.claims = ClaimsCounted /\ ClaimsCounted \in Nat
        /\ Audited.unchanged = (IF ClaimsCounted <= 2 THEN item.unchanged
                                ELSE IF Activity THEN 0 ELSE item.unchanged + 1)
        /\ Audited.failure = item.failure
        /\ Audited.handled = item.handled /\ Audited.verified = item.verified
        /\ Audited.rounds = item.rounds /\ Audited.reflected = item.reflected
        /\ Audited.yolo = item.yolo /\ Audited.fresh = item.fresh
<1> DEFINE it == Superseded
           claims == ClaimsCounted
           stuck == IF Activity THEN 0 ELSE it.stuck + 1
           unchanged == IF claims <= 2 THEN it.unchanged
                        ELSE IF Activity THEN 0 ELSE it.unchanged + 1
           marker == Len(log)
<1>1. Audited = [it EXCEPT !.claims = claims, !.stuck = stuck, !.marker = marker,
                           !.unchanged = unchanged]
  BY DEF Audited, CompletionMarker, ClaimsCounted
<1>2. /\ it \in Items /\ Within(it, Len(log)) /\ it.state = item.state /\ it.pending = NoPending
      /\ it.error \in {item.error, "none"}
      /\ it.unchanged = item.unchanged /\ it.failure = item.failure
      /\ it.handled = item.handled /\ it.verified = item.verified
      /\ it.rounds = item.rounds /\ it.reflected = item.reflected
      /\ it.yolo = item.yolo /\ it.fresh = item.fresh
  BY SupersededIs
<1>3. claims \in Nat
  BY DEF TypeInv, Items, ClaimsCounted
<1>4. stuck \in Nat /\ unchanged \in Nat
  <2>1. it.stuck \in Nat /\ it.unchanged \in Nat
    BY <1>2 DEF Items
  <2> QED
    BY <2>1
<1>5. marker \in Nat /\ marker <= Len(log)
  BY LogIs DEF TypeInv
<1>6. unchanged = IF claims <= 2 THEN item.unchanged
                  ELSE IF Activity THEN 0 ELSE item.unchanged + 1
  BY <1>2
<1> HIDE DEF it, claims, stuck, unchanged, marker
<1>7. /\ Audited \in Items /\ Within(Audited, Len(log))
      /\ Audited.state = it.state /\ Audited.pending = it.pending
      /\ Audited.error = it.error
      /\ Audited.marker = marker /\ Audited.claims = claims /\ Audited.unchanged = unchanged
      /\ Audited.failure = it.failure
      /\ Audited.handled = it.handled /\ Audited.verified = it.verified
      /\ Audited.rounds = it.rounds /\ Audited.reflected = it.reflected
      /\ Audited.yolo = it.yolo /\ Audited.fresh = it.fresh
  BY <1>1, <1>2, <1>3, <1>4, <1>5 DEF Items, Within
<1> QED
  BY <1>2, <1>3, <1>6, <1>7 DEF marker, claims

LEMMA AcceptableIs ==
  ASSUME TypeInv
  PROVE /\ Acceptable \in Items /\ Within(Acceptable, Len(log))
        /\ Acceptable.state = item.state /\ Acceptable.pending = NoPending
        /\ Acceptable.error \in {item.error, "none"}
        /\ Acceptable.marker = item.marker /\ Acceptable.failure = item.failure
        /\ Acceptable.handled = item.handled /\ Acceptable.verified = item.verified
        /\ Acceptable.rounds = item.rounds /\ Acceptable.reflected = item.reflected
        /\ Acceptable.unchanged = item.unchanged /\ Acceptable.claims = item.claims
        /\ Acceptable.yolo = item.yolo /\ Acceptable.fresh = item.fresh
<1> DEFINE it == Superseded
           stuck == IF Activity THEN 0 ELSE it.stuck
<1>1. Acceptable = [it EXCEPT !.stuck = stuck]
  BY DEF Acceptable
<1>2. /\ it \in Items /\ Within(it, Len(log)) /\ it.state = item.state /\ it.pending = NoPending
      /\ it.error \in {item.error, "none"} /\ it.marker = item.marker
      /\ it.failure = item.failure /\ it.unchanged = item.unchanged
      /\ it.claims = item.claims
      /\ it.handled = item.handled /\ it.verified = item.verified
      /\ it.rounds = item.rounds /\ it.reflected = item.reflected
      /\ it.yolo = item.yolo /\ it.fresh = item.fresh
  BY SupersededIs
<1>3. stuck \in Nat
  BY <1>2 DEF Items
<1> HIDE DEF it, stuck
<1> QED
  BY <1>1, <1>2, <1>3 DEF Items, Within

------------------------------------------------------------------------------
(* Every step keeps the types.                                              *)

LEMMA Tokens ==
  /\ Requests \subseteq Token
  /\ {"ended", "escalate", "request", "settle", "deliver", "noteDelivered", "noteVerify",
      "noteReflect", "newTask", "noteFresh", "restart", "observe", "delay", "pending",
      "recovered"} \subseteq Token
  /\ {"scope", "timeoutFix", "compact", "continue", "diagnose", "goOn", "correct", "stuck",
      "recommend", "verify", "reflect"} = Requests
BY DEF Token, Requests, GateRequests

LEMMA Plans ==
  /\ <<>> \in Seq(Token) /\ Ended \in Seq(Token) /\ Recover \in Seq(Token)
  /\ Fresh \in Seq(Token) /\ CompactAndContinue \in Seq(Token) /\ Continuation \in Seq(Token)
  /\ Restarted \in Seq(Token)
BY Tokens, EmptySeq DEF Ended, Recover, Fresh, CompactAndContinue, Continuation, Restarted

\* A step of the worker that leaves the transcript alone.
LEMMA QuietTypes ==
  ASSUME TypeInv, UNCHANGED <<log, used>>, live' \in BOOLEAN, recovering' \in BOOLEAN,
         item' \in Items, Within(item', Len(log)), steps' \in Seq(Token),
         seen' \in Nat, seen' <= Len(log), request' \in Nat, request' <= Len(log)
  PROVE TypeInv'
BY DEF TypeInv

\* A step that adds one entry and leaves the record alone.
LEMMA EntryTypes ==
  ASSUME TypeInv, NEW e \in Entries, log' = Append(log, e),
         UNCHANGED <<item, seen, recovering, request>>,
         live' \in BOOLEAN, steps' \in Seq(Token), used' \in Uses
  PROVE TypeInv'
<1>1. Log(log) /\ Adds(log, e, log')
  BY DEF TypeInv, Adds
<1>2. Log(log') /\ Len(log') = Len(log) + 1 /\ Len(log) \in Nat
  <2>1. PICK r : r = log'
    OBVIOUS
  <2>2. Adds(log, e, r)
    BY <1>1, <2>1
  <2> QED
    BY <1>1, <2>1, <2>2, EntryAdded, LogIs
<1>3. Within(item, Len(log'))
  BY <1>2, SMTT(30) DEF TypeInv, Within, Items, Pendings
<1> QED
  BY <1>2, <1>3 DEF TypeInv

LEMMA FailureIs ==
  ASSUME Log(log), UnresolvedTaskFailure(log) # 0
  PROVE /\ UnresolvedTaskFailure(log) = LastOf(log, Failures)
        /\ UnresolvedTaskFailure(log) \in 1..Len(log)
        /\ log[UnresolvedTaskFailure(log)] \in Failures
<1>1. UnresolvedTaskFailure(log) = LastOf(log, Failures)
  BY DEF UnresolvedTaskFailure
<1>2. "task" \notin Failures
  BY DEF Failures
<1> QED
  BY <1>1, <1>2, LastOfIs

LEMMA MarkerIs ==
  ASSUME Log(log), NEW K, "task" \notin K
  PROVE LastOf(log, K) \in Nat /\ LastOf(log, K) <= Len(log)
BY LastOfIs, LogIs

LEMMA GatesTypes == TypeInv /\ Gates => TypeInv'
<1> SUFFICES ASSUME TypeInv, Gates PROVE TypeInv'
  OBVIOUS
<1> USE Plans
<1>1. /\ live \in BOOLEAN /\ recovering \in BOOLEAN /\ seen \in Nat /\ seen <= Len(log)
      /\ request \in Nat /\ request <= Len(log) /\ Log(log)
      /\ item \in Items /\ Within(item, Len(log))
      /\ Len(log) \in Nat
  BY LogIs DEF TypeInv
<1>2. ASSUME item' \in Items, Within(item', Len(log)), steps' \in Seq(Token),
             UNCHANGED <<log, live, recovering, request, used>>,
             seen' \in {seen, Len(log)}
      PROVE TypeInv'
  BY <1>1, <1>2, QuietTypes
<1>3. /\ Superseded \in Items /\ Within(Superseded, Len(log))
      /\ Audited \in Items /\ Within(Audited, Len(log))
      /\ Acceptable \in Items /\ Within(Acceptable, Len(log))
  BY SupersededIs, AuditedIs, AcceptableIs
<1>4. CASE GateDone
  <2>1. item' = [[Superseded EXCEPT !.error = "none"] EXCEPT !.state = "completed"]
    BY <1>4 DEF GateDone, Finishes
  <2>2. item' \in Items /\ Within(item', Len(log))
    BY <1>3, <2>1 DEF Items, Errors, Within
  <2> QED
    BY <1>2, <1>4, <2>2 DEF GateDone, Finishes
<1>5. CASE GateOverflow
  <2> DEFINE marker == LatestContextOverflow(log)
  <2>1. marker \in Nat /\ marker <= Len(log)
    BY <1>1, MarkerIs DEF LatestContextOverflow
  <2>2. item' = [item EXCEPT !.recovery = marker, !.pending = Pending("overflow", marker)]
    BY <1>5 DEF GateOverflow
  <2> HIDE DEF marker
  <2>3. Pending("overflow", marker) \in Pendings /\ Pending("overflow", marker).marker = marker
    BY <2>1 DEF Pending, Pendings
  <2>4. item' \in Items /\ Within(item', Len(log))
    BY <1>1, <2>1, <2>2, <2>3 DEF Items, Within
  <2> QED
    BY <1>2, <1>5, <2>4 DEF GateOverflow
<1>6. CASE GateFailure /\ Observed = "task_failed"
  <2> DEFINE marker == UnresolvedTaskFailure(log)
  <2>1. marker # 0
    BY <1>6 DEF Observed, New
  <2>2. marker \in Nat /\ marker <= Len(log) /\ log[marker] \in Errors
    BY <1>1, <2>1, FailureIs DEF Errors, Failures
  <2>3. item' = [item EXCEPT !.failure = marker, !.error = log[marker],
                             !.pending = Pending("failure", marker)]
    BY <1>6 DEF GateFailure
  <2> HIDE DEF marker
  <2>4. Pending("failure", marker) \in Pendings /\ Pending("failure", marker).marker = marker
    BY <2>2 DEF Pending, Pendings
  <2>5. item' \in Items /\ Within(item', Len(log))
    BY <1>1, <2>2, <2>3, <2>4 DEF Items, Within
  <2>6. steps' \in Seq(Token)
    BY <1>6, Tokens DEF GateFailure
  <2> QED
    BY <1>2, <1>6, <2>5, <2>6 DEF GateFailure
<1>7. CASE GateTimeout
  <2> DEFINE marker == CompletionMarker(log)
  <2>1. marker \in Nat /\ marker <= Len(log)
    BY <1>1 DEF CompletionMarker
  <2>2. item' = [Superseded EXCEPT !.timeout = marker, !.error = "timeout"]
    BY <1>7 DEF GateTimeout
  <2> HIDE DEF marker
  <2>3. item' \in Items /\ Within(item', Len(log))
    BY <1>3, <2>1, <2>2 DEF Items, Errors, Within
  <2>4. steps' \in Seq(Token)
    BY <1>7, Tokens DEF GateTimeout
  <2> QED
    BY <1>2, <1>7, <2>3, <2>4 DEF GateTimeout
<1>8. CASE GateScope
  <2> DEFINE marker == ScopeViolation(log)
  <2>1. marker \in Nat /\ marker <= Len(log)
    BY <1>1, MarkerIs DEF ScopeViolation
  <2>2. item' = [Superseded EXCEPT !.scope = marker]
    BY <1>8 DEF GateScope
  <2> HIDE DEF marker
  <2>3. item' \in Items /\ Within(item', Len(log))
    BY <1>3, <2>1, <2>2 DEF Items, Within
  <2>4. steps' \in Seq(Token)
    BY <1>8, Tokens DEF GateScope
  <2> QED
    BY <1>2, <1>8, <2>3, <2>4 DEF GateScope
<1>9. CASE GateAuditFails
  <2>1. item' = [[Audited EXCEPT !.error = "limit"] EXCEPT !.state = "failed"]
    BY <1>9 DEF GateAuditFails, Finishes
  <2>2. item' \in Items /\ Within(item', Len(log))
    BY <1>3, <2>1 DEF Items, Errors, Within
  <2> QED
    BY <1>2, <1>9, <2>2 DEF GateAuditFails, Finishes
<1>10. CASE GateAuditCorrects
  <2>1. steps' \in Seq(Token)
    BY <1>10, Tokens DEF GateAuditCorrects
  <2> QED
    BY <1>2, <1>3, <1>10, <2>1 DEF GateAuditCorrects
<1>11. CASE GateRecommend
  <2> DEFINE marker == CompletionMarker(log)
  <2>1. marker \in Nat /\ marker <= Len(log)
    BY <1>1 DEF CompletionMarker
  <2>2. item' = [Acceptable EXCEPT !.handled = TRUE, !.marker = marker]
    BY <1>11 DEF GateRecommend
  <2> HIDE DEF marker
  <2>3. item' \in Items /\ Within(item', Len(log))
    BY <1>3, <2>1, <2>2 DEF Items, Within
  <2>4. steps' \in Seq(Token)
    BY <1>11, Tokens DEF GateRecommend
  <2> QED
    BY <1>2, <1>11, <2>3, <2>4 DEF GateRecommend
<1>12. CASE GateVerify
  <2>1. steps' \in Seq(Token) /\ seen' = Len(log)
    BY <1>12, Tokens DEF GateVerify, CompletionMarker
  <2> QED
    BY <1>2, <1>3, <1>12, <2>1 DEF GateVerify
<1>13. CASE GateReflect
  <2>1. steps' \in Seq(Token) /\ seen' = Len(log)
    BY <1>13, Tokens DEF GateReflect, CompletionMarker
  <2> QED
    BY <1>2, <1>3, <1>13, <2>1 DEF GateReflect
<1>14. CASE GateFinish
  <2>1. item' = [Acceptable EXCEPT !.state = "completed"]
    BY <1>14 DEF GateFinish, Finishes
  <2>2. item' \in Items /\ Within(item', Len(log))
    BY <1>3, <2>1 DEF Items, Within
  <2> QED
    BY <1>2, <1>14, <2>2 DEF GateFinish, Finishes
<1> QED
  BY <1>4, <1>5, <1>6, <1>7, <1>8, <1>9, <1>10, <1>11, <1>12, <1>13, <1>14 DEF Gates

LEMMA WorkerTypes == TypeInv /\ WorkerSteps => TypeInv'
<1> SUFFICES ASSUME TypeInv, WorkerSteps PROVE TypeInv'
  OBVIOUS
<1> USE Plans
<1>1. /\ live \in BOOLEAN /\ recovering \in BOOLEAN /\ seen \in Nat /\ seen <= Len(log)
      /\ request \in Nat /\ request <= Len(log) /\ Log(log)
      /\ item \in Items /\ Within(item, Len(log)) /\ used \in Uses
      /\ steps \in Seq(Token) /\ Len(log) \in Nat
  BY LogIs DEF TypeInv
<1>2. ASSUME steps # <<>> PROVE Tail(steps) \in Seq(Token)
  BY <1>1, <1>2
<1>3. ASSUME NEW plan \in Seq(Token), steps # <<>> PROVE plan \o Tail(steps) \in Seq(Token)
  BY <1>2, <1>3, ConcatProperties
<1>4. ASSUME item' \in Items, Within(item', Len(log)), steps' \in Seq(Token),
             UNCHANGED <<log, live, seen, used>>, recovering' \in BOOLEAN,
             request' \in {request, item.pending.marker}
      PROVE TypeInv'
  <2>1. item.pending.marker \in Nat /\ item.pending.marker <= Len(log)
    BY <1>1 DEF Items, Pendings, Within
  <2> QED
    BY <1>1, <1>4, <2>1, QuietTypes
<1>5. /\ NoPending \in Pendings /\ NoPending.marker = 0
      /\ item.pending.marker \in Nat /\ item.pending.marker <= Len(log)
  BY <1>1 DEF NoPending, Pendings, Items, Within
<1>6. CASE Escalate
  <2>1. CASE YoloRestartRequired
    <3>1. item' = [item EXCEPT !.yolo = item.pending.marker] /\ steps' = <<"request">>
      BY <1>6, <2>1 DEF Escalate
    <3>2. item' \in Items /\ Within(item', Len(log))
      BY <1>1, <1>5, <3>1 DEF Items, Within
    <3>3. steps' \in Seq(Token)
      BY <3>1, Tokens
    <3> QED
      BY <1>1, <1>4, <1>6, <3>2, <3>3 DEF Escalate
  <2>2. CASE ~YoloRestartRequired
    BY <1>1, <1>4, <1>6, <2>2 DEF Escalate
  <2> QED
    BY <2>1, <2>2
<1>7. CASE WriteRestartRequest
  BY <1>1, <1>4, <1>7 DEF WriteRestartRequest
<1>8. CASE Send
  <2>1. PICK e \in Requests : log' = Append(log, e)
    BY <1>8 DEF Send
  <2>2. e \in Entries
    BY DEF Entries, Feedback
  <2> QED
    BY <1>1, <1>2, <1>8, <2>1, <2>2, EntryTypes DEF Send
<1>9. CASE Settle
  BY <1>1, <1>2, <1>4, <1>9 DEF Settle, At
<1>10. CASE Deliver
  BY <1>1, <1>4, <1>10 DEF Deliver
<1>11. CASE NoteDelivered
  <2>1. item' = [item EXCEPT !.pending = NoPending, !.error = "none"]
    BY <1>11 DEF NoteDelivered
  <2> DEFINE none == NoPending
  <2> HIDE DEF none
  <2>3. none \in Pendings /\ none.marker = 0 /\ item' = [item EXCEPT !.pending = none, !.error = "none"]
    BY <1>5, <2>1 DEF none
  <2>4. item' \in Items
    BY <1>1, <2>3 DEF Items, Errors
  <2>5. /\ item'.marker = item.marker /\ item'.recovery = item.recovery
        /\ item'.failure = item.failure /\ item'.timeout = item.timeout
        /\ item'.scope = item.scope /\ item'.pending = none
        /\ item'.yolo = item.yolo /\ item'.fresh = item.fresh
    BY <1>1, <2>3 DEF Items
  <2>2. Within(item', Len(log))
    BY <1>1, <2>3, <2>5 DEF Within
  <2> QED
    BY <1>1, <1>2, <1>4, <1>11, <2>2, <2>4 DEF NoteDelivered, At
<1>12. StuckAtClaim \in Nat
  BY <1>1 DEF StuckAtClaim, Items
<1>13. CASE NoteVerify
  <2>1. item' = [item EXCEPT !.verified = TRUE, !.rounds = item.rounds + 1,
                             !.marker = seen, !.stuck = StuckAtClaim]
    BY <1>13 DEF NoteVerify
  <2> DEFINE rounds == item.rounds + 1
             stuck == StuckAtClaim
  <2>2. rounds \in Nat /\ stuck \in Nat
    <3>1. item.rounds \in Nat
      BY <1>1 DEF Items
    <3> QED
      BY <1>12, <3>1
  <2>3. item' = [item EXCEPT !.verified = TRUE, !.rounds = rounds,
                             !.marker = seen, !.stuck = stuck]
    BY <2>1
  <2> HIDE DEF rounds, stuck
  <2>4. item' \in Items /\ Within(item', Len(log))
    BY <1>1, <2>2, <2>3 DEF Items, Within
  <2> QED
    BY <1>1, <1>2, <1>4, <1>13, <2>4 DEF NoteVerify, At
<1>14. CASE NoteReflect
  <2> DEFINE stuck == StuckAtClaim
  <2>1. item' = [item EXCEPT !.reflected = TRUE, !.marker = seen, !.stuck = stuck]
    BY <1>14 DEF NoteReflect
  <2>2. stuck \in Nat
    BY <1>12
  <2> HIDE DEF stuck
  <2>3. item' \in Items /\ Within(item', Len(log))
    BY <1>1, <2>1, <2>2 DEF Items, Within
  <2> QED
    BY <1>1, <1>2, <1>4, <1>14, <2>3 DEF NoteReflect, At
<1>15. CASE NewTask
  <2>1. "task" \in Entries /\ log' = Append(log, "task")
    BY <1>15 DEF NewTask, Entries
  <2> QED
    BY <1>1, <1>2, <1>15, <2>1, EntryTypes DEF NewTask, At
<1>16. CASE NoteFresh
  <2> DEFINE yolo == item.yolo
             none == NoPending
  <2>1. item' = [item EXCEPT
               !.pending = none, !.error = "none", !.fresh = yolo,
               !.marker = 0, !.verified = FALSE, !.rounds = 0, !.reflected = FALSE,
               !.claims = 0, !.unchanged = 0, !.stuck = 0]
    BY <1>16 DEF NoteFresh
  <2>2. yolo \in Nat /\ yolo <= Len(log) /\ none \in Pendings /\ none.marker = 0
    BY <1>1, <1>5 DEF Items, Within
  <2> HIDE DEF yolo, none
  <2>3. item' \in Items
    <3>1. "none" \in Errors /\ 0 \in Nat
      BY DEF Errors
    <3>2. item \in Items
      BY <1>1
    <3>3. item' = [state |-> item.state, error |-> "none", pending |-> none, marker |-> 0,
                   recovery |-> item.recovery, failure |-> item.failure,
                   timeout |-> item.timeout, scope |-> item.scope, claims |-> 0,
                   unchanged |-> 0, stuck |-> 0, handled |-> item.handled,
                   verified |-> FALSE, rounds |-> 0, reflected |-> FALSE,
                   yolo |-> item.yolo, fresh |-> yolo]
      BY <2>1, <3>2 DEF Items
    <3>4. /\ item.state \in {"running", "completed", "failed"} /\ item.recovery \in Nat
          /\ item.failure \in Nat /\ item.timeout \in Nat /\ item.scope \in Nat
          /\ item.handled \in BOOLEAN /\ item.yolo \in Nat
      BY <3>2 DEF Items
    <3> QED
      BY <2>2, <3>1, <3>3, <3>4 DEF Items
  <2>4. Within(item', Len(log))
    BY <1>1, <2>1, <2>2, SMTT(30) DEF Items, Within
  <2> QED
    BY <1>1, <1>2, <1>4, <1>16, <2>3, <2>4 DEF NoteFresh, At
<1>17. CASE RecoverRestart
  <2>1. CASE YoloRestartRequired
    <3>1. item' = [item EXCEPT !.yolo = item.pending.marker] /\ steps' = <<"request">>
      BY <1>17, <2>1 DEF RecoverRestart
    <3>2. item' \in Items /\ Within(item', Len(log))
      BY <1>1, <1>5, <3>1 DEF Items, Within
    <3>3. steps' \in Seq(Token)
      BY <3>1, Tokens
    <3> QED
      BY <1>1, <1>4, <1>17, <3>2, <3>3 DEF RecoverRestart
  <2>2. CASE ~YoloRestartRequired
    <3> DEFINE plan == IF FreshRecoveryRequired THEN Fresh ELSE <<>>
    <3>1. plan \in Seq(Token)
      OBVIOUS
    <3>2. steps' = plan \o Tail(steps) /\ steps # <<>>
      BY <1>17, <2>2 DEF RecoverRestart, At
    <3> HIDE DEF plan
    <3>3. steps' \in Seq(Token)
      BY <1>3, <3>1, <3>2
    <3> QED
      BY <1>1, <1>4, <1>17, <2>2, <3>3 DEF RecoverRestart
  <2> QED
    BY <2>1, <2>2
<1>18. CASE RecoverObserve
  <2> DEFINE plan == IF SessionStatus(log) \in {"running", "waiting"} THEN <<"delay">> ELSE <<>>
  <2>1. plan \in Seq(Token)
    BY Tokens
  <2>2. steps' = plan \o Tail(steps) /\ steps # <<>>
    BY <1>18 DEF RecoverObserve, At
  <2> HIDE DEF plan
  <2>3. steps' \in Seq(Token)
    BY <1>3, <2>1, <2>2
  <2> QED
    BY <1>1, <1>18, <2>3, QuietTypes DEF RecoverObserve
<1>19. CASE RecoverDelay
  <2> DEFINE plan == IF item.pending = NoPending /\ Len(log) = seen THEN <<"goOn">> ELSE <<>>
  <2>1. plan \in Seq(Token)
    BY Tokens
  <2>2. steps' = plan \o Tail(steps) /\ steps # <<>>
    BY <1>19 DEF RecoverDelay, At
  <2> HIDE DEF plan
  <2>3. steps' \in Seq(Token)
    BY <1>3, <2>1, <2>2
  <2> QED
    BY <1>1, <1>4, <1>19, <2>3 DEF RecoverDelay
<1>20. CASE RecoverPending
  <2> DEFINE plan == IF item.pending = NoPending \/ SessionStatus(log) = "completed" THEN <<>>
                     ELSE IF RepeatedYoloFailure THEN Fresh
                     ELSE <<"continue", "noteDelivered">>
  <2>1. plan \in Seq(Token)
    BY Tokens
  <2>2. steps' = plan \o Tail(steps) /\ steps # <<>>
    BY <1>20 DEF RecoverPending, At
  <2> HIDE DEF plan
  <2>3. steps' \in Seq(Token)
    BY <1>3, <2>1, <2>2
  <2> QED
    BY <1>1, <1>4, <1>20, <2>3 DEF RecoverPending
<1>21. CASE Recovered
  BY <1>1, <1>2, <1>4, <1>21 DEF Recovered, At
<1> QED
  BY <1>6, <1>7, <1>8, <1>9, <1>10, <1>11, <1>13, <1>14, <1>15, <1>16, <1>17, <1>18, <1>19,
     <1>20, <1>21 DEF WorkerSteps

\* The bounds are spent one by one.
LEMMA Spent ==
  ASSUME used \in Uses
  PROVE /\ Spend("work") => used' \in Uses /\ used'.disturbance = used.disturbance
        /\ Spend("trouble") => used' \in Uses /\ used'.disturbance = used.disturbance
        /\ Spend("user") => used' \in Uses /\ used'.disturbance = used.disturbance
        /\ Spend("disturbance") => used' \in Uses /\ used'.disturbance = used.disturbance + 1
BY DEF Spend, Uses

\* A step that only the worker's plan, the host or the request file sees.
LEMMA PlanTypes ==
  ASSUME TypeInv, UNCHANGED <<log, seen>>, item' \in Items, Within(item', Len(log)),
         steps' \in Seq(Token), live' \in BOOLEAN, recovering' \in BOOLEAN,
         request' \in {request, 0}, used' \in Uses
  PROVE TypeInv'
BY LogIs DEF TypeInv

LEMMA FaultTypes ==
  TypeInv /\ (CallFails \/ Reload \/ Interrupt \/ DaemonRestarts \/ DaemonDrops) => TypeInv'
<1> SUFFICES ASSUME TypeInv, CallFails \/ Reload \/ Interrupt \/ DaemonRestarts \/ DaemonDrops
             PROVE TypeInv'
  OBVIOUS
<1> USE Plans
<1>1. /\ live \in BOOLEAN /\ recovering \in BOOLEAN /\ item \in Items /\ Within(item, Len(log))
      /\ used \in Uses /\ steps \in Seq(Token)
  BY DEF TypeInv
<1>2. Disturbed => used' \in Uses
  BY <1>1, Spent DEF Disturbed
<1>3. CASE CallFails
  <2>1. CASE recovering
    BY <1>1, <1>2, <1>3, <2>1, PlanTypes DEF CallFails
  <2>2. CASE ~recovering
    <3>1. item' = [[item EXCEPT !.error = "call"] EXCEPT !.state = "failed"] /\ steps' = Ended
      BY <1>3, <2>2 DEF CallFails, Finishes
    <3>2. item' \in Items /\ Within(item', Len(log))
      BY <1>1, <3>1 DEF Items, Errors, Within
    <3> QED
      BY <1>1, <1>2, <1>3, <3>1, <3>2, PlanTypes DEF CallFails
  <2> QED
    BY <2>1, <2>2
<1>4. CASE Reload
  BY <1>1, <1>2, <1>4, PlanTypes DEF Reload, HostRestarts
<1>5. CASE Interrupt
  BY <1>1, <1>2, <1>5, PlanTypes DEF Interrupt
<1>6. CASE DaemonRestarts
  BY <1>1, <1>6, PlanTypes DEF DaemonRestarts, HostRestarts
<1>7. CASE DaemonDrops
  BY <1>1, <1>2, <1>7, PlanTypes DEF DaemonDrops
<1> QED
  BY <1>3, <1>4, <1>5, <1>6, <1>7

\* What Cline and the user add to a transcript is neither a message of the queue nor a thread.
Deed == Entries \ (Requests \cup {"task"})

\* What they do is one such entry; the record, the plan and the host stay.
ThreadGoesOn ==
  /\ \E e \in Deed : log' = Append(log, e)
  /\ live' \in BOOLEAN /\ used' \in Uses /\ used'.disturbance = used.disturbance
  /\ UNCHANGED <<item, seen, steps, recovering, request>>

Abroad ==
  ClineStarts \/ ClineWorks \/ TestPasses \/ ClineCompletes \/ ClineStops \/ UserActs

LEMMA AbroadIs == TypeInv /\ Abroad => ThreadGoesOn
<1> SUFFICES ASSUME TypeInv, Abroad PROVE ThreadGoesOn
  OBVIOUS
<1>1. used \in Uses /\ live \in BOOLEAN
  BY DEF TypeInv
<1>2. {"api", "pass", "clean", "timeout", "overflow", "nudge", "DONE", "resume", "reopened"}
        \cup Claims \cup Failures \cup Edits \subseteq Deed
  BY DEF Deed, Entries, Feedback, Requests, GateRequests, Claims, Failures, Edits
<1>3. CASE ClineStarts
  BY <1>1, <1>2, <1>3 DEF ClineStarts, ThreadGoesOn
<1>4. CASE ClineWorks
  BY <1>1, <1>2, <1>4, Spent, GatesAssumption DEF ClineWorks, ThreadGoesOn
<1>5. CASE TestPasses
  BY <1>1, <1>2, <1>5 DEF TestPasses, ThreadGoesOn
<1>6. CASE ClineCompletes
  BY <1>1, <1>2, <1>6 DEF ClineCompletes, ThreadGoesOn
<1>7. CASE ClineStops
  BY <1>1, <1>2, <1>7, Spent, GatesAssumption DEF ClineStops, ThreadGoesOn
<1>8. CASE UserActs
  BY <1>1, <1>2, <1>8, Spent, GatesAssumption DEF UserActs, ThreadGoesOn
<1> QED
  BY <1>3, <1>4, <1>5, <1>6, <1>7, <1>8 DEF Abroad

LEMMA AbroadTypes == TypeInv /\ Abroad => TypeInv'
<1> SUFFICES ASSUME TypeInv, Abroad PROVE TypeInv'
  OBVIOUS
<1>1. ThreadGoesOn
  BY AbroadIs
<1>2. PICK e \in Entries : log' = Append(log, e)
  BY <1>1 DEF ThreadGoesOn, Deed
<1> QED
  BY <1>1, <1>2, EntryTypes DEF ThreadGoesOn, TypeInv

LEMMA StepTypes == TypeInv /\ [Next]_vars => TypeInv'
<1>1. TypeInv /\ UNCHANGED vars => TypeInv'
  BY DEF TypeInv, vars
<1> QED
  BY <1>1, GatesTypes, WorkerTypes, FaultTypes, AbroadTypes DEF Next, Abroad

\* The record, the plan and the transcript of a task have their types, and every marker the
\* record keeps names an entry that was there, whatever was lost and restarted since.
THEOREM TypeCorrect == Spec => []TypeOK
<1>1. Spec => []TypeInv
  BY InitTypes, StepTypes, PTL DEF Spec
<1> QED
  BY <1>1, TypesImplied, PTL

------------------------------------------------------------------------------
(* The plan of the worker.                                                  *)

\* What may come right after a step of a plan.
Follows ==
  {<<"verify", "noteVerify">>, <<"reflect", "noteReflect">>, <<"compact", "settle">>,
   <<"settle", "deliver">>, <<"continue", "noteDelivered">>, <<"diagnose", "noteDelivered">>,
   <<"newTask", "diagnose">>, <<"diagnose", "noteFresh">>, <<"noteFresh", "observe">>,
   <<"noteFresh", "recovered">>, <<"noteDelivered", "recovered">>, <<"restart", "observe">>,
   <<"observe", "pending">>, <<"delay", "pending">>, <<"goOn", "pending">>,
   <<"pending", "recovered">>}

Chain(s) == \A i \in 1..(Len(s) - 1) : <<s[i], s[i + 1]>> \in Follows

RecoveryTokens ==
  {"newTask", "diagnose", "noteFresh", "restart", "observe", "delay", "goOn", "pending",
   "recovered", "continue", "noteDelivered", "request"}
GateTokens ==
  Token \ {"newTask", "noteFresh", "restart", "observe", "delay", "goOn", "pending", "recovered"}

\* A recovery is over with its last step, and a thread it opens is noted.
RecoveryPlan(s) ==
  /\ Len(s) >= 1 /\ Chain(s) /\ s[Len(s)] \in {"recovered", "request"}
  /\ \A i \in 1..Len(s) : s[i] \in RecoveryTokens
  /\ s[1] = "newTask" => Len(s) >= 3 /\ s[3] = "noteFresh"
GatePlan(s) == Chain(s) /\ \A i \in 1..Len(s) : s[i] \in GateTokens

PlanInv == IF recovering THEN RecoveryPlan(steps) ELSE GatePlan(steps)

\* The rest of a plan.
LEMMA Rest ==
  ASSUME NEW s \in Seq(Token), s # <<>>
  PROVE /\ Len(s) \in Nat /\ Len(s) >= 1 /\ Head(s) = s[1] /\ Len(Tail(s)) = Len(s) - 1
        /\ \A i \in 1..(Len(s) - 1) : Tail(s)[i] = s[i + 1]
OBVIOUS

LEMMA RestOfPlan ==
  ASSUME NEW s \in Seq(Token), s # <<>>, NEW r, r = Tail(s)
  PROVE /\ RecoveryPlan(s) /\ s[1] \notin {"recovered", "request"} => RecoveryPlan(r)
        /\ GatePlan(s) => GatePlan(r)
<1>1. /\ Len(s) \in Nat /\ Len(s) >= 1 /\ Len(r) = Len(s) - 1
      /\ \A i \in 1..(Len(s) - 1) : r[i] = s[i + 1]
  BY Rest
<1>2. Chain(s) => Chain(r)
  BY <1>1 DEF Chain
<1>3. ASSUME RecoveryPlan(s), s[1] \notin {"recovered", "request"} PROVE RecoveryPlan(r)
  <2>1. Len(s) >= 2
    BY <1>1, <1>3 DEF RecoveryPlan
  <2>2. <<s[1], s[2]>> \in Follows
    BY <1>1, <1>3, <2>1 DEF RecoveryPlan, Chain
  <2>3. r[1] # "newTask"
    BY <1>1, <2>1, <2>2 DEF Follows
  <2> QED
    BY <1>1, <1>2, <1>3, <2>1, <2>3 DEF RecoveryPlan
<1>4. ASSUME GatePlan(s) PROVE GatePlan(r)
  BY <1>1, <1>2, <1>4 DEF GatePlan
<1> QED
  BY <1>3, <1>4

\* Some steps before the rest of a plan.
LEMMA Joined ==
  ASSUME NEW p \in Seq(Token), NEW s \in Seq(Token), s # <<>>, NEW r, r = p \o Tail(s)
  PROVE /\ Len(p) \in Nat /\ Len(r) = Len(p) + Len(s) - 1
        /\ \A i \in 1..Len(p) : r[i] = p[i]
        /\ \A i \in (Len(p) + 1)..Len(r) : r[i] = s[i - Len(p) + 1]
<1>1. /\ Len(s) \in Nat /\ Len(s) >= 1 /\ Len(Tail(s)) = Len(s) - 1
      /\ \A i \in 1..(Len(s) - 1) : Tail(s)[i] = s[i + 1]
  BY Rest
<1>2. Tail(s) \in Seq(Token)
  OBVIOUS
<1>3. /\ Len(r) = Len(p) + Len(Tail(s))
      /\ \A i \in 1..(Len(p) + Len(Tail(s))) :
           r[i] = IF i <= Len(p) THEN p[i] ELSE Tail(s)[i - Len(p)]
  BY <1>2, ConcatProperties
<1>4. Len(p) \in Nat
  OBVIOUS
<1> QED
  BY <1>1, <1>3, <1>4

LEMMA JoinedPlan ==
  ASSUME NEW p \in Seq(Token), NEW s \in Seq(Token), s # <<>>, NEW r, r = p \o Tail(s),
         RecoveryPlan(s), s[1] \notin {"recovered", "request"},
         Chain(p), \A i \in 1..Len(p) : p[i] \in RecoveryTokens,
         Len(p) > 0 => /\ <<p[Len(p)], s[2]>> \in Follows
                       /\ p[1] = "newTask" => Len(p) >= 3 /\ p[3] = "noteFresh"
  PROVE RecoveryPlan(r)
<1>1. /\ Len(p) \in Nat /\ Len(r) = Len(p) + Len(s) - 1
      /\ \A i \in 1..Len(p) : r[i] = p[i]
      /\ \A i \in (Len(p) + 1)..Len(r) : r[i] = s[i - Len(p) + 1]
  BY Joined
<1>2. Len(s) \in Nat /\ Len(s) >= 2
  <2>1. Len(s) \in Nat /\ Len(s) >= 1
    BY Rest
  <2> QED
    BY <2>1 DEF RecoveryPlan
<1>3. \A i \in 1..Len(r) : r[i] \in RecoveryTokens
  BY <1>1, <1>2 DEF RecoveryPlan
<1>4. r[Len(r)] = s[Len(s)]
  BY <1>1, <1>2
<1>5. Chain(r)
  <2> SUFFICES ASSUME NEW i \in 1..(Len(r) - 1) PROVE <<r[i], r[i + 1]>> \in Follows
    BY DEF Chain
  <2>1. CASE i < Len(p)
    BY <1>1, <1>2, <2>1 DEF Chain
  <2>2. CASE i = Len(p)
    <3>1. r[i] = p[Len(p)] /\ r[i + 1] = s[2] /\ Len(p) > 0
      BY <1>1, <1>2, <2>2
    <3> QED
      BY <3>1
  <2>3. CASE i > Len(p)
    <3> DEFINE j == i - Len(p) + 1
    <3>1. j \in 1..(Len(s) - 1) /\ r[i] = s[j] /\ r[i + 1] = s[j + 1]
      BY <1>1, <1>2, <2>3
    <3> QED
      BY <3>1 DEF RecoveryPlan, Chain
  <2>4. i \in Nat /\ Len(p) \in Nat
    OBVIOUS
  <2>5. i < Len(p) \/ i = Len(p) \/ i > Len(p)
    BY <2>4
  <2> QED
    BY <2>1, <2>2, <2>3, <2>5
<1>6. r[1] = "newTask" => Len(r) >= 3 /\ r[3] = "noteFresh"
  <2>1. CASE Len(p) = 0
    <3>1. r[1] = s[2] /\ <<s[1], s[2]>> \in Follows
      BY <1>1, <1>2, <2>1 DEF RecoveryPlan, Chain
    <3> QED
      BY <3>1 DEF Follows
  <2>2. CASE Len(p) > 0
    BY <1>1, <1>2, <2>2
  <2>3. Len(p) = 0 \/ Len(p) > 0
    OBVIOUS
  <2> QED
    BY <2>1, <2>2, <2>3
<1> QED
  BY <1>1, <1>2, <1>3, <1>4, <1>5, <1>6 DEF RecoveryPlan

\* The plans as they are made.
LEMMA PlansMade ==
  /\ RecoveryPlan(Recover) /\ RecoveryPlan(<<"request">>)
  /\ GatePlan(<<"request">>) /\ GatePlan(<<>>) /\ GatePlan(Ended)
  /\ GatePlan(CompactAndContinue) /\ GatePlan(Continuation)
  /\ \A t \in GateTokens : GatePlan(<<t>>)
  /\ GatePlan(<<"verify", "noteVerify">>) /\ GatePlan(<<"reflect", "noteReflect">>)
<1>1. RecoveryPlan(Recover)
  BY DEF RecoveryPlan, Recover, Chain, Follows, RecoveryTokens
<1>2. RecoveryPlan(<<"request">>)
  BY DEF RecoveryPlan, Chain, RecoveryTokens
<1>3. {"request", "ended", "compact", "settle", "deliver", "continue", "diagnose",
       "noteDelivered", "verify", "noteVerify", "reflect", "noteReflect"} \subseteq GateTokens
  BY DEF GateTokens, Token, Requests, GateRequests
<1>4. \A t \in GateTokens : GatePlan(<<t>>)
  BY DEF GatePlan, Chain
<1>5. GatePlan(<<>>)
  BY DEF GatePlan, Chain
<1>6. GatePlan(CompactAndContinue)
  BY <1>3 DEF GatePlan, CompactAndContinue, Chain, Follows
<1>7. GatePlan(<<"verify", "noteVerify">>) /\ GatePlan(<<"reflect", "noteReflect">>)
  BY <1>3 DEF GatePlan, Chain, Follows
<1>8. GatePlan(Continuation)
  <2>1. PICK t : Continuation = <<t, "noteDelivered">> /\ t \in {"continue", "diagnose"}
    BY DEF Continuation
  <2> QED
    BY <1>3, <2>1 DEF GatePlan, Chain, Follows
<1> QED
  BY <1>1, <1>2, <1>3, <1>4, <1>5, <1>6, <1>7, <1>8 DEF Ended

\* A recovery has a plan until it is over.
LEMMA Awake ==
  ASSUME TypeInv, PlanInv
  PROVE /\ steps = <<>> => ~recovering
        /\ steps # <<>> => Len(steps) >= 1 /\ Head(steps) = steps[1] /\ Len(steps) \in Nat
        /\ recovering => RecoveryPlan(steps) /\ steps # <<>>
        /\ ~recovering => GatePlan(steps)
<1>1. steps \in Seq(Token)
  BY DEF TypeInv
<1>2. recovering => RecoveryPlan(steps)
  BY DEF PlanInv
<1>3. steps = <<>> => Len(steps) = 0
  OBVIOUS
<1> QED
  BY <1>1, <1>2, <1>3, Rest DEF PlanInv, RecoveryPlan

LEMMA InitPlan == Init => PlanInv
BY PlansMade DEF Init, PlanInv

LEMMA GatesPlan == TypeInv /\ PlanInv /\ Gates => PlanInv'
<1> SUFFICES ASSUME TypeInv, PlanInv, Gates PROVE PlanInv'
  OBVIOUS
<1>1. steps = <<>> /\ ~recovering
  BY Awake DEF Gates, Monitoring
<1>2. recovering' = recovering
  BY DEF Gates, GateDone, GateOverflow, GateFailure, GateTimeout, GateScope, GateAuditFails,
         GateAuditCorrects, GateRecommend, GateVerify, GateReflect, GateFinish
<1>3. {"escalate", "timeoutFix", "scope", "stuck", "correct", "recommend"} \subseteq GateTokens
  BY DEF GateTokens, Token, Requests, GateRequests
<1>4. GatePlan(steps')
  <2>1. \/ steps' \in {Ended, CompactAndContinue, <<"verify", "noteVerify">>,
                       <<"reflect", "noteReflect">>}
        \/ \E t \in {"escalate", "timeoutFix", "scope", "stuck", "correct", "recommend"} :
             steps' = <<t>>
    BY DEF Gates, GateDone, GateOverflow, GateFailure, GateTimeout, GateScope, GateAuditFails,
           GateAuditCorrects, GateRecommend, GateVerify, GateReflect, GateFinish, Finishes
  <2> QED
    BY <1>3, <2>1, PlansMade
<1> QED
  BY <1>1, <1>2, <1>4 DEF PlanInv

\* A step that ends in the rest of its plan.
LEMMA RestKept ==
  ASSUME TypeInv, PlanInv, steps # <<>>, Head(steps) \notin {"recovered", "request"},
         steps' = Tail(steps), recovering' = recovering
  PROVE PlanInv'
<1>1. steps \in Seq(Token) /\ Head(steps) = steps[1]
  BY Rest DEF TypeInv
<1>2. PICK r : r = Tail(steps)
  OBVIOUS
<1>3. /\ RecoveryPlan(steps) => RecoveryPlan(r)
      /\ GatePlan(steps) => GatePlan(r)
  BY <1>1, <1>2, RestOfPlan
<1>4. steps' = r
  BY <1>2
<1> QED
  BY <1>3, <1>4 DEF PlanInv

\* Steps that a recovery may put before the rest of its plan.
Segment(p) ==
  p \in Seq(Token) /\ Chain(p) /\ \A i \in 1..Len(p) : p[i] \in RecoveryTokens

LEMMA Segments ==
  /\ Segment(<<>>) /\ Segment(<<"delay">>) /\ Segment(<<"goOn">>)
  /\ Segment(Fresh) /\ Segment(<<"continue", "noteDelivered">>)
<1>1. Segment(<<>>)
  BY EmptySeq DEF Segment, Chain
<1>2. Segment(<<"delay">>) /\ Segment(<<"goOn">>)
  BY Tokens DEF Segment, Chain, RecoveryTokens
<1>3. Segment(Fresh)
  BY Tokens DEF Segment, Chain, Follows, Fresh, RecoveryTokens
<1>4. Segment(<<"continue", "noteDelivered">>)
  BY Tokens DEF Segment, Chain, Follows, RecoveryTokens
<1> QED
  BY <1>1, <1>2, <1>3, <1>4

Fits(p, s) ==
  Len(p) > 0 => /\ <<p[Len(p)], s[2]>> \in Follows
                /\ p[1] = "newTask" => Len(p) >= 3 /\ p[3] = "noteFresh"

\* A step of a recovery that puts some steps before the rest of its plan.
LEMMA RestJoined ==
  ASSUME TypeInv, PlanInv, steps # <<>>,
         Head(steps) \in {"restart", "observe", "delay", "pending"},
         NEW p, Segment(p), Fits(p, steps),
         steps' = p \o Tail(steps), recovering' = recovering
  PROVE recovering /\ PlanInv'
<1>1. /\ steps \in Seq(Token) /\ Head(steps) = steps[1] /\ Len(steps) >= 1
      /\ Len(steps) \in Nat
  BY Rest DEF TypeInv
<1>2. recovering
  <2> SUFFICES ASSUME ~recovering PROVE FALSE
    OBVIOUS
  <2>1. steps[1] \in GateTokens
    BY <1>1, Awake DEF GatePlan
  <2> QED
    BY <1>1, <2>1 DEF GateTokens
<1>3. RecoveryPlan(steps)
  BY <1>2 DEF PlanInv
<1>4. PICK r : r = p \o Tail(steps)
  OBVIOUS
<1>5. RecoveryPlan(r)
  BY <1>1, <1>3, <1>4, JoinedPlan DEF Segment, Fits
<1>6. steps' = r
  BY <1>4
<1> QED
  BY <1>2, <1>5, <1>6 DEF PlanInv

\* What follows a step of a recovery that asks the state of the thread.
LEMMA NextOfRecovery ==
  ASSUME TypeInv, PlanInv, steps # <<>>,
         Head(steps) \in {"restart", "observe", "delay", "pending"}
  PROVE /\ Head(steps) = "restart" => steps[2] = "observe"
        /\ Head(steps) \in {"observe", "delay"} => steps[2] = "pending"
        /\ Head(steps) = "pending" => steps[2] = "recovered"
<1>1. /\ steps \in Seq(Token) /\ Head(steps) = steps[1] /\ Len(steps) >= 1
      /\ Len(steps) \in Nat
  BY Rest DEF TypeInv
<1>2. RecoveryPlan(steps)
  <2> SUFFICES ASSUME ~recovering PROVE FALSE
    BY DEF PlanInv
  <2>1. steps[1] \in GateTokens
    BY <1>1, Awake DEF GatePlan
  <2> QED
    BY <1>1, <2>1 DEF GateTokens
<1>3. Len(steps) # 1
  BY <1>1, <1>2 DEF RecoveryPlan
<1>4. <<steps[1], steps[2]>> \in Follows
  BY <1>1, <1>2, <1>3 DEF RecoveryPlan, Chain
<1> QED
  BY <1>1, <1>4 DEF Follows

LEMMA WorkerPlan == TypeInv /\ PlanInv /\ WorkerSteps => PlanInv'
<1> SUFFICES ASSUME TypeInv, PlanInv, WorkerSteps PROVE PlanInv'
  OBVIOUS
<1>1. /\ recovering => RecoveryPlan(steps)
      /\ ~recovering => GatePlan(steps)
      /\ steps # <<>> => Head(steps) = steps[1] /\ Len(steps) >= 1 /\ Len(steps) \in Nat
  BY Awake
<1>2. ASSUME steps # <<>>, Head(steps) \notin RecoveryTokens PROVE ~recovering
  BY <1>1, <1>2 DEF RecoveryPlan
<1>3. CASE Escalate
  <2>1. ~recovering /\ ~recovering'
    BY <1>2, <1>3 DEF Escalate, At, RecoveryTokens
  <2>2. steps' \in {<<"request">>, CompactAndContinue}
    BY <1>3 DEF Escalate
  <2> QED
    BY <2>1, <2>2, PlansMade DEF PlanInv
<1>4. CASE WriteRestartRequest
  BY <1>4, PlansMade DEF WriteRestartRequest, Restarted, PlanInv
<1>5. CASE Send
  BY <1>5, RestKept DEF Send, Requests, GateRequests
<1>6. CASE Settle
  BY <1>6, RestKept DEF Settle, At
<1>7. CASE Deliver
  <2>1. ~recovering /\ ~recovering' /\ steps' = Continuation
    BY <1>2, <1>7 DEF Deliver, At, RecoveryTokens
  <2>2. PICK r : r = Continuation
    OBVIOUS
  <2>3. GatePlan(r) /\ steps' = r
    BY <2>1, <2>2, PlansMade
  <2> QED
    BY <2>1, <2>3 DEF PlanInv
<1>8. CASE NoteDelivered
  BY <1>8, RestKept DEF NoteDelivered, At
<1>9. CASE NoteVerify
  BY <1>9, RestKept DEF NoteVerify, At
<1>10. CASE NoteReflect
  BY <1>10, RestKept DEF NoteReflect, At
<1>11. CASE NewTask
  BY <1>11, RestKept DEF NewTask, At
<1>12. CASE NoteFresh
  BY <1>12, RestKept DEF NoteFresh, At
<1>13. CASE RecoverRestart
  <2>1. At("restart") /\ recovering' = recovering
    BY <1>13 DEF RecoverRestart
  <2>2. steps # <<>> /\ Head(steps) = "restart" /\ steps[2] = "observe"
    BY <2>1, NextOfRecovery DEF At
  <2>3. recovering
    BY <1>1, <2>2 DEF GatePlan, GateTokens
  <2>4. CASE YoloRestartRequired
    BY <1>13, <2>1, <2>3, <2>4, PlansMade DEF RecoverRestart, PlanInv
  <2>5. CASE ~YoloRestartRequired
    <3>1. CASE FreshRecoveryRequired
      <4>1. PICK p : p = Fresh
        OBVIOUS
      <4>2. steps' = p \o Tail(steps)
        BY <1>13, <2>5, <3>1, <4>1 DEF RecoverRestart
      <4>3. Segment(p) /\ Len(p) = 3 /\ p[3] = "noteFresh"
        BY <4>1, Segments DEF Fresh
      <4>4. <<p[3], steps[2]>> \in Follows
        BY <2>2, <4>3 DEF Follows
      <4>5. Fits(p, steps)
        BY <4>3, <4>4 DEF Fits
      <4> QED
        BY <2>1, <2>2, <4>2, <4>3, <4>5, RestJoined
    <3>2. CASE ~FreshRecoveryRequired
      <4>1. PICK p : p = <<>>
        OBVIOUS
      <4>2. steps' = p \o Tail(steps)
        BY <1>13, <2>5, <3>2, <4>1 DEF RecoverRestart
      <4>3. Segment(p) /\ Fits(p, steps)
        BY <4>1, Segments DEF Fits
      <4> QED
        BY <2>1, <2>2, <4>2, <4>3, RestJoined
    <3> QED
      BY <3>1, <3>2
  <2> QED
    BY <2>4, <2>5
<1>14. CASE RecoverObserve
  <2>1. recovering' = recovering /\ steps # <<>> /\ Head(steps) = "observe"
    BY <1>14 DEF RecoverObserve, At
  <2>2. steps[2] = "pending"
    BY <2>1, NextOfRecovery
  <2>3. PICK p : p \in {<<>>, <<"delay">>} /\ steps' = p \o Tail(steps)
    BY <1>14 DEF RecoverObserve
  <2>4. CASE p = <<>>
    <3>1. Segment(p) /\ Fits(p, steps)
      BY <2>4, Segments DEF Fits
    <3> QED
      BY <2>1, <2>3, <3>1, RestJoined
  <2>5. CASE p = <<"delay">>
    <3>1. Segment(p) /\ Len(p) = 1 /\ p[1] = "delay"
      BY <2>5, Segments
    <3>2. <<p[1], steps[2]>> \in Follows
      BY <2>2, <3>1 DEF Follows
    <3>3. Fits(p, steps)
      BY <3>1, <3>2 DEF Fits
    <3> QED
      BY <2>1, <2>3, <3>1, <3>3, RestJoined
  <2> QED
    BY <2>3, <2>4, <2>5
<1>15. CASE RecoverDelay
  <2>1. recovering' = recovering /\ steps # <<>> /\ Head(steps) = "delay"
    BY <1>15 DEF RecoverDelay, At
  <2>2. steps[2] = "pending"
    BY <2>1, NextOfRecovery
  <2>3. PICK p : p \in {<<>>, <<"goOn">>} /\ steps' = p \o Tail(steps)
    BY <1>15 DEF RecoverDelay
  <2>4. CASE p = <<>>
    <3>1. Segment(p) /\ Fits(p, steps)
      BY <2>4, Segments DEF Fits
    <3> QED
      BY <2>1, <2>3, <3>1, RestJoined
  <2>5. CASE p = <<"goOn">>
    <3>1. Segment(p) /\ Len(p) = 1 /\ p[1] = "goOn"
      BY <2>5, Segments
    <3>2. <<p[1], steps[2]>> \in Follows
      BY <2>2, <3>1 DEF Follows
    <3>3. Fits(p, steps)
      BY <3>1, <3>2 DEF Fits
    <3> QED
      BY <2>1, <2>3, <3>1, <3>3, RestJoined
  <2> QED
    BY <2>3, <2>4, <2>5
<1>16. CASE RecoverPending
  <2>1. recovering' = recovering /\ steps # <<>> /\ Head(steps) = "pending"
    BY <1>16 DEF RecoverPending, At
  <2>2. steps[2] = "recovered"
    BY <2>1, NextOfRecovery
  <2>3. PICK p : /\ p = <<>> \/ p = Fresh \/ p = <<"continue", "noteDelivered">>
                 /\ steps' = p \o Tail(steps)
    BY <1>16 DEF RecoverPending
  <2>4. CASE p = <<>>
    <3>1. Segment(p) /\ Fits(p, steps)
      BY <2>4, Segments DEF Fits
    <3> QED
      BY <2>1, <2>3, <3>1, RestJoined
  <2>5. CASE p = Fresh
    <3>1. Segment(p) /\ Len(p) = 3 /\ p[3] = "noteFresh"
      BY <2>5, Segments DEF Fresh
    <3>2. <<p[3], steps[2]>> \in Follows
      BY <2>2, <3>1 DEF Follows
    <3>3. Fits(p, steps)
      BY <3>1, <3>2 DEF Fits
    <3> QED
      BY <2>1, <2>3, <3>1, <3>3, RestJoined
  <2>6. CASE p = <<"continue", "noteDelivered">>
    <3>1. Segment(p) /\ Len(p) = 2 /\ p[2] = "noteDelivered" /\ p[1] = "continue"
      BY <2>6, Segments
    <3>2. <<p[2], steps[2]>> \in Follows
      BY <2>2, <3>1 DEF Follows
    <3>3. Fits(p, steps)
      BY <3>1, <3>2 DEF Fits
    <3> QED
      BY <2>1, <2>3, <3>1, <3>3, RestJoined
  <2> QED
    BY <2>3, <2>4, <2>5, <2>6
<1>17. CASE Recovered
  <2>1. /\ steps # <<>> /\ Head(steps) = "recovered" /\ steps' = Tail(steps)
        /\ recovering' = FALSE
    BY <1>17 DEF Recovered, At
  <2>2. recovering
    BY <1>1, <2>1 DEF GatePlan, GateTokens
  <2>3. Len(steps) = 1
    <3>1. RecoveryPlan(steps) /\ Len(steps) \in Nat /\ Len(steps) >= 1
      BY <1>1, <2>1, <2>2
    <3>2. CASE Len(steps) >= 2
      <4>1. <<steps[1], steps[2]>> \in Follows
        BY <3>1, <3>2 DEF RecoveryPlan, Chain
      <4> QED
        BY <1>1, <2>1, <4>1 DEF Follows
    <3>3. Len(steps) = 1 \/ Len(steps) >= 2
      <4>1. Len(steps) \in Nat /\ Len(steps) >= 1
        BY <3>1
      <4>2. PICK n : n = Len(steps)
        OBVIOUS
      <4>3. n \in Nat /\ n >= 1
        BY <4>1, <4>2
      <4>4. n = 1 \/ n >= 2
        BY <4>3
      <4> QED
        BY <4>2, <4>4
    <3> QED
      BY <3>2, <3>3
  <2>4. Tail(steps) = <<>>
    <3>1. steps \in Seq(Token)
      BY DEF TypeInv
    <3> QED
      BY <2>1, <2>3, <3>1
  <2> QED
    BY <2>1, <2>4, PlansMade DEF PlanInv
<1> QED
  BY <1>3, <1>4, <1>5, <1>6, <1>7, <1>8, <1>9, <1>10, <1>11, <1>12, <1>13, <1>14, <1>15,
     <1>16, <1>17 DEF WorkerSteps

LEMMA FaultPlan ==
  TypeInv /\ PlanInv /\ (CallFails \/ Reload \/ Interrupt \/ DaemonRestarts \/ DaemonDrops)
    => PlanInv'
<1> SUFFICES ASSUME TypeInv, PlanInv,
                    CallFails \/ Reload \/ Interrupt \/ DaemonRestarts \/ DaemonDrops
             PROVE PlanInv'
  OBVIOUS
<1>1. CASE CallFails
  BY <1>1, PlansMade DEF CallFails, Finishes, PlanInv
<1>2. CASE Reload
  BY <1>2, PlansMade DEF Reload, HostRestarts, PlanInv
<1>3. CASE Interrupt
  BY <1>3, PlansMade DEF Interrupt, Restarted, PlanInv
<1>4. CASE DaemonRestarts
  BY <1>4, PlansMade DEF DaemonRestarts, HostRestarts, PlanInv
<1>5. CASE DaemonDrops
  BY <1>5 DEF DaemonDrops, PlanInv
<1> QED
  BY <1>1, <1>2, <1>3, <1>4, <1>5

LEMMA StepPlan == TypeInv /\ PlanInv /\ [Next]_vars => PlanInv'
<1>1. TypeInv /\ PlanInv /\ UNCHANGED vars => PlanInv'
  BY DEF PlanInv, vars
<1>2. TypeInv /\ PlanInv /\ Abroad => PlanInv'
  BY AbroadIs DEF ThreadGoesOn, PlanInv
<1> QED
  BY <1>1, <1>2, GatesPlan, WorkerPlan, FaultPlan DEF Next, Abroad

------------------------------------------------------------------------------
(* What a step does to the record, by the parts that the properties are about. *)

SameFlags(a, b) ==
  a.verified = b.verified /\ a.reflected = b.reflected /\ a.rounds = b.rounds
SameFailures(a, b) == a.failure = b.failure /\ a.yolo = b.yolo /\ a.fresh = b.fresh
SameCounts(a, b) == a.marker = b.marker /\ a.claims = b.claims /\ a.unchanged = b.unchanged

\* A gate ends the record, answers an overflow or a failure, or sends a message: one that is
\* no answer to a completion, a correction, a recommendation, or one that is noted after it.
EndsRecord ==
  /\ steps' = Ended /\ item'.state # "running" /\ item'.pending = NoPending
  /\ SameFailures(item', item) /\ seen' = seen
MeetsOverflow ==
  /\ steps' = CompactAndContinue /\ item'.pending.kind = "overflow"
  /\ SameFailures(item', item) /\ SameCounts(item', item) /\ seen' = seen
MeetsFailure ==
  /\ UnresolvedTaskFailure(log) # 0 /\ UnresolvedTaskFailure(log) # item.failure
  /\ steps' = <<"escalate">>
  /\ item'.failure = UnresolvedTaskFailure(log)
  /\ item'.pending = Pending("failure", UnresolvedTaskFailure(log))
  /\ item'.error = log[UnresolvedTaskFailure(log)]
  /\ item'.yolo = item.yolo /\ item'.fresh = item.fresh
  /\ SameCounts(item', item) /\ seen' = seen
SendsBack ==
  /\ steps' = <<"timeoutFix">> \/ steps' = <<"scope">>
  /\ item'.pending = NoPending
  /\ SameFailures(item', item) /\ SameCounts(item', item) /\ seen' = seen
Corrects ==
  /\ ClaimsCompletion(log)
  /\ steps' = <<"correct">> \/ steps' = <<"stuck">>
  /\ item' = Audited /\ seen' = seen
AsksWork ==
  /\ ClaimsCompletion(log) /\ steps' = <<"recommend">>
  /\ item'.marker = Len(log) /\ item'.claims = item.claims /\ item'.unchanged = item.unchanged
  /\ item'.pending = NoPending /\ SameFailures(item', item) /\ seen' = seen
AsksCheck ==
  /\ ClaimsCompletion(log) /\ seen' = Len(log)
  /\ \/ VerificationDue /\ steps' = <<"verify", "noteVerify">>
     \/ steps' = <<"reflect", "noteReflect">>
  /\ item'.pending = NoPending
  /\ SameFailures(item', item) /\ SameCounts(item', item)

LEMMA GatesAre ==
  ASSUME TypeInv, PlanInv, Gates
  PROVE /\ steps = <<>> /\ ~recovering /\ item.state = "running"
        /\ UNCHANGED <<log, live, recovering, request, used>>
        /\ SameFlags(item', item)
        /\ \/ EndsRecord
           \/ /\ item'.state = "running"
              /\ MeetsOverflow \/ MeetsFailure \/ SendsBack \/ Corrects \/ AsksWork \/ AsksCheck
<1>1. steps = <<>> /\ ~recovering /\ item.state = "running" /\ item \in Items
  BY Awake DEF Gates, Monitoring, TypeInv
<1>2. UNCHANGED <<log, live, recovering, request, used>>
  BY DEF Gates, GateDone, GateOverflow, GateFailure, GateTimeout, GateScope, GateAuditFails,
         GateAuditCorrects, GateRecommend, GateVerify, GateReflect, GateFinish
<1> DEFINE Goal ==
             /\ SameFlags(item', item)
             /\ \/ EndsRecord
                \/ /\ item'.state = "running"
                   /\ \/ MeetsOverflow \/ MeetsFailure \/ SendsBack
                      \/ Corrects \/ AsksWork \/ AsksCheck
<1> SUFFICES Goal
  BY <1>1, <1>2
<1> DEFINE S == Superseded
           A == Acceptable
<1>3. /\ S \in Items /\ S.state = "running" /\ S.pending = NoPending
      /\ SameFlags(S, item) /\ SameFailures(S, item) /\ SameCounts(S, item)
  BY <1>1, SupersededIs DEF SameFlags, SameFailures, SameCounts
<1>4. /\ A \in Items /\ A.state = "running" /\ A.pending = NoPending
      /\ SameFlags(A, item) /\ SameFailures(A, item)
      /\ A.marker = item.marker /\ A.unchanged = item.unchanged /\ A.claims = item.claims
  BY <1>1, AcceptableIs DEF SameFlags, SameFailures
<1>5. /\ Audited \in Items /\ Audited.state = "running" /\ Audited.pending = NoPending
      /\ SameFlags(Audited, item) /\ SameFailures(Audited, item)
  BY <1>1, AuditedIs DEF SameFlags, SameFailures
<1>6. Observed = "completed" => ClaimsCompletion(log)
  BY DEF Observed
<1>7. CASE GateDone
  <2>1. item' = [[S EXCEPT !.error = "none"] EXCEPT !.state = "completed"] /\ steps' = Ended
    BY <1>7 DEF GateDone, Finishes
  <2> HIDE DEF S
  <2>2. /\ item'.state # "running" /\ item'.pending = NoPending
        /\ SameFlags(item', item) /\ SameFailures(item', item)
    BY <1>3, <2>1 DEF Items, SameFlags, SameFailures
  <2> QED
    BY <1>7, <2>1, <2>2 DEF GateDone, EndsRecord
<1>8. CASE GateOverflow
  <2> DEFINE m == LatestContextOverflow(log)
             pending == Pending("overflow", m)
  <2>1. item' = [item EXCEPT !.recovery = m, !.pending = pending]
    BY <1>8 DEF GateOverflow
  <2>2. pending.kind = "overflow"
    BY DEF Pending
  <2> HIDE DEF m, pending
  <2>3. /\ item'.state = "running" /\ item'.pending = pending
        /\ SameFlags(item', item) /\ SameFailures(item', item) /\ SameCounts(item', item)
    BY <1>1, <2>1 DEF Items, SameFlags, SameFailures, SameCounts
  <2> QED
    BY <1>8, <2>2, <2>3 DEF GateOverflow, MeetsOverflow
<1>9. CASE GateFailure /\ Observed = "task_failed"
  <2> DEFINE m == UnresolvedTaskFailure(log)
             pending == Pending("failure", m)
             error == log[m]
  <2>1. item' = [item EXCEPT !.failure = m, !.error = error, !.pending = pending]
    BY <1>9 DEF GateFailure
  <2>2. m # 0 /\ m # item.failure
    BY <1>9 DEF Observed, New
  <2> HIDE DEF m, pending, error
  <2>3. /\ item'.state = "running" /\ item'.pending = pending /\ item'.error = error
        /\ item'.failure = m /\ item'.yolo = item.yolo /\ item'.fresh = item.fresh
        /\ SameFlags(item', item) /\ SameCounts(item', item)
    BY <1>1, <2>1 DEF Items, SameFlags, SameCounts
  <2> QED
    BY <1>9, <2>2, <2>3 DEF GateFailure, MeetsFailure, m, pending, error
<1>10. CASE GateTimeout
  <2> DEFINE m == CompletionMarker(log)
  <2>1. item' = [S EXCEPT !.timeout = m, !.error = "timeout"]
    BY <1>10 DEF GateTimeout
  <2> HIDE DEF S, m
  <2>2. /\ item'.state = "running" /\ item'.pending = NoPending
        /\ SameFlags(item', item) /\ SameFailures(item', item) /\ SameCounts(item', item)
    BY <1>3, <2>1 DEF Items, SameFlags, SameFailures, SameCounts
  <2> QED
    BY <1>10, <2>2 DEF GateTimeout, SendsBack
<1>11. CASE GateScope
  <2> DEFINE m == ScopeViolation(log)
  <2>1. item' = [S EXCEPT !.scope = m]
    BY <1>11 DEF GateScope
  <2> HIDE DEF S, m
  <2>2. /\ item'.state = "running" /\ item'.pending = NoPending
        /\ SameFlags(item', item) /\ SameFailures(item', item) /\ SameCounts(item', item)
    BY <1>3, <2>1 DEF Items, SameFlags, SameFailures, SameCounts
  <2> QED
    BY <1>11, <2>2 DEF GateScope, SendsBack
<1>12. CASE GateAuditFails
  <2>1. item' = [[Audited EXCEPT !.error = "limit"] EXCEPT !.state = "failed"] /\ steps' = Ended
    BY <1>12 DEF GateAuditFails, Finishes
  <2>2. /\ item'.state # "running" /\ item'.pending = NoPending
        /\ SameFlags(item', item) /\ SameFailures(item', item)
    BY <1>5, <2>1 DEF Items, SameFlags, SameFailures
  <2> QED
    BY <1>12, <2>1, <2>2 DEF GateAuditFails, EndsRecord
<1>13. CASE GateAuditCorrects /\ Observed = "completed"
  <2>1. item' = Audited /\ seen' = seen /\ (steps' = <<"stuck">> \/ steps' = <<"correct">>)
    BY <1>13 DEF GateAuditCorrects
  <2> QED
    BY <1>5, <1>6, <1>13, <2>1 DEF Corrects
<1>14. CASE GateRecommend /\ Observed = "completed"
  <2> DEFINE m == CompletionMarker(log)
  <2>1. item' = [A EXCEPT !.handled = TRUE, !.marker = m] /\ m = Len(log)
    BY <1>14 DEF GateRecommend, CompletionMarker
  <2> HIDE DEF A, m
  <2>2. /\ item'.state = "running" /\ item'.pending = NoPending /\ item'.marker = m
        /\ item'.claims = item.claims /\ item'.unchanged = item.unchanged
        /\ SameFlags(item', item) /\ SameFailures(item', item)
    BY <1>4, <2>1 DEF Items, SameFlags, SameFailures
  <2> QED
    BY <1>6, <1>14, <2>1, <2>2 DEF GateRecommend, AsksWork
<1>15. CASE GateVerify /\ Observed = "completed"
  <2>1. /\ item' = S /\ seen' = Len(log) /\ VerificationDue
        /\ steps' = <<"verify", "noteVerify">>
    BY <1>15 DEF GateVerify, CompletionMarker
  <2> QED
    BY <1>3, <1>6, <1>15, <2>1 DEF AsksCheck
<1>16. CASE GateReflect /\ Observed = "completed"
  <2>1. item' = S /\ seen' = Len(log) /\ steps' = <<"reflect", "noteReflect">>
    BY <1>16 DEF GateReflect, CompletionMarker
  <2> QED
    BY <1>3, <1>6, <1>16, <2>1 DEF AsksCheck
<1>17. CASE GateFinish
  <2>1. item' = [A EXCEPT !.state = "completed"] /\ steps' = Ended
    BY <1>17 DEF GateFinish, Finishes
  <2> HIDE DEF A
  <2>2. /\ item'.state # "running" /\ item'.pending = NoPending
        /\ SameFlags(item', item) /\ SameFailures(item', item)
    BY <1>4, <2>1 DEF Items, SameFlags, SameFailures
  <2> QED
    BY <1>17, <2>1, <2>2 DEF GateFinish, EndsRecord
<1> HIDE DEF Goal
<1> QED
  BY <1>7, <1>8, <1>9, <1>10, <1>11, <1>12, <1>13, <1>14, <1>15, <1>16, <1>17 DEF Gates

\* What the notes of the worker change.
LEMMA NotesAre ==
  ASSUME TypeInv
  PROVE /\ NoteDelivered => /\ item'.state = item.state /\ item'.pending = NoPending
                            /\ SameFlags(item', item) /\ SameFailures(item', item)
                            /\ SameCounts(item', item)
        /\ NoteVerify => /\ item'.state = item.state /\ item'.pending = item.pending
                         /\ item'.error = item.error /\ SameFailures(item', item)
                         /\ item'.verified /\ item'.rounds = item.rounds + 1
                         /\ item'.reflected = item.reflected
                         /\ item'.marker = seen /\ item'.claims = item.claims
                         /\ item'.unchanged = item.unchanged
        /\ NoteReflect => /\ item'.state = item.state /\ item'.pending = item.pending
                          /\ item'.error = item.error /\ SameFailures(item', item)
                          /\ item'.reflected /\ item'.verified = item.verified
                          /\ item'.rounds = item.rounds
                          /\ item'.marker = seen /\ item'.claims = item.claims
                          /\ item'.unchanged = item.unchanged
        /\ NoteFresh => /\ item'.state = item.state /\ item'.pending = NoPending
                        /\ item'.failure = item.failure /\ item'.yolo = item.yolo
                        /\ item'.fresh = item.yolo
                        /\ ~item'.verified /\ ~item'.reflected /\ item'.rounds = 0
                        /\ item'.marker = 0 /\ item'.claims = 0 /\ item'.unchanged = 0
<1>1. item \in Items
  BY DEF TypeInv
<1>2. ASSUME NoteDelivered
      PROVE /\ item'.state = item.state /\ item'.pending = NoPending
            /\ SameFlags(item', item) /\ SameFailures(item', item) /\ SameCounts(item', item)
  BY <1>1, <1>2 DEF NoteDelivered, Items, SameFlags, SameFailures, SameCounts
<1>3. ASSUME NoteVerify
      PROVE /\ item'.state = item.state /\ item'.pending = item.pending
            /\ item'.error = item.error /\ SameFailures(item', item)
            /\ item'.verified /\ item'.rounds = item.rounds + 1
            /\ item'.reflected = item.reflected
            /\ item'.marker = seen /\ item'.claims = item.claims
            /\ item'.unchanged = item.unchanged
  <2> DEFINE stuck == StuckAtClaim
             rounds == item.rounds + 1
  <2>1. item' = [item EXCEPT !.verified = TRUE, !.rounds = rounds,
                             !.marker = seen, !.stuck = stuck]
    BY <1>3 DEF NoteVerify
  <2>2. rounds = item.rounds + 1
    OBVIOUS
  <2> HIDE DEF stuck, rounds
  <2> QED
    BY <1>1, <2>1, <2>2 DEF Items, SameFailures
<1>4. ASSUME NoteReflect
      PROVE /\ item'.state = item.state /\ item'.pending = item.pending
            /\ item'.error = item.error /\ SameFailures(item', item)
            /\ item'.reflected /\ item'.verified = item.verified
            /\ item'.rounds = item.rounds
            /\ item'.marker = seen /\ item'.claims = item.claims
            /\ item'.unchanged = item.unchanged
  <2> DEFINE stuck == StuckAtClaim
  <2>1. item' = [item EXCEPT !.reflected = TRUE, !.marker = seen, !.stuck = stuck]
    BY <1>4 DEF NoteReflect
  <2> HIDE DEF stuck
  <2> QED
    BY <1>1, <2>1 DEF Items, SameFailures
<1>5. ASSUME NoteFresh
      PROVE /\ item'.state = item.state /\ item'.pending = NoPending
            /\ item'.failure = item.failure /\ item'.yolo = item.yolo
            /\ item'.fresh = item.yolo
            /\ ~item'.verified /\ ~item'.reflected /\ item'.rounds = 0
            /\ item'.marker = 0 /\ item'.claims = 0 /\ item'.unchanged = 0
  BY <1>1, <1>5 DEF NoteFresh, Items
<1> QED
  BY <1>2, <1>3, <1>4, <1>5

\* A restart in YOLO mode is asked for: the record names the failure it is for.
AsksRestart ==
  /\ YoloRestartRequired /\ steps' = <<"request">>
  /\ item' = [item EXCEPT !.yolo = item.pending.marker]

LEMMA RestartIs ==
  ASSUME TypeInv, AsksRestart
  PROVE /\ item'.state = item.state /\ item'.pending = item.pending
        /\ item'.error = item.error /\ item'.failure = item.failure
        /\ item'.yolo = item.pending.marker /\ item'.fresh = item.fresh
        /\ SameFlags(item', item) /\ SameCounts(item', item)
<1> DEFINE m == item.pending.marker
<1>1. item' = [item EXCEPT !.yolo = m] /\ item \in Items
  BY DEF AsksRestart, TypeInv
<1> HIDE DEF m
<1> QED
  BY <1>1 DEF Items, SameFlags, SameCounts, m

\* A call that fails outside of a recovery ends the record.
LEMMA CallEnds ==
  ASSUME TypeInv, CallFails, ~recovering
  PROVE /\ item'.state = "failed" /\ item'.pending = item.pending /\ item'.error = "call"
        /\ SameFlags(item', item) /\ SameFailures(item', item) /\ SameCounts(item', item)
        /\ steps' = Ended
<1>1. item' = [[item EXCEPT !.error = "call"] EXCEPT !.state = "failed"] /\ steps' = Ended
  BY DEF CallFails, Finishes
<1> QED
  BY <1>1 DEF TypeInv, Items, SameFlags, SameFailures, SameCounts

\* One more entry, in the transcript of the state.
LEMMA Grown ==
  ASSUME Log(log), NEW e \in Entries, log' = Append(log, e)
  PROVE /\ Log(log') /\ Len(log') = Len(log) + 1 /\ log'[Len(log')] = e /\ Last(log') = e
        /\ \A i \in 1..Len(log) : log'[i] = log[i]
        /\ e = "task" => ThreadStart(log') = Len(log')
        /\ e # "task" => ThreadStart(log') = ThreadStart(log)
<1>1. PICK r : r = log'
  OBVIOUS
<1>2. Adds(log, e, r)
  BY <1>1 DEF Adds
<1> QED
  BY <1>1, <1>2, EntryAdded

LEMMA LastOfGrown ==
  ASSUME Log(log), NEW e \in Entries, log' = Append(log, e), NEW K, "task" \notin K
  PROVE /\ e = "task" => LastOf(log', K) = 0
        /\ e \in K => LastOf(log', K) = Len(log) + 1
        /\ e # "task" /\ e \notin K => LastOf(log', K) = LastOf(log, K)
<1>1. PICK r : r = log'
  OBVIOUS
<1>2. Adds(log, e, r)
  BY <1>1 DEF Adds
<1>3. Len(r) = Len(log) + 1
  BY <1>2, EntryAdded
<1>4. /\ e = "task" => LastOf(r, K) = 0
      /\ e \in K => LastOf(r, K) = Len(r)
      /\ e # "task" /\ e \notin K => LastOf(r, K) = LastOf(log, K)
  BY <1>2, LastOfAdded
<1> QED
  BY <1>1, <1>3, <1>4

\* The only steps that write to the transcript.
LEMMA WritersAre ==
  ASSUME TypeInv, [Next]_vars
  PROVE \/ log' = log
        \/ Send /\ steps # <<>> /\ Head(steps) \in Requests /\ Requests \subseteq Entries
        \/ NewTask /\ "task" \in Entries
        \/ ThreadGoesOn
<1>1. Requests \subseteq Entries /\ "task" \in Entries
  BY DEF Entries, Feedback
<1>2. Gates => log' = log
  BY DEF Gates, GateDone, GateOverflow, GateFailure, GateTimeout, GateScope, GateAuditFails,
         GateAuditCorrects, GateRecommend, GateVerify, GateReflect, GateFinish
<1>3. WorkerSteps => log' = log \/ Send \/ NewTask
  BY DEF WorkerSteps, Escalate, WriteRestartRequest, Settle, Deliver, NoteDelivered,
         NoteVerify, NoteReflect, NoteFresh, RecoverRestart, RecoverObserve, RecoverDelay,
         RecoverPending, Recovered
<1>4. CallFails \/ Reload \/ Interrupt \/ DaemonRestarts \/ DaemonDrops => log' = log
  BY DEF CallFails, Reload, Interrupt, DaemonRestarts, DaemonDrops, HostRestarts
<1>5. Abroad => ThreadGoesOn
  BY AbroadIs
<1>6. Send => steps # <<>> /\ Head(steps) \in Requests
  BY DEF Send
<1>7. UNCHANGED vars => log' = log
  BY DEF vars
<1> QED
  BY <1>1, <1>2, <1>3, <1>4, <1>5, <1>6, <1>7 DEF Next, Abroad

\* A transcript is only added to.
LEMMA EntriesStay ==
  ASSUME TypeInv, [Next]_vars
  PROVE /\ Len(log) <= Len(log') /\ Len(log) \in Nat
        /\ \A i \in 1..Len(log) : log'[i] = log[i]
<1>1. Log(log) /\ Len(log) \in Nat
  BY LogIs DEF TypeInv
<1>2. CASE log' = log
  BY <1>1, <1>2
<1>3. CASE \E e \in Entries : log' = Append(log, e)
  BY <1>1, <1>3, Grown
<1>4. log' = log \/ \E e \in Entries : log' = Append(log, e)
  BY WritersAre DEF Send, NewTask, ThreadGoesOn, Deed
<1> QED
  BY <1>2, <1>3, <1>4

------------------------------------------------------------------------------
(* The failures a record speaks of.                                         *)

\* The markers of a record name failures; the restart it asked for is one in YOLO mode, and no
\* later than the last failure it met.  A failure that is to be recovered is the last one,
\* and no thread was opened for it yet.
FailureInv ==
  /\ item.failure # 0 => log[item.failure] \in Failures
  /\ item.fresh <= item.yolo /\ item.yolo <= item.failure
  /\ item.yolo # 0 => log[item.yolo] = "yolo"
  /\ item.pending.kind = "failure" =>
       /\ item.pending.marker = item.failure /\ item.failure # 0 /\ item.fresh < item.failure
       /\ item.error = "yolo" => log[item.failure] = "yolo"

LEMMA InitFailure == Init => FailureInv
BY DEF Init, NewItem, NoPending, FailureInv

\* A step that touches no failure but may drop what is pending.
LEMMA FailureKept ==
  ASSUME TypeInv, FailureInv, [Next]_vars, SameFailures(item', item),
         \/ item'.pending.kind # "failure"
         \/ item'.pending = item.pending /\ item'.error \in {item.error, "call"}
  PROVE FailureInv'
<1>1. /\ Len(log) \in Nat /\ \A i \in 1..Len(log) : log'[i] = log[i]
  BY EntriesStay
<1>2. /\ item \in Items /\ item.failure <= Len(log) /\ item.yolo <= Len(log)
  BY DEF TypeInv, Within
<1>3. /\ item.failure \in Nat /\ item.yolo \in Nat /\ item.fresh \in Nat
  BY <1>2 DEF Items
<1>4. /\ item.failure # 0 => log'[item.failure] = log[item.failure]
      /\ item.yolo # 0 => log'[item.yolo] = log[item.yolo]
  BY <1>1, <1>2, <1>3
<1> QED
  BY <1>3, <1>4 DEF FailureInv, SameFailures

\* The failure a poll reports is later than every failure met before.
LEMMA FailureLater ==
  ASSUME TypeInv, FailureInv, UnresolvedTaskFailure(log) # 0,
         UnresolvedTaskFailure(log) # item.failure
  PROVE UnresolvedTaskFailure(log) > item.failure
<1> DEFINE m == UnresolvedTaskFailure(log)
<1>1. Log(log) /\ Len(log) \in Nat /\ item.failure \in Nat /\ item.failure <= Len(log)
  BY LogIs DEF TypeInv, Items, Within
<1>2. m = LastOf(log, Failures) /\ m \in 1..Len(log)
  BY <1>1, FailureIs
<1>3. /\ ThreadStart(log) \in 1..Len(log) /\ LastOf(log, Failures) > ThreadStart(log)
      /\ \A j \in 1..Len(log) : j > ThreadStart(log) /\ log[j] \in Failures
           => j <= LastOf(log, Failures)
  <2>1. "task" \notin Failures
    BY DEF Failures
  <2> QED
    BY <1>1, <1>2, <2>1, ThreadStartIs, LastOfIs
<1>4. item.failure # 0 => item.failure \in 1..Len(log) /\ log[item.failure] \in Failures
  BY <1>1 DEF FailureInv
<1> HIDE DEF m
<1> QED
  BY <1>1, <1>2, <1>3, <1>4 DEF m

LEMMA GatesFailure == TypeInv /\ PlanInv /\ FailureInv /\ Gates => FailureInv'
<1> SUFFICES ASSUME TypeInv, PlanInv, FailureInv, Gates PROVE FailureInv'
  OBVIOUS
<1>1. log' = log /\ [Next]_vars
  BY GatesAre DEF Next
<1>2. NoPending.kind # "failure"
  BY DEF NoPending
<1>3. CASE EndsRecord \/ MeetsOverflow \/ SendsBack \/ AsksWork \/ AsksCheck
  <2>1. SameFailures(item', item) /\ item'.pending.kind # "failure"
    BY <1>2, <1>3 DEF EndsRecord, MeetsOverflow, SendsBack, AsksWork, AsksCheck
  <2> QED
    BY <1>1, <2>1, FailureKept
<1>4. CASE Corrects
  <2>1. SameFailures(item', item) /\ item'.pending.kind # "failure"
    BY <1>2, <1>4, AuditedIs DEF Corrects, SameFailures
  <2> QED
    BY <1>1, <2>1, FailureKept
<1>5. CASE MeetsFailure
  <2> DEFINE m == UnresolvedTaskFailure(log)
  <2>1. /\ m # 0 /\ item'.failure = m /\ item'.pending.marker = m /\ item'.error = log[m]
        /\ item'.yolo = item.yolo /\ item'.fresh = item.fresh
    BY <1>5 DEF MeetsFailure, Pending
  <2>2. m > item.failure
    BY <1>5, FailureLater DEF MeetsFailure
  <2>3. m \in Nat /\ log[m] \in Failures
    BY <2>1, FailureIs DEF TypeInv
  <2>4. item.failure \in Nat /\ item.yolo \in Nat /\ item.fresh \in Nat
    BY DEF TypeInv, Items
  <2> HIDE DEF m
  <2> QED
    BY <1>1, <2>1, <2>2, <2>3, <2>4 DEF FailureInv
<1> QED
  BY <1>3, <1>4, <1>5, GatesAre

LEMMA StepFailure == TypeInv /\ PlanInv /\ FailureInv /\ [Next]_vars => FailureInv'
<1> SUFFICES ASSUME TypeInv, PlanInv, FailureInv, [Next]_vars PROVE FailureInv'
  OBVIOUS
<1>1. ASSUME item' = item PROVE FailureInv'
  BY <1>1, FailureKept DEF SameFailures
<1>2. NoPending.kind # "failure"
  BY DEF NoPending
<1>3. CASE Gates
  BY <1>3, GatesFailure
<1>4. ASSUME AsksRestart, log' = log PROVE FailureInv'
  <2>1. /\ item.pending.kind = "failure" /\ item.error = "yolo"
    BY <1>4 DEF AsksRestart, YoloRestartRequired
  <2>2. item.failure \in Nat /\ item.fresh \in Nat
    BY DEF TypeInv, Items
  <2> QED
    BY <1>4, <2>1, <2>2, RestartIs DEF FailureInv
<1>5. CASE Escalate
  <2>1. CASE YoloRestartRequired
    BY <1>4, <1>5, <2>1 DEF Escalate, AsksRestart
  <2>2. CASE ~YoloRestartRequired
    BY <1>1, <1>5, <2>2 DEF Escalate
  <2> QED
    BY <2>1, <2>2
<1>6. CASE RecoverRestart
  <2>1. CASE YoloRestartRequired
    BY <1>4, <1>6, <2>1 DEF RecoverRestart, AsksRestart
  <2>2. CASE ~YoloRestartRequired
    BY <1>1, <1>6, <2>2 DEF RecoverRestart
  <2> QED
    BY <2>1, <2>2
<1>7. CASE NoteDelivered \/ NoteVerify \/ NoteReflect
  BY <1>2, <1>7, NotesAre, FailureKept
<1>8. CASE NoteFresh
  <2>1. log' = log
    BY <1>8 DEF NoteFresh
  <2>2. item.yolo \in Nat
    BY DEF TypeInv, Items
  <2> QED
    BY <1>2, <1>8, <2>1, <2>2, NotesAre DEF FailureInv
<1>9. CASE WriteRestartRequest \/ Send \/ Settle \/ Deliver \/ NewTask \/ RecoverObserve
           \/ RecoverDelay \/ RecoverPending \/ Recovered
  BY <1>1, <1>9 DEF WriteRestartRequest, Send, Settle, Deliver, NewTask, RecoverObserve,
                    RecoverDelay, RecoverPending, Recovered
<1>10. CASE CallFails
  <2>1. CASE recovering
    BY <1>1, <1>10, <2>1 DEF CallFails
  <2>2. CASE ~recovering
    BY <1>10, <2>2, CallEnds, FailureKept
  <2> QED
    BY <2>1, <2>2
<1>11. CASE Reload \/ Interrupt \/ DaemonRestarts \/ DaemonDrops
  BY <1>1, <1>11 DEF Reload, Interrupt, DaemonRestarts, DaemonDrops, HostRestarts
<1>12. CASE Abroad
  BY <1>1, <1>12, AbroadIs DEF ThreadGoesOn
<1>13. CASE UNCHANGED vars
  BY <1>1, <1>13 DEF vars
<1> QED
  BY <1>3, <1>5, <1>6, <1>7, <1>8, <1>9, <1>10, <1>11, <1>12, <1>13
     DEF Next, WorkerSteps, Abroad

------------------------------------------------------------------------------
(* A fresh thread that is due.                                              *)

\* Some step of a kind is still to come in a plan.
Ahead(s, K) == \E i \in 1..Len(s) : s[i] \in K

LEMMA AheadOfRest ==
  ASSUME NEW s \in Seq(Token), s # <<>>, NEW r, r = Tail(s), NEW K
  PROVE /\ Ahead(s, K) /\ s[1] \notin K => Ahead(r, K)
        /\ Ahead(r, K) => Ahead(s, K)
<1>1. /\ Len(s) \in Nat /\ Len(s) >= 1 /\ Len(r) = Len(s) - 1
      /\ \A i \in 1..(Len(s) - 1) : r[i] = s[i + 1]
  BY Rest
<1>2. ASSUME Ahead(s, K), s[1] \notin K PROVE Ahead(r, K)
  <2>1. PICK i \in 1..Len(s) : s[i] \in K
    BY <1>2 DEF Ahead
  <2>2. i # 1 /\ i - 1 \in 1..Len(r) /\ r[i - 1] = s[i]
    BY <1>1, <1>2, <2>1
  <2> QED
    BY <2>1, <2>2 DEF Ahead
<1>3. ASSUME Ahead(r, K) PROVE Ahead(s, K)
  <2>1. PICK i \in 1..Len(r) : r[i] \in K
    BY <1>3 DEF Ahead
  <2>2. i + 1 \in 1..Len(s) /\ s[i + 1] = r[i]
    BY <1>1, <2>1
  <2> QED
    BY <2>1, <2>2 DEF Ahead
<1> QED
  BY <1>2, <1>3

LEMMA AheadOfJoined ==
  ASSUME NEW p \in Seq(Token), NEW s \in Seq(Token), s # <<>>, NEW r, r = p \o Tail(s), NEW K
  PROVE /\ Ahead(s, K) /\ s[1] \notin K => Ahead(r, K)
        /\ Ahead(p, K) => Ahead(r, K)
        /\ Ahead(r, K) => Ahead(p, K) \/ Ahead(s, K)
<1>1. /\ Len(p) \in Nat /\ Len(r) = Len(p) + Len(s) - 1
      /\ \A i \in 1..Len(p) : r[i] = p[i]
      /\ \A i \in (Len(p) + 1)..Len(r) : r[i] = s[i - Len(p) + 1]
  BY Joined
<1>2. Len(s) \in Nat /\ Len(s) >= 1
  BY Rest
<1>3. ASSUME Ahead(s, K), s[1] \notin K PROVE Ahead(r, K)
  <2>1. PICK i \in 1..Len(s) : s[i] \in K
    BY <1>3 DEF Ahead
  <2> DEFINE j == Len(p) + i - 1
  <2>2. i # 1 /\ j \in (Len(p) + 1)..Len(r) /\ j - Len(p) + 1 = i /\ j \in 1..Len(r)
    BY <1>1, <1>2, <1>3, <2>1
  <2>3. r[j] = s[i]
    BY <1>1, <2>2
  <2> HIDE DEF j
  <2> QED
    BY <2>1, <2>2, <2>3 DEF Ahead
<1>4. ASSUME Ahead(p, K) PROVE Ahead(r, K)
  <2>1. PICK i \in 1..Len(p) : p[i] \in K
    BY <1>4 DEF Ahead
  <2>2. i \in 1..Len(r) /\ r[i] = p[i]
    BY <1>1, <1>2, <2>1
  <2> QED
    BY <2>1, <2>2 DEF Ahead
<1>5. ASSUME Ahead(r, K) PROVE Ahead(p, K) \/ Ahead(s, K)
  <2>1. PICK i \in 1..Len(r) : r[i] \in K
    BY <1>5 DEF Ahead
  <2>2. CASE i <= Len(p)
    <3>1. i \in 1..Len(p) /\ p[i] \in K
      BY <1>1, <1>2, <2>1, <2>2
    <3> QED
      BY <3>1 DEF Ahead
  <2>3. CASE i > Len(p)
    <3>1. i - Len(p) + 1 \in 1..Len(s) /\ s[i - Len(p) + 1] \in K
      BY <1>1, <1>2, <2>1, <2>3
    <3> QED
      BY <3>1 DEF Ahead
  <2>4. i \in Nat /\ Len(p) \in Nat
    BY <1>1, <1>2, <2>1
  <2>5. i <= Len(p) \/ i > Len(p)
    BY <2>4
  <2> QED
    BY <2>2, <2>3, <2>5
<1> QED
  BY <1>3, <1>4, <1>5

LEMMA FirstOfJoined ==
  ASSUME NEW p \in Seq(Token), NEW s \in Seq(Token), s # <<>>, NEW r, r = p \o Tail(s)
  PROVE /\ Len(p) > 0 => r[1] = p[1]
        /\ Len(p) = 0 => Len(r) = Len(s) - 1 /\ (Len(s) >= 2 => r[1] = s[2])
<1>1. /\ Len(p) \in Nat /\ Len(r) = Len(p) + Len(s) - 1
      /\ \A i \in 1..Len(p) : r[i] = p[i]
      /\ \A i \in (Len(p) + 1)..Len(r) : r[i] = s[i - Len(p) + 1]
  BY Joined
<1>2. Len(s) \in Nat /\ Len(s) >= 1
  BY Rest
<1>3. Len(p) > 0 => r[1] = p[1]
  BY <1>1, <1>2
<1>4. Len(p) = 0 => Len(r) = Len(s) - 1 /\ (Len(s) >= 2 => r[1] = s[2])
  BY <1>1, <1>2
<1> QED
  BY <1>3, <1>4

FreshAhead == Ahead(steps, {"request", "restart", "noteFresh"})

\* A thread is opened only for a failure that asked for one, and a recovery that owes the task
\* a fresh thread does not end before it is noted.
FreshInv ==
  /\ At("newTask") => FreshRecoveryRequired
  /\ recovering /\ FreshRecoveryRequired => FreshAhead

LEMMA InitFresh == Init => FreshInv
BY DEF Init, FreshInv, At, NewItem

\* Outside of a recovery nothing opens a thread.
LEMMA FreshAwake ==
  ASSUME TypeInv', PlanInv', ~recovering'
  PROVE FreshInv'
<1>1. PICK s : s = steps'
  OBVIOUS
<1>2. GatePlan(s) /\ s \in Seq(Token)
  BY <1>1 DEF PlanInv, TypeInv
<1>3. s # <<>> => Head(s) \in GateTokens
  BY <1>2, Rest DEF GatePlan
<1>4. "newTask" \notin GateTokens
  BY DEF GateTokens
<1> QED
  BY <1>1, <1>3, <1>4 DEF FreshInv, At

\* A recovery that begins again.
LEMMA FreshAgain ==
  ASSUME steps' = Recover \/ steps' = <<"request">>
  PROVE FreshInv'
<1>1. Ahead(Recover, {"request", "restart", "noteFresh"})
  <2>1. 1 \in 1..Len(Recover) /\ Recover[1] = "restart"
    BY DEF Recover
  <2> QED
    BY <2>1 DEF Ahead
<1>2. Ahead(<<"request">>, {"request", "restart", "noteFresh"})
  <2>1. 1 \in 1..Len(<<"request">>) /\ <<"request">>[1] = "request"
    OBVIOUS
  <2> QED
    BY <2>1 DEF Ahead
<1>3. Head(Recover) # "newTask" /\ Head(<<"request">>) # "newTask"
  BY DEF Recover
<1> QED
  BY <1>1, <1>2, <1>3 DEF FreshInv, FreshAhead, At

\* A step of a recovery that ends in the rest of its plan.
LEMMA FreshRest ==
  ASSUME TypeInv, PlanInv, FreshInv, recovering, steps # <<>>, steps' = Tail(steps),
         Head(steps) # "recovered",
         \/ ~FreshRecoveryRequired'
         \/ /\ Head(steps) \notin {"request", "restart", "noteFresh"}
            /\ FreshRecoveryRequired' = FreshRecoveryRequired
  PROVE FreshInv'
<1>1. steps \in Seq(Token) /\ RecoveryPlan(steps) /\ Head(steps) = steps[1]
  BY Rest DEF TypeInv, PlanInv
<1>2. PICK r : r = Tail(steps)
  OBVIOUS
<1>3. Len(steps) \in Nat /\ Len(steps) >= 1 /\ Len(r) = Len(steps) - 1
  BY <1>1, <1>2, Rest
<1>4. r # <<>> => Head(r) # "newTask"
  <2> SUFFICES ASSUME r # <<>> PROVE Head(r) # "newTask"
    OBVIOUS
  <2>1. r \in Seq(Token)
    BY <1>1, <1>2
  <2>2. Len(r) >= 1 /\ Head(r) = r[1]
    BY <2>1, Rest
  <2>3. r[1] = steps[2] /\ Len(steps) >= 2
    BY <1>1, <1>2, <1>3, <2>2, Rest
  <2>4. <<steps[1], steps[2]>> \in Follows
    BY <1>1, <1>3, <2>3 DEF RecoveryPlan, Chain
  <2> QED
    BY <2>2, <2>3, <2>4 DEF Follows
<1>5. CASE ~FreshRecoveryRequired'
  BY <1>2, <1>4, <1>5 DEF FreshInv, At
<1>6. CASE /\ Head(steps) \notin {"request", "restart", "noteFresh"}
           /\ FreshRecoveryRequired' = FreshRecoveryRequired
  <2>1. FreshAhead => Ahead(r, {"request", "restart", "noteFresh"})
    <3>1. steps \in Seq(Token) /\ steps[1] \notin {"request", "restart", "noteFresh"}
      BY <1>1, <1>6
    <3> DEFINE opening == {"request", "restart", "noteFresh"}
    <3>2. steps[1] \notin opening /\ (FreshAhead <=> Ahead(steps, opening))
      BY <3>1 DEF FreshAhead
    <3> HIDE DEF opening
    <3>3. Ahead(steps, opening) => Ahead(r, opening)
      BY <1>2, <3>1, <3>2, AheadOfRest
    <3> QED
      BY <3>2, <3>3 DEF opening
  <2>2. Ahead(r, {"request", "restart", "noteFresh"}) => FreshAhead'
    BY <1>2 DEF FreshAhead
  <2> QED
    BY <1>2, <1>4, <1>6, <2>1, <2>2 DEF FreshInv, At
<1> QED
  BY <1>5, <1>6

\* A step of a recovery that puts some steps before the rest of its plan.
LEMMA FreshJoined ==
  ASSUME TypeInv, PlanInv, FreshInv, recovering, steps # <<>>, item' = item,
         Head(steps) \in {"restart", "observe", "delay", "pending"},
         NEW p, Segment(p), steps' = p \o Tail(steps),
         Len(p) > 0 /\ p[1] = "newTask" => FreshRecoveryRequired,
         FreshRecoveryRequired =>
           \/ Head(steps) # "restart" \/ Ahead(p, {"request", "restart", "noteFresh"})
  PROVE FreshInv'
<1>1. steps \in Seq(Token) /\ RecoveryPlan(steps) /\ Head(steps) = steps[1]
  BY Rest DEF TypeInv, PlanInv
<1>2. PICK r : r = p \o Tail(steps)
  OBVIOUS
<1>3. FreshRecoveryRequired' = FreshRecoveryRequired
  BY DEF FreshRecoveryRequired
<1>4. p \in Seq(Token) /\ Len(p) \in Nat
  BY DEF Segment
<1> DEFINE K == {"request", "restart", "noteFresh"}
<1> HIDE DEF K
<1>5. /\ Ahead(steps, K) /\ steps[1] \notin K => Ahead(r, K)
      /\ Ahead(p, K) => Ahead(r, K)
      /\ Len(p) > 0 => r[1] = p[1]
      /\ Len(p) = 0 => Len(r) = Len(steps) - 1 /\ (Len(steps) >= 2 => r[1] = steps[2])
  <2>1. PICK s \in Seq(Token) : s = steps /\ s # <<>>
    BY <1>1
  <2>2. r = p \o Tail(s)
    BY <1>2, <2>1
  <2>3. /\ Ahead(s, K) /\ s[1] \notin K => Ahead(r, K)
        /\ Ahead(p, K) => Ahead(r, K)
    BY <1>4, <2>1, <2>2, AheadOfJoined
  <2>4. /\ Len(p) > 0 => r[1] = p[1]
        /\ Len(p) = 0 => Len(r) = Len(s) - 1 /\ (Len(s) >= 2 => r[1] = s[2])
    BY <1>4, <2>1, <2>2, FirstOfJoined
  <2> QED
    BY <2>1, <2>3, <2>4
<1>6. FreshRecoveryRequired => Ahead(r, K)
  BY <1>1, <1>5 DEF FreshInv, FreshAhead, K
<1>7. r # <<>> /\ Head(r) = "newTask" => FreshRecoveryRequired
  <2> SUFFICES ASSUME r # <<>>, Head(r) = "newTask" PROVE FreshRecoveryRequired
    OBVIOUS
  <2>1. r \in Seq(Token)
    <3>1. Tail(steps) \in Seq(Token)
      BY <1>1
    <3> QED
      BY <1>2, <1>4, <3>1, ConcatProperties
  <2>2. r[1] = "newTask" /\ Len(r) >= 1
    BY <2>1, Rest
  <2>3. CASE Len(p) > 0
    BY <1>5, <2>2, <2>3
  <2>4. CASE Len(p) = 0
    <3>1. Len(steps) >= 2 /\ Len(steps) \in Nat
      BY <1>1, <1>5, <2>2, <2>4
    <3>2. r[1] = steps[2] /\ <<steps[1], steps[2]>> \in Follows
      BY <1>1, <1>5, <2>4, <3>1 DEF RecoveryPlan, Chain
    <3> QED
      BY <2>2, <3>2 DEF Follows
  <2> QED
    BY <1>4, <2>3, <2>4
<1> QED
  BY <1>2, <1>3, <1>6, <1>7 DEF FreshInv, FreshAhead, At, K

LEMMA Owed ==
  ASSUME TypeInv, FailureInv, RepeatedYoloFailure
  PROVE FreshRecoveryRequired
<1>1. item.failure \in Nat /\ item.fresh \in Nat
  BY DEF TypeInv, Items
<1> QED
  BY <1>1 DEF RepeatedYoloFailure, FailureInv, FreshRecoveryRequired

LEMMA StepFresh == TypeInv /\ PlanInv /\ FailureInv /\ FreshInv /\ [Next]_vars => FreshInv'
<1> SUFFICES ASSUME TypeInv, PlanInv, FailureInv, FreshInv, [Next]_vars PROVE FreshInv'
  OBVIOUS
<1>1. TypeInv' /\ PlanInv'
  BY StepTypes, StepPlan
<1>2. ASSUME ~recovering' PROVE FreshInv'
  BY <1>1, <1>2, FreshAwake
<1>3. ASSUME item' = item PROVE FreshRecoveryRequired' = FreshRecoveryRequired
  BY <1>3 DEF FreshRecoveryRequired
<1>4. steps # <<>> => Head(steps) = steps[1] /\ Len(steps) >= 1 /\ Len(steps) \in Nat
  BY Awake
<1>5. ASSUME recovering, steps # <<>> PROVE Head(steps) \in RecoveryTokens
  BY <1>4, <1>5 DEF PlanInv, RecoveryPlan
<1>6. CASE Gates
  BY <1>2, <1>6, GatesAre
<1>7. CASE Escalate
  BY <1>2, <1>5, <1>7 DEF Escalate, At, RecoveryTokens
<1>8. CASE WriteRestartRequest
  BY <1>2, <1>8, FreshAgain DEF WriteRestartRequest, Restarted
<1>9. CASE Send
  <2>1. Head(steps) \notin {"recovered", "request", "restart", "noteFresh"}
    BY <1>9 DEF Send, Requests, GateRequests
  <2> QED
    BY <1>2, <1>3, <1>9, <2>1, FreshRest DEF Send
<1>10. CASE Settle \/ Deliver \/ NoteVerify \/ NoteReflect
  BY <1>2, <1>5, <1>10 DEF Settle, Deliver, NoteVerify, NoteReflect, At, RecoveryTokens
<1>11. CASE NoteDelivered
  <2>1. FreshRecoveryRequired' = FreshRecoveryRequired
    BY <1>11, NotesAre DEF FreshRecoveryRequired, SameFailures
  <2> QED
    BY <1>2, <1>11, <2>1, FreshRest DEF NoteDelivered, At
<1>12. CASE NewTask
  BY <1>2, <1>3, <1>12, FreshRest DEF NewTask, At
<1>13. CASE NoteFresh
  <2>1. ~FreshRecoveryRequired'
    BY <1>13, NotesAre DEF FreshRecoveryRequired
  <2> QED
    BY <1>2, <1>13, <2>1, FreshRest DEF NoteFresh, At
<1>14. CASE RecoverRestart
  <2>1. CASE YoloRestartRequired
    BY <1>14, <2>1, FreshAgain DEF RecoverRestart
  <2>2. CASE ~YoloRestartRequired /\ FreshRecoveryRequired
    <3>1. PICK p : p = Fresh
      OBVIOUS
    <3>2. steps' = p \o Tail(steps)
      BY <1>14, <2>2, <3>1 DEF RecoverRestart
    <3>3. Segment(p) /\ Ahead(p, {"request", "restart", "noteFresh"})
      <4>1. 3 \in 1..Len(Fresh) /\ Fresh[3] = "noteFresh"
        BY DEF Fresh
      <4> QED
        BY <3>1, <4>1, Segments DEF Ahead
    <3> QED
      BY <1>2, <1>14, <2>2, <3>2, <3>3, FreshJoined DEF RecoverRestart, At
  <2>3. CASE ~YoloRestartRequired /\ ~FreshRecoveryRequired
    <3>1. PICK p : p = <<>>
      OBVIOUS
    <3>2. steps' = p \o Tail(steps)
      BY <1>14, <2>3, <3>1 DEF RecoverRestart
    <3>3. Segment(p) /\ ~(Len(p) > 0 /\ p[1] = "newTask")
      BY <3>1, Segments
    <3>4. steps # <<>> /\ Head(steps) = "restart" /\ item' = item /\ recovering' = recovering
      BY <1>14, <2>3 DEF RecoverRestart, At
    <3>5. CASE recovering
      BY <2>3, <3>2, <3>3, <3>4, <3>5, FreshJoined
    <3> QED
      BY <1>2, <3>4, <3>5
  <2> QED
    BY <2>1, <2>2, <2>3
<1>15. CASE RecoverObserve
  <2>1. PICK p : p \in {<<>>, <<"delay">>} /\ steps' = p \o Tail(steps)
    BY <1>15 DEF RecoverObserve
  <2>2. Segment(p)
    BY <2>1, Segments
  <2>3. Len(p) > 0 => p[1] # "newTask"
    BY <2>1
  <2> QED
    BY <1>2, <1>15, <2>1, <2>2, <2>3, FreshJoined DEF RecoverObserve, At
<1>16. CASE RecoverDelay
  <2>1. PICK p : p \in {<<>>, <<"goOn">>} /\ steps' = p \o Tail(steps)
    BY <1>16 DEF RecoverDelay
  <2>2. Segment(p)
    BY <2>1, Segments
  <2>3. Len(p) > 0 => p[1] # "newTask"
    BY <2>1
  <2> QED
    BY <1>2, <1>16, <2>1, <2>2, <2>3, FreshJoined DEF RecoverDelay, At
<1>17. CASE RecoverPending
  <2>1. PICK p : /\ \/ p = <<>> \/ p = <<"continue", "noteDelivered">>
                    \/ p = Fresh /\ RepeatedYoloFailure
                 /\ steps' = p \o Tail(steps)
    BY <1>17 DEF RecoverPending
  <2>2. Segment(p)
    BY <2>1, Segments
  <2>3. Len(p) > 0 /\ p[1] = "newTask" => FreshRecoveryRequired
    <3>1. CASE p = <<>> \/ p = <<"continue", "noteDelivered">>
      BY <3>1
    <3>2. CASE RepeatedYoloFailure
      BY <3>2, Owed
    <3> QED
      BY <2>1, <3>1, <3>2
  <2> QED
    BY <1>2, <1>17, <2>1, <2>2, <2>3, FreshJoined DEF RecoverPending, At
<1>18. CASE Recovered
  BY <1>2, <1>18 DEF Recovered
<1>19. CASE CallFails
  <2>1. CASE recovering
    BY <1>19, <2>1, FreshAgain DEF CallFails
  <2>2. CASE ~recovering
    BY <1>2, <1>19, <2>2 DEF CallFails
  <2> QED
    BY <2>1, <2>2
<1>20. CASE Reload \/ DaemonRestarts
  BY <1>20, FreshAgain DEF Reload, DaemonRestarts, HostRestarts
<1>21. CASE Interrupt
  BY <1>2, <1>21, FreshAgain DEF Interrupt, Restarted
<1>22. CASE DaemonDrops \/ Abroad \/ UNCHANGED vars
  <2>1. item' = item /\ steps' = steps /\ recovering' = recovering
    BY <1>22, AbroadIs DEF DaemonDrops, ThreadGoesOn, vars
  <2> QED
    BY <1>3, <2>1 DEF FreshInv, FreshAhead, At
<1> QED
  BY <1>6, <1>7, <1>8, <1>9, <1>10, <1>11, <1>12, <1>13, <1>14, <1>15, <1>16, <1>17, <1>18,
     <1>19, <1>20, <1>21, <1>22 DEF Next, WorkerSteps, Abroad

------------------------------------------------------------------------------
(* The flags of the record and the thread it is bound to.                   *)

\* A request is noted only where it was sent.
NoteInv ==
  /\ At("noteVerify") => InThread("verify")
  /\ At("noteReflect") => InThread("reflect")

\* The flags speak of the newest thread, except between its opening and its note.
TruthInv ==
  \/ recovering /\ FreshRecoveryRequired
  \/ (item.verified => InThread("verify")) /\ (item.reflected => InThread("reflect"))

\* A request stays in its thread as long as no other is opened.
LEMMA ThreadKept ==
  ASSUME TypeInv, [Next]_vars, ~NewTask, NEW kind \in {"verify", "reflect"}, InThread(kind)
  PROVE InThread(kind)'
<1>1. Log(log) /\ Len(log) \in Nat
  BY LogIs DEF TypeInv
<1>2. CASE log' = log
  BY <1>2 DEF InThread
<1>3. CASE \E e \in Entries \ {"task"} : log' = Append(log, e)
  <2>1. PICK e \in Entries \ {"task"} : log' = Append(log, e)
    BY <1>3
  <2>4. "task" \notin {kind}
    BY kind = "verify" \/ kind = "reflect"
  <2>2. PICK K : K = {kind} /\ "task" \notin K
    BY <2>4
  <2>3. LastOf(log', K) \in {LastOf(log, K), Len(log) + 1}
    BY <1>1, <2>1, <2>2, LastOfGrown
  <2> QED
    BY <1>1, <2>2, <2>3 DEF InThread
<1>4. log' = log \/ \E e \in Entries \ {"task"} : log' = Append(log, e)
  <2>1. "task" \notin Requests
    BY DEF Requests, GateRequests
  <2> QED
    BY <2>1, WritersAre DEF Send, ThreadGoesOn, Deed
<1> QED
  BY <1>2, <1>3, <1>4

\* What is noted next was sent last.
LEMMA NotedAfter ==
  ASSUME TypeInv, PlanInv, steps # <<>>, steps' = Tail(steps)
  PROVE /\ At("noteVerify")' => Head(steps) = "verify"
        /\ At("noteReflect")' => Head(steps) = "reflect"
<1>1. steps \in Seq(Token) /\ Chain(steps) /\ Head(steps) = steps[1]
  BY Rest DEF TypeInv, PlanInv, RecoveryPlan, GatePlan
<1>2. PICK r : r = Tail(steps)
  OBVIOUS
<1>3. ASSUME r # <<>> PROVE <<Head(steps), Head(r)>> \in Follows
  <2>1. r \in Seq(Token)
    BY <1>1, <1>2
  <2>2. Len(r) >= 1 /\ Head(r) = r[1]
    BY <1>3, <2>1, Rest
  <2>3. /\ Len(steps) \in Nat /\ Len(r) = Len(steps) - 1
        /\ \A i \in 1..(Len(steps) - 1) : r[i] = steps[i + 1]
    BY <1>1, <1>2, Rest
  <2>4. r[1] = steps[2] /\ 1 \in 1..(Len(steps) - 1)
    BY <2>2, <2>3
  <2> QED
    BY <1>1, <2>2, <2>4 DEF Chain
<1> QED
  BY <1>2, <1>3 DEF At, Follows

LEMMA StepNote == TypeInv /\ PlanInv /\ NoteInv /\ [Next]_vars => NoteInv'
<1> SUFFICES ASSUME TypeInv, PlanInv, NoteInv, [Next]_vars PROVE NoteInv'
  OBVIOUS
<1>1. PlanInv' /\ TypeInv'
  BY StepPlan, StepTypes
<1>2. ASSUME recovering' PROVE NoteInv'
  <2>1. PICK s : s = steps'
    OBVIOUS
  <2>2. RecoveryPlan(s) /\ s \in Seq(Token)
    BY <1>1, <1>2, <2>1 DEF PlanInv, TypeInv
  <2>3. s # <<>> => Head(s) \in RecoveryTokens
    BY <2>2, Rest DEF RecoveryPlan
  <2> QED
    BY <2>1, <2>3 DEF NoteInv, At, RecoveryTokens
<1>3. ASSUME steps' \in {<<>>, Ended, <<"request">>, CompactAndContinue, Continuation}
      PROVE NoteInv'
  BY <1>3 DEF NoteInv, At, Ended, CompactAndContinue, Continuation
<1>4. CASE Gates
  BY <1>4, GatesAre DEF EndsRecord, MeetsOverflow, MeetsFailure, SendsBack, Corrects, AsksWork,
                        AsksCheck, NoteInv, At, Ended, CompactAndContinue
<1>5. CASE Send
  <2>1. steps # <<>> /\ steps' = Tail(steps) /\ Head(steps) \in Entries
    BY <1>5, WritersAre DEF Send, Entries, Feedback
  <2>2. Log(log) /\ Len(log) \in Nat /\ log' = Append(log, Head(steps))
    BY <1>5, LogIs DEF TypeInv, Send
  <2>3. ASSUME NEW kind \in {"verify", "reflect"}, Head(steps) = kind PROVE InThread(kind)'
    <3>3. "task" \notin {kind}
      BY kind = "verify" \/ kind = "reflect"
    <3>1. PICK K : K = {kind} /\ "task" \notin K
      BY <3>3
    <3>2. LastOf(log', K) = Len(log) + 1
      BY <2>1, <2>2, <2>3, <3>1, LastOfGrown
    <3> QED
      BY <2>2, <3>1, <3>2 DEF InThread
  <2> QED
    BY <2>1, <2>3, NotedAfter DEF NoteInv
<1>6. CASE Settle \/ NoteDelivered \/ NoteVerify \/ NoteReflect \/ NewTask \/ NoteFresh
           \/ Recovered
  BY <1>6, NotedAfter DEF Settle, NoteDelivered, NoteVerify, NoteReflect, NewTask, NoteFresh,
                          Recovered, At, NoteInv
<1>7. CASE Deliver
  BY <1>3, <1>7 DEF Deliver
<1>8. CASE Escalate \/ WriteRestartRequest
  BY <1>2, <1>3, <1>8 DEF Escalate, WriteRestartRequest, Restarted
<1>9. CASE RecoverRestart \/ RecoverObserve \/ RecoverDelay \/ RecoverPending
  <2>1. recovering
    <3>1. /\ steps # <<>> /\ Head(steps) \in {"restart", "observe", "delay", "pending"}
      BY <1>9 DEF RecoverRestart, RecoverObserve, RecoverDelay, RecoverPending, At
    <3> QED
      BY <3>1, Awake DEF GatePlan, GateTokens
  <2> QED
    BY <1>2, <1>9, <2>1 DEF RecoverRestart, RecoverObserve, RecoverDelay, RecoverPending
<1>10. CASE CallFails
  BY <1>2, <1>3, <1>10 DEF CallFails, Finishes
<1>11. CASE Reload \/ DaemonRestarts
  BY <1>2, <1>11 DEF Reload, DaemonRestarts, HostRestarts
<1>12. CASE Interrupt
  BY <1>2, <1>3, <1>12 DEF Interrupt, Restarted
<1>13. CASE DaemonDrops \/ Abroad \/ UNCHANGED vars
  <2>1. steps' = steps
    BY <1>13, AbroadIs DEF DaemonDrops, ThreadGoesOn, vars
  <2>2. CASE NewTask
    BY <2>2, NotedAfter DEF NewTask, At, NoteInv
  <2>3. CASE ~NewTask
    BY <2>1, <2>3, ThreadKept DEF NoteInv, At
  <2> QED
    BY <2>2, <2>3
<1> QED
  BY <1>4, <1>5, <1>6, <1>7, <1>8, <1>9, <1>10, <1>11, <1>12, <1>13
     DEF Next, WorkerSteps, Abroad

\* A thread is opened in a recovery.
LEMMA OpensInRecovery ==
  ASSUME TypeInv, PlanInv, At("newTask") \/ At("noteFresh") \/ At("recovered")
  PROVE recovering
BY Awake DEF At, GatePlan, GateTokens

\* At its last step a recovery owes no thread.
LEMMA NothingOwed ==
  ASSUME TypeInv, PlanInv, FreshInv, At("recovered")
  PROVE ~FreshRecoveryRequired
<1>1. recovering /\ RecoveryPlan(steps) /\ steps \in Seq(Token) /\ steps # <<>>
  BY OpensInRecovery DEF PlanInv, TypeInv, At
<1>2. steps[1] = "recovered" /\ Len(steps) \in Nat /\ Len(steps) >= 1
  BY <1>1, Rest DEF At
<1>3. \A i \in 1..Len(steps) : i < 2
  <2>1. CASE Len(steps) >= 2
    <3>1. <<steps[1], steps[2]>> \in Follows
      BY <1>1, <1>2, <2>1 DEF RecoveryPlan, Chain
    <3> QED
      BY <1>2, <3>1 DEF Follows
  <2>2. CASE ~(Len(steps) >= 2)
    BY <1>2, <2>2
  <2> QED
    BY <2>1, <2>2
<1>4. ~FreshAhead
  BY <1>2, <1>3 DEF FreshAhead, Ahead
<1> QED
  BY <1>1, <1>4 DEF FreshInv

LEMMA StepTruth ==
  TypeInv /\ PlanInv /\ FailureInv /\ FreshInv /\ NoteInv /\ TruthInv /\ [Next]_vars => TruthInv'
<1> SUFFICES ASSUME TypeInv, PlanInv, FailureInv, FreshInv, NoteInv, TruthInv, [Next]_vars
             PROVE TruthInv'
  OBVIOUS
<1>1. ASSUME ~NewTask, SameFlags(item', item), recovering' = recovering \/ recovering',
             FreshRecoveryRequired => FreshRecoveryRequired'
      PROVE TruthInv'
  <2>1. /\ InThread("verify") => InThread("verify")'
        /\ InThread("reflect") => InThread("reflect")'
    BY <1>1, ThreadKept
  <2> QED
    BY <1>1, <2>1 DEF TruthInv, SameFlags
<1>2. ASSUME ~NewTask, item' = item, recovering' = recovering \/ recovering' PROVE TruthInv'
  BY <1>1, <1>2 DEF SameFlags, FreshRecoveryRequired
<1>3. CASE NewTask
  <2>1. FreshRecoveryRequired /\ recovering
    BY <1>3, OpensInRecovery DEF NewTask, FreshInv
  <2> QED
    BY <1>3, <2>1 DEF NewTask, TruthInv, FreshRecoveryRequired
<1>4. CASE ~NewTask /\ Gates
  <2>1. log' = log /\ ~recovering /\ SameFlags(item', item)
    BY <1>4, GatesAre
  <2> QED
    BY <2>1 DEF TruthInv, SameFlags, InThread
<1>5. ASSUME ~NewTask, AsksRestart, recovering' = recovering PROVE TruthInv'
  <2>1. item.pending.kind = "failure" /\ item.failure \in Nat /\ item.fresh \in Nat
    BY <1>5 DEF AsksRestart, YoloRestartRequired, TypeInv, Items
  <2>2. FreshRecoveryRequired' /\ SameFlags(item', item)
    BY <1>5, <2>1, RestartIs DEF FailureInv, FreshRecoveryRequired
  <2> QED
    BY <1>1, <1>5, <2>2
<1>6. CASE ~NewTask /\ (Escalate \/ RecoverRestart)
  <2>1. recovering' = recovering /\ (AsksRestart \/ item' = item)
    BY <1>6 DEF Escalate, RecoverRestart, AsksRestart
  <2> QED
    BY <1>2, <1>5, <1>6, <2>1
<1>7. CASE ~NewTask /\ NoteDelivered
  <2>1. SameFlags(item', item) /\ FreshRecoveryRequired' = FreshRecoveryRequired
    BY <1>7, NotesAre DEF SameFailures, FreshRecoveryRequired
  <2> QED
    BY <1>1, <1>7, <2>1 DEF NoteDelivered
<1>8. CASE NoteVerify \/ NoteReflect
  <2>1. ~recovering /\ log' = log
    BY <1>8, Awake DEF NoteVerify, NoteReflect, At, RecoveryPlan, RecoveryTokens
  <2> QED
    BY <1>8, <2>1, NotesAre DEF NoteVerify, NoteReflect, NoteInv, TruthInv, InThread
<1>9. CASE NoteFresh
  BY <1>9, NotesAre DEF TruthInv
<1>10. CASE Recovered
  <2>1. ~FreshRecoveryRequired /\ item' = item /\ log' = log
    BY <1>10, NothingOwed DEF Recovered
  <2> QED
    BY <2>1 DEF TruthInv, InThread
<1>11. CASE /\ ~NewTask
            /\ WriteRestartRequest \/ Send \/ Settle \/ Deliver \/ RecoverObserve
               \/ RecoverDelay \/ RecoverPending
  BY <1>2, <1>11 DEF WriteRestartRequest, Send, Settle, Deliver, RecoverObserve, RecoverDelay,
                     RecoverPending
<1>12. CASE ~NewTask /\ CallFails
  <2>1. CASE recovering
    BY <1>2, <1>12, <2>1 DEF CallFails
  <2>2. CASE ~recovering
    BY <1>1, <1>12, <2>2, CallEnds DEF CallFails, SameFailures, FreshRecoveryRequired
  <2> QED
    BY <2>1, <2>2
<1>13. CASE ~NewTask /\ (Reload \/ DaemonRestarts \/ Interrupt \/ DaemonDrops)
  BY <1>2, <1>13 DEF Reload, DaemonRestarts, Interrupt, DaemonDrops, HostRestarts
<1>14. CASE ~NewTask /\ (Abroad \/ UNCHANGED vars)
  BY <1>2, <1>14, AbroadIs DEF ThreadGoesOn, vars
<1> QED
  BY <1>3, <1>4, <1>6, <1>7, <1>8, <1>9, <1>10, <1>11, <1>12, <1>13, <1>14
     DEF Next, WorkerSteps, Abroad

RecordInv == TypeInv /\ PlanInv /\ FailureInv /\ FreshInv /\ NoteInv /\ TruthInv

LEMMA InitRecord == Init => RecordInv
<1>1. Init => NoteInv /\ TruthInv
  BY DEF Init, NewItem, NoteInv, TruthInv, At
<1> QED
  BY <1>1, InitTypes, InitPlan, InitFailure, InitFresh DEF RecordInv

LEMMA StepRecord == RecordInv /\ [Next]_vars => RecordInv'
BY StepTypes, StepPlan, StepFailure, StepFresh, StepNote, StepTruth DEF RecordInv

LEMMA RecordAlways == Spec => []RecordInv
BY InitRecord, StepRecord, PTL DEF Spec

\* A record counts as verified, or as reflected upon, only for the thread it is bound to,
\* however often the host died between a request and its note, and however many threads a
\* failure in YOLO mode made the queue open.
THEOREM FlagsTrue == Spec => []FlagsTellTruth
<1>1. RecordInv => FlagsTellTruth
  BY DEF RecordInv, TruthInv, FlagsTellTruth
<1> QED
  BY <1>1, RecordAlways, PTL

------------------------------------------------------------------------------
(* A completion is answered once.                                           *)

Completions == Claims \cup {"reopened"}

LEMMA Kinds ==
  /\ "task" \notin Completions /\ "task" \notin GateRequests /\ "task" \notin Edits
  /\ "task" \notin Requests /\ GateRequests \subseteq Requests
  /\ Completions \cap GateRequests = {} /\ Completions \subseteq Deed
  /\ GateRequests \cap RecoveryTokens = {} /\ GateRequests \cap Edits = {}
BY DEF Completions, Claims, GateRequests, Edits, Requests, Deed, Entries, RecoveryTokens, Feedback

\* A thread that claims completion was not asked anything since.
LEMMA ClaimIsNew ==
  ASSUME Log(log), ClaimsCompletion(log)
  PROVE /\ LastOf(log, Completions) = Len(log) /\ Len(log) \in Nat /\ Len(log) >= 1
        /\ LastOf(log, GateRequests) < Len(log) /\ LastOf(log, GateRequests) \in Nat
        /\ log[Len(log)] \in Completions /\ Len(log) > ThreadStart(log)
<1>1. log[Len(log)] \in Completions /\ Len(log) \in 1..Len(log) /\ Len(log) \in Nat
  BY LogIs DEF ClaimsCompletion, Completions
<1>2. ThreadStart(log) \in 1..Len(log) /\ ThreadStart(log) # Len(log)
  BY <1>1, ThreadStartIs, Kinds
<1>3. Len(log) > ThreadStart(log)
  BY <1>1, <1>2
<1>4. /\ LastOf(log, Completions) \in 0..Len(log)
      /\ \A j \in 1..Len(log) : j > ThreadStart(log) /\ log[j] \in Completions
           => j <= LastOf(log, Completions)
  BY Kinds, LastOfIs
<1>5. LastOf(log, Completions) = Len(log)
  BY <1>1, <1>3, <1>4
<1>6. /\ LastOf(log, GateRequests) \in 0..Len(log)
      /\ LastOf(log, GateRequests) # 0 => log[LastOf(log, GateRequests)] \in GateRequests
  BY Kinds, LastOfIs
<1>7. LastOf(log, GateRequests) # Len(log)
  BY <1>1, <1>6, Kinds
<1> QED
  BY <1>1, <1>3, <1>5, <1>6, <1>7

\* A request of a gate is planned only over a completion that is not answered.
AskInv == steps # <<>> /\ Head(steps) \in GateRequests => ~Answered

\* Nothing that follows a step of a plan is a request of a gate.
LEMMA NextIs ==
  ASSUME TypeInv, PlanInv, steps # <<>>, steps' = Tail(steps)
  PROVE steps' # <<>> => <<Head(steps), Head(steps')>> \in Follows
<1>1. steps \in Seq(Token) /\ Chain(steps) /\ Head(steps) = steps[1]
  BY Rest DEF TypeInv, PlanInv, RecoveryPlan, GatePlan
<1>2. PICK r : r = Tail(steps)
  OBVIOUS
<1>3. ASSUME r # <<>> PROVE <<Head(steps), Head(r)>> \in Follows
  <2>1. r \in Seq(Token)
    BY <1>1, <1>2
  <2>2. Len(r) >= 1 /\ Head(r) = r[1]
    BY <1>3, <2>1, Rest
  <2>3. /\ Len(steps) \in Nat /\ Len(r) = Len(steps) - 1
        /\ \A i \in 1..(Len(steps) - 1) : r[i] = steps[i + 1]
    BY <1>1, <1>2, Rest
  <2>4. r[1] = steps[2] /\ 1 \in 1..(Len(steps) - 1)
    BY <2>2, <2>3
  <2> QED
    BY <1>1, <2>2, <2>4 DEF Chain
<1> QED
  BY <1>2, <1>3

LEMMA StepAsk == TypeInv /\ PlanInv /\ AskInv /\ [Next]_vars => AskInv'
<1> SUFFICES ASSUME TypeInv, PlanInv, AskInv, [Next]_vars PROVE AskInv'
  OBVIOUS
<1>1. PlanInv' /\ TypeInv'
  BY StepPlan, StepTypes
<1>2. ASSUME recovering' PROVE AskInv'
  <2>1. PICK s : s = steps'
    OBVIOUS
  <2>2. RecoveryPlan(s) /\ s \in Seq(Token)
    BY <1>1, <1>2, <2>1 DEF PlanInv, TypeInv
  <2>3. s # <<>> => Head(s) \in RecoveryTokens
    BY <2>2, Rest DEF RecoveryPlan
  <2> QED
    BY <2>1, <2>3, Kinds DEF AskInv
<1>3. ASSUME steps' \in {<<>>, Ended, <<"request">>, CompactAndContinue, Continuation}
      PROVE AskInv'
  BY <1>3 DEF AskInv, Ended, CompactAndContinue, Continuation, GateRequests
<1>4. ASSUME steps # <<>>, steps' = Tail(steps) PROVE AskInv'
  BY <1>4, NextIs DEF AskInv, Follows, GateRequests
<1>5. ASSUME Gates, ClaimsCompletion(log) PROVE AskInv'
  <2>1. ~Answered /\ log' = log
    BY <1>5, GatesAre, ClaimIsNew DEF Answered, TypeInv, Completions
  <2> QED
    BY <2>1 DEF AskInv, Answered
<1>6. CASE Gates
  <2>1. CASE Corrects \/ AsksWork \/ AsksCheck
    BY <1>5, <1>6, <2>1 DEF Corrects, AsksWork, AsksCheck
  <2>2. CASE EndsRecord \/ MeetsOverflow
    BY <1>3, <2>2 DEF EndsRecord, MeetsOverflow
  <2>3. CASE MeetsFailure \/ SendsBack
    BY <2>3 DEF MeetsFailure, SendsBack, AskInv, GateRequests
  <2> QED
    BY <1>6, <2>1, <2>2, <2>3, GatesAre
<1>7. CASE Send \/ Settle \/ NoteDelivered \/ NoteVerify \/ NoteReflect \/ NewTask \/ NoteFresh
           \/ Recovered
  BY <1>4, <1>7 DEF Send, Settle, NoteDelivered, NoteVerify, NoteReflect, NewTask, NoteFresh,
                    Recovered, At
<1>8. CASE Deliver
  BY <1>3, <1>8 DEF Deliver
<1>9. CASE Escalate \/ WriteRestartRequest
  BY <1>2, <1>3, <1>9 DEF Escalate, WriteRestartRequest, Restarted
<1>10. CASE RecoverRestart \/ RecoverObserve \/ RecoverDelay \/ RecoverPending
  <2>1. recovering
    <3>1. /\ steps # <<>> /\ Head(steps) \in {"restart", "observe", "delay", "pending"}
      BY <1>10 DEF RecoverRestart, RecoverObserve, RecoverDelay, RecoverPending, At
    <3> QED
      BY <3>1, Awake DEF GatePlan, GateTokens
  <2> QED
    BY <1>2, <1>10, <2>1 DEF RecoverRestart, RecoverObserve, RecoverDelay, RecoverPending
<1>11. CASE CallFails
  BY <1>2, <1>3, <1>11 DEF CallFails, Finishes
<1>12. CASE Reload \/ DaemonRestarts
  BY <1>2, <1>12 DEF Reload, DaemonRestarts, HostRestarts
<1>13. CASE Interrupt
  BY <1>2, <1>3, <1>13 DEF Interrupt, Restarted
<1>14. CASE Abroad
  <2>1. ThreadGoesOn /\ steps' = steps /\ Log(log) /\ Len(log) \in Nat
    BY <1>14, AbroadIs, LogIs DEF ThreadGoesOn, TypeInv
  <2>2. PICK e \in Deed : log' = Append(log, e)
    BY <2>1 DEF ThreadGoesOn
  <2>3. e \in Entries /\ e # "task" /\ e \notin GateRequests
    BY <2>2, Kinds DEF Deed
  <2>4. /\ LastOf(log', GateRequests) = LastOf(log, GateRequests)
        /\ LastOf(log', Completions) \in {LastOf(log, Completions), Len(log) + 1}
    BY <2>1, <2>2, <2>3, LastOfGrown, Kinds
  <2>5. /\ LastOf(log, GateRequests) \in Nat /\ LastOf(log, GateRequests) <= Len(log)
        /\ LastOf(log, Completions) \in Nat
    BY <2>1, MarkerIs, Kinds
  <2> QED
    BY <2>1, <2>4, <2>5 DEF AskInv, Answered, Completions
<1>15. CASE DaemonDrops \/ UNCHANGED vars
  BY <1>15 DEF DaemonDrops, vars, AskInv, Answered
<1> QED
  BY <1>6, <1>7, <1>8, <1>9, <1>10, <1>11, <1>12, <1>13, <1>14, <1>15
     DEF Next, WorkerSteps, Abroad

LEMMA AskAlways == Spec => []AskInv
<1>1. Init => AskInv
  BY DEF Init, AskInv
<1>2. RecordInv /\ AskInv /\ [Next]_vars => AskInv'
  BY StepAsk DEF RecordInv
<1> QED
  BY <1>1, <1>2, RecordAlways, PTL DEF Spec

\* A completion report is answered by one message of a gate: no host that dies between the
\* message and its note, and no recovery, makes the queue ask again before Cline has reported
\* completion again.
THEOREM OneRequest == Spec => OneRequestPerClaim
<1>1. /\ RecordInv /\ AskInv /\ [Next]_vars
      => [log' # log /\ Last(log') \in GateRequests => ~Answered]_vars
  <2> SUFFICES ASSUME RecordInv, AskInv, [Next]_vars, log' # log, Last(log') \in GateRequests
               PROVE ~Answered
    OBVIOUS
  <2>1. TypeInv /\ Log(log)
    BY DEF RecordInv, TypeInv
  <2>2. CASE Send /\ steps # <<>> /\ Head(steps) \in Requests /\ Requests \subseteq Entries
    <3>1. Last(log') = Head(steps)
      BY <2>1, <2>2, Grown DEF Send
    <3> QED
      BY <2>2, <3>1 DEF AskInv
  <2>3. CASE NewTask /\ "task" \in Entries
    BY <2>1, <2>3, Grown, Kinds DEF NewTask
  <2>4. CASE ThreadGoesOn
    <3>1. PICK e \in Deed : log' = Append(log, e)
      BY <2>4 DEF ThreadGoesOn
    <3>2. e \in Entries /\ e \notin GateRequests
      BY <3>1, Kinds DEF Deed
    <3> QED
      BY <2>1, <3>1, <3>2, Grown
  <2> QED
    BY <2>1, <2>2, <2>3, <2>4, WritersAre
<1> QED
  BY <1>1, RecordAlways, AskAlways, PTL DEF Spec, OneRequestPerClaim

------------------------------------------------------------------------------
(* Counting entries.                                                        *)

LEMMA CountIs ==
  ASSUME NEW s, Log(s), NEW K
  PROVE /\ {i \in DOMAIN s : s[i] \in K} \in SUBSET (1..Len(s))
        /\ IsFiniteSet({i \in DOMAIN s : s[i] \in K}) /\ Count(s, K) \in Nat
<1>1. DOMAIN s = 1..Len(s) /\ Len(s) \in Nat
  BY LogIs
<1>2. IsFiniteSet(1..Len(s))
  BY <1>1, FS_Interval
<1>3. {i \in DOMAIN s : s[i] \in K} \subseteq 1..Len(s)
  BY <1>1
<1>4. IsFiniteSet({i \in DOMAIN s : s[i] \in K})
  BY <1>2, <1>3, FS_Subset
<1> QED
  BY <1>3, <1>4, FS_CardinalityType DEF Count

LEMMA CountAdded ==
  ASSUME NEW s, Log(s), NEW e \in Entries, NEW r, Adds(s, e, r), NEW K
  PROVE /\ e \in K => Count(r, K) = Count(s, K) + 1
        /\ e \notin K => Count(r, K) = Count(s, K)
<1> DEFINE I == {i \in DOMAIN s : s[i] \in K}
           J == {i \in DOMAIN r : r[i] \in K}
<1>1. /\ Log(r) /\ Len(r) = Len(s) + 1 /\ r[Len(r)] = e
      /\ \A i \in 1..Len(s) : r[i] = s[i]
  BY EntryAdded
<1>2. DOMAIN s = 1..Len(s) /\ DOMAIN r = 1..Len(r) /\ Len(s) \in Nat
  BY <1>1, LogIs
<1>3. I \in SUBSET (1..Len(s)) /\ IsFiniteSet(I)
  BY CountIs
<1>4. CASE e \in K
  <2>1. J = I \cup {Len(s) + 1} /\ Len(s) + 1 \notin I
    BY <1>1, <1>2, <1>3, <1>4
  <2> HIDE DEF I, J
  <2>2. Cardinality(J) = Cardinality(I) + 1
    BY <1>3, <2>1, FS_AddElement
  <2> QED
    BY <1>4, <2>2 DEF Count, I, J
<1>5. CASE e \notin K
  <2>1. J = I
    BY <1>1, <1>2, <1>3, <1>5
  <2> QED
    BY <1>5, <2>1 DEF Count
<1> QED
  BY <1>4, <1>5

LEMMA CountTwo ==
  ASSUME NEW s, Log(s), NEW K, NEW i \in 1..Len(s), NEW j \in 1..Len(s), i # j,
         s[i] \in K, s[j] \in K
  PROVE Count(s, K) > 1
<1> DEFINE I == {k \in DOMAIN s : s[k] \in K}
<1>1. IsFiniteSet(I) /\ {i, j} \subseteq I
  BY CountIs, LogIs
<1>2. Cardinality({i, j}) = 2
  <2>1. IsFiniteSet({i}) /\ Cardinality({i}) = 1
    BY FS_Singleton
  <2>2. {i, j} = {i} \cup {j} /\ j \notin {i}
    OBVIOUS
  <2>3. Cardinality({i} \cup {j}) = Cardinality({i}) + 1
    BY <2>1, <2>2, FS_AddElement
  <2> QED
    BY <2>1, <2>2, <2>3
<1> HIDE DEF I
<1>3. Cardinality({i, j}) <= Cardinality(I) /\ Cardinality(I) \in Nat
  BY <1>1, FS_Subset, FS_CardinalityType
<1> QED
  BY <1>2, <1>3 DEF Count, I

LEMMA CountGrown ==
  ASSUME Log(log), NEW e \in Entries, log' = Append(log, e), NEW K
  PROVE /\ e \in K => Count(log', K) = Count(log, K) + 1
        /\ e \notin K => Count(log', K) = Count(log, K)
<1>1. PICK r : r = log'
  OBVIOUS
<1>2. Adds(log, e, r)
  BY <1>1 DEF Adds
<1>3. /\ e \in K => Count(r, K) = Count(log, K) + 1
      /\ e \notin K => Count(r, K) = Count(log, K)
  BY <1>2, CountAdded
<1> QED
  BY <1>1, <1>3

\* Nothing that was counted is taken back.
LEMMA CountStays ==
  ASSUME TypeInv, [Next]_vars, NEW K
  PROVE Count(log, K) <= Count(log', K) /\ Count(log, K) \in Nat /\ Count(log', K) \in Nat
<1>1. Log(log) /\ Count(log, K) \in Nat
  BY CountIs DEF TypeInv
<1>2. CASE log' = log
  BY <1>1, <1>2
<1>3. CASE \E e \in Entries : log' = Append(log, e)
  BY <1>1, <1>3, CountGrown
<1>4. log' = log \/ \E e \in Entries : log' = Append(log, e)
  BY WritersAre DEF Send, NewTask, ThreadGoesOn, Deed
<1> QED
  BY <1>2, <1>3, <1>4

\* Every disturbance is counted.
LEMMA UsesAre ==
  ASSUME TypeInv, [Next]_vars
  PROVE /\ used'.disturbance \in Nat /\ used.disturbance \in Nat
        /\ used'.disturbance >= used.disturbance
        /\ CallFails \/ Reload \/ Interrupt \/ DaemonDrops
             => used'.disturbance = used.disturbance + 1
<1>1. used \in Uses /\ used' \in Uses
  BY StepTypes DEF TypeInv
<1>2. CallFails \/ Reload \/ Interrupt \/ DaemonDrops
        => used'.disturbance = used.disturbance + 1
  BY <1>1, Spent DEF CallFails, Reload, Interrupt, DaemonDrops, Disturbed
<1>3. Abroad => used'.disturbance = used.disturbance
  BY AbroadIs DEF ThreadGoesOn
<1>4. Gates \/ WorkerSteps \/ DaemonRestarts \/ UNCHANGED vars => used' = used
  BY GatesAre DEF Gates, GateDone, GateOverflow, GateFailure, GateTimeout, GateScope,
       GateAuditFails, GateAuditCorrects, GateRecommend, GateVerify, GateReflect, GateFinish,
       WorkerSteps, Escalate, WriteRestartRequest, Send, Settle, Deliver, NoteDelivered,
       NoteVerify, NoteReflect, NewTask, NoteFresh, RecoverRestart, RecoverObserve,
       RecoverDelay, RecoverPending, Recovered, DaemonRestarts, vars
<1>5. used'.disturbance \in Nat /\ used.disturbance \in Nat
  BY <1>1 DEF Uses
<1> QED
  BY <1>2, <1>3, <1>4, <1>5 DEF Next, Abroad

LEMMA OvertakenStays ==
  ASSUME TypeInv, [Next]_vars, Overtaken
  PROVE Overtaken'
BY CountStays, UsesAre DEF Overtaken

------------------------------------------------------------------------------
(* Requests of a restart, and the threads they are for.                     *)

LEMMA HeadOfJoined ==
  ASSUME TypeInv, PlanInv, steps # <<>>, NEW p \in Seq(Token), NEW r, r = p \o Tail(steps),
         r # <<>>
  PROVE /\ Len(p) > 0 => Head(r) = p[1]
        /\ Len(p) = 0 => <<Head(steps), Head(r)>> \in Follows
<1>1. PICK s \in Seq(Token) : s = steps /\ s # <<>> /\ Chain(s) /\ Head(s) = s[1]
  BY Awake DEF TypeInv, PlanInv, RecoveryPlan, GatePlan
<1>2. r = p \o Tail(s)
  BY <1>1
<1>3. /\ Len(p) > 0 => r[1] = p[1]
      /\ Len(p) = 0 => Len(r) = Len(s) - 1 /\ (Len(s) >= 2 => r[1] = s[2])
  BY <1>1, <1>2, FirstOfJoined
<1>4. Len(r) >= 1 /\ Len(r) \in Nat /\ Head(r) = r[1]
  <2>1. Tail(s) \in Seq(Token)
    BY <1>1
  <2>2. r \in Seq(Token)
    BY <1>2, <2>1, ConcatProperties
  <2> QED
    BY <2>2, Rest
<1>5. ASSUME Len(p) = 0 PROVE <<Head(s), Head(r)>> \in Follows
  <2>1. Len(s) \in Nat /\ Len(s) >= 2
    BY <1>1, <1>3, <1>4, <1>5
  <2>2. 1 \in 1..(Len(s) - 1)
    BY <2>1
  <2> QED
    BY <1>1, <1>3, <1>4, <1>5, <2>1, <2>2 DEF Chain
<1> QED
  BY <1>1, <1>3, <1>4, <1>5

\* The steps of a recovery that look at the record and the thread, and plan what is due.
Looks ==
  \/ RecoverRestart /\ ~YoloRestartRequired
  \/ RecoverObserve \/ RecoverDelay \/ RecoverPending

LEMMA LooksAre ==
  ASSUME TypeInv, PlanInv, Looks
  PROVE /\ recovering /\ recovering' /\ UNCHANGED <<log, item, request, used>>
        /\ steps # <<>> /\ Head(steps) \in {"restart", "observe", "delay", "pending"}
        /\ steps' # <<>> => Head(steps') \in {"newTask", "observe", "delay", "pending", "goOn",
                                              "continue", "recovered"}
        /\ Ahead(steps', {"noteFresh"}) =>
             Ahead(steps, {"noteFresh"}) \/ (steps' # <<>> /\ Head(steps') = "newTask")
<1>1. /\ UNCHANGED <<log, item, request, used, recovering>>
      /\ steps # <<>> /\ Head(steps) \in {"restart", "observe", "delay", "pending"}
  BY DEF Looks, RecoverRestart, RecoverObserve, RecoverDelay, RecoverPending, At
<1>2. recovering
  BY <1>1, Awake DEF GatePlan, GateTokens
<1>3. PICK p : /\ \/ p = <<>> \/ p = Fresh \/ p = <<"delay">> \/ p = <<"goOn">>
                  \/ p = <<"continue", "noteDelivered">>
               /\ steps' = p \o Tail(steps)
  BY DEF Looks, RecoverRestart, RecoverObserve, RecoverDelay, RecoverPending
<1>4. p \in Seq(Token)
  BY <1>3, Segments DEF Segment
<1>5. PICK r : r = p \o Tail(steps)
  OBVIOUS
<1>6. ASSUME r # <<>>
      PROVE /\ Len(p) > 0 => Head(r) = p[1]
            /\ Len(p) = 0 => <<Head(steps), Head(r)>> \in Follows
  BY <1>1, <1>4, <1>5, <1>6, HeadOfJoined
<1>7. Len(p) > 0 => p[1] \in {"newTask", "delay", "goOn", "continue"}
  BY <1>3 DEF Fresh
<1>8. r # <<>> => Head(r) \in {"newTask", "observe", "delay", "pending", "goOn", "continue",
                               "recovered"}
  <2>1. Len(p) > 0 \/ Len(p) = 0
    BY <1>4
  <2> QED
    BY <1>1, <1>6, <1>7, <2>1 DEF Follows
<1>9. Ahead(r, {"noteFresh"}) => Ahead(steps, {"noteFresh"}) \/ Ahead(p, {"noteFresh"})
  <2>1. PICK s \in Seq(Token) : s = steps /\ s # <<>>
    BY <1>1 DEF TypeInv
  <2>2. r = p \o Tail(s)
    BY <1>5, <2>1
  <2>3. PICK K : K = {"noteFresh"}
    OBVIOUS
  <2>4. Ahead(r, K) => Ahead(p, K) \/ Ahead(s, K)
    BY <1>4, <2>1, <2>2, AheadOfJoined
  <2> QED
    BY <2>1, <2>3, <2>4
<1>10. Ahead(p, {"noteFresh"}) => p[1] = "newTask" /\ Len(p) > 0
  BY <1>3 DEF Ahead, Fresh
<1>11. r # <<>> \/ ~Ahead(r, {"noteFresh"})
  BY DEF Ahead
<1> QED
  BY <1>1, <1>2, <1>3, <1>5, <1>6, <1>8, <1>9, <1>10, <1>11

\* As long as nothing is overtaken: a request of a restart is for a failure that still is owed
\* its thread, and a recovery is the answer to the one request there was.
RequestInv ==
  ~Overtaken =>
    /\ request # 0 \/ At("request") => FreshRecoveryRequired
    /\ recovering => item.yolo # 0 /\ request = 0 /\ ~At("request")

LEMMA StepRequest ==
  TypeInv /\ PlanInv /\ FailureInv /\ RequestInv /\ [Next]_vars => RequestInv'
<1> SUFFICES ASSUME TypeInv, PlanInv, FailureInv, RequestInv, [Next]_vars, ~Overtaken'
             PROVE /\ request' # 0 \/ At("request")' => FreshRecoveryRequired'
                   /\ recovering' => item'.yolo # 0 /\ request' = 0 /\ ~At("request")'
  BY DEF RequestInv
<1> DEFINE Goal == /\ request' # 0 \/ At("request")' => FreshRecoveryRequired'
                   /\ recovering' => item'.yolo # 0 /\ request' = 0 /\ ~At("request")'
<1> SUFFICES Goal
  OBVIOUS
<1>1. ~Overtaken /\ ~(CallFails \/ Reload \/ Interrupt \/ DaemonDrops)
  <2>1. ~Overtaken
    BY OvertakenStays
  <2>2. used'.disturbance = 0
    BY UsesAre DEF Overtaken
  <2> QED
    BY <2>1, <2>2, UsesAre
<1>2. /\ request # 0 \/ At("request") => FreshRecoveryRequired
      /\ recovering => item.yolo # 0 /\ request = 0 /\ ~At("request")
  BY <1>1 DEF RequestInv
<1>3. ASSUME item'.yolo = item.yolo, item'.fresh = item.fresh
      PROVE FreshRecoveryRequired' = FreshRecoveryRequired
  BY <1>3 DEF FreshRecoveryRequired
<1>4. ASSUME steps # <<>>, steps' = Tail(steps) PROVE ~At("request")'
  BY <1>4, NextIs DEF At, Follows
<1>5. ASSUME item'.yolo = item.yolo, item'.fresh = item.fresh, request' = request,
             ~At("request")', recovering' => recovering
      PROVE Goal
  BY <1>2, <1>3, <1>5
<1>6. CASE Gates
  <2>1. item'.yolo = item.yolo /\ item'.fresh = item.fresh
    BY <1>6, GatesAre, AuditedIs DEF EndsRecord, MeetsOverflow, MeetsFailure, SendsBack, Corrects,
                                     AsksWork, AsksCheck, SameFailures
  <2>2. request' = request /\ recovering' = recovering /\ ~At("request")'
    BY <1>6, GatesAre DEF EndsRecord, MeetsOverflow, MeetsFailure, SendsBack, Corrects, AsksWork,
                          AsksCheck, At, Ended, CompactAndContinue
  <2> QED
    BY <1>5, <2>1, <2>2
<1>7. CASE Escalate
  <2>1. ~recovering /\ recovering' = recovering /\ request' = request
    BY <1>7, Awake DEF Escalate, At, RecoveryPlan, RecoveryTokens
  <2>2. CASE YoloRestartRequired
    <3>1. item.pending.kind = "failure" /\ item.failure \in Nat /\ item.fresh \in Nat
      BY <2>2 DEF YoloRestartRequired, TypeInv, Items
    <3>2. FreshRecoveryRequired'
      BY <1>7, <2>2, <3>1, RestartIs DEF Escalate, AsksRestart, FailureInv, FreshRecoveryRequired
    <3> QED
      BY <2>1, <3>2
  <2>3. CASE ~YoloRestartRequired
    <3>1. item' = item /\ ~At("request")'
      BY <1>7, <2>3 DEF Escalate, At, CompactAndContinue
    <3> QED
      BY <1>5, <2>1, <3>1
  <2> QED
    BY <2>2, <2>3
<1>8. CASE WriteRestartRequest
  <2>1. ~recovering /\ FreshRecoveryRequired
    BY <1>2, <1>8 DEF WriteRestartRequest
  <2>2. ~recovering' /\ FreshRecoveryRequired' /\ ~At("request")'
    BY <1>3, <1>8, <2>1 DEF WriteRestartRequest, Restarted, At
  <2> QED
    BY <2>2
<1>9. CASE Send \/ Settle \/ NewTask \/ Recovered
  <2>1. steps # <<>> /\ steps' = Tail(steps) /\ item' = item /\ request' = request
    BY <1>9 DEF Send, Settle, NewTask, Recovered, At
  <2>2. recovering' => recovering
    BY <1>9 DEF Send, Settle, NewTask, Recovered
  <2> QED
    BY <1>4, <1>5, <2>1, <2>2
<1>10. CASE NoteDelivered \/ NoteVerify \/ NoteReflect
  <2>1. item'.yolo = item.yolo /\ item'.fresh = item.fresh
    BY <1>10, NotesAre DEF SameFailures
  <2>2. steps # <<>> /\ steps' = Tail(steps) /\ recovering' = recovering /\ request' = request
    BY <1>10 DEF NoteDelivered, NoteVerify, NoteReflect, At
  <2> QED
    BY <1>4, <1>5, <2>1, <2>2
<1>11. CASE Deliver
  BY <1>5, <1>11 DEF Deliver, At, Continuation
<1>12. CASE NoteFresh
  <2>1. recovering /\ recovering' = recovering /\ request' = request
    BY <1>12, OpensInRecovery DEF NoteFresh
  <2>2. steps # <<>> /\ steps' = Tail(steps) /\ item'.yolo = item.yolo
    BY <1>12, NotesAre DEF NoteFresh, At
  <2> QED
    BY <1>2, <1>4, <2>1, <2>2
<1>13. CASE RecoverRestart /\ YoloRestartRequired
  <2>1. recovering
    BY <1>13, Awake DEF RecoverRestart, At, GatePlan, GateTokens
  <2>2. /\ item.yolo # 0 /\ item.failure # item.yolo
        /\ log[item.failure] = "yolo" /\ log[item.yolo] = "yolo"
        /\ item.failure # 0
    BY <1>2, <1>13, <2>1 DEF YoloRestartRequired, FailureInv
  <2>3. /\ Log(log) /\ Len(log) \in Nat
        /\ item.failure \in 1..Len(log) /\ item.yolo \in 1..Len(log)
    BY <2>2, LogIs DEF TypeInv, Items, Within
  <2>4. PICK K : K = {"yolo"}
    OBVIOUS
  <2>5. Count(log, K) > 1
    BY <2>2, <2>3, <2>4, CountTwo
  <2> QED
    BY <1>1, <2>4, <2>5 DEF Overtaken
<1>14. CASE Looks
  <2>1. /\ recovering' = recovering /\ item' = item /\ request' = request
        /\ ~At("request")'
    BY <1>14, LooksAre DEF At
  <2> QED
    BY <1>5, <2>1
<1>15. CASE DaemonRestarts
  <2>1. FreshRecoveryRequired /\ item' = item /\ request' = 0
    BY <1>2, <1>15 DEF DaemonRestarts, HostRestarts
  <2>2. steps' = Recover
    BY <1>15 DEF DaemonRestarts, HostRestarts
  <2>3. ~At("request")'
    BY <2>2 DEF At, Recover
  <2> QED
    BY <2>1, <2>3 DEF FreshRecoveryRequired
<1>16. CASE Abroad \/ UNCHANGED vars
  <2>1. /\ item' = item /\ steps' = steps /\ recovering' = recovering /\ request' = request
    BY <1>16, AbroadIs DEF ThreadGoesOn, vars
  <2> QED
    BY <1>2, <2>1 DEF At, FreshRecoveryRequired
<1> HIDE DEF Goal
<1> QED
  BY <1>1, <1>6, <1>7, <1>8, <1>9, <1>10, <1>11, <1>12, <1>13, <1>14, <1>15, <1>16
     DEF Next, WorkerSteps, Abroad, Looks

\* A fresh thread is asked nothing before it is noted.
EmptyInv ==
  Ahead(steps, {"noteFresh"}) => At("newTask") \/ LastOf(log, GateRequests) = 0

\* What the worker or Cline writes outside of the gates leaves the last request of a gate.
LEMMA AskedKept ==
  ASSUME TypeInv, [Next]_vars, ~NewTask,
         ~(Send /\ steps # <<>> /\ Head(steps) \in GateRequests)
  PROVE LastOf(log', GateRequests) = LastOf(log, GateRequests)
<1>1. Log(log)
  BY DEF TypeInv
<1>2. CASE log' = log
  BY <1>2
<1>3. ASSUME NEW e \in Entries \ ({"task"} \cup GateRequests), log' = Append(log, e)
      PROVE LastOf(log', GateRequests) = LastOf(log, GateRequests)
  BY <1>1, <1>3, LastOfGrown, Kinds
<1>4. CASE Send /\ steps # <<>> /\ Head(steps) \in Requests /\ Requests \subseteq Entries
  BY <1>3, <1>4, Kinds DEF Send
<1>5. CASE ThreadGoesOn
  BY <1>3, <1>5, Kinds DEF ThreadGoesOn, Deed
<1> QED
  BY <1>2, <1>4, <1>5, WritersAre

LEMMA StepEmpty == TypeInv /\ PlanInv /\ EmptyInv /\ [Next]_vars => EmptyInv'
<1> SUFFICES ASSUME TypeInv, PlanInv, EmptyInv, [Next]_vars PROVE EmptyInv'
  OBVIOUS
<1>1. PlanInv' /\ TypeInv'
  BY StepPlan, StepTypes
<1>2. ASSUME ~recovering' PROVE EmptyInv'
  <2>1. PICK s : s = steps'
    OBVIOUS
  <2>2. GatePlan(s)
    BY <1>1, <1>2, <2>1 DEF PlanInv
  <2>3. ~Ahead(s, {"noteFresh"})
    BY <2>2 DEF GatePlan, GateTokens, Ahead
  <2> QED
    BY <2>1, <2>3 DEF EmptyInv
<1>3. ASSUME steps' = Recover \/ steps' = <<"request">> PROVE EmptyInv'
  <2>1. ~Ahead(Recover, {"noteFresh"}) /\ ~Ahead(<<"request">>, {"noteFresh"})
    BY DEF Ahead, Recover
  <2> QED
    BY <1>3, <2>1 DEF EmptyInv
<1>4. recovering => ~(Send /\ steps # <<>> /\ Head(steps) \in GateRequests)
  BY Awake, Kinds DEF RecoveryPlan
<1>5. ASSUME recovering, [Next]_vars, ~NewTask
      PROVE LastOf(log', GateRequests) = LastOf(log, GateRequests)
  BY <1>4, <1>5, AskedKept
<1>6. CASE NewTask
  <2>1. Log(log) /\ log' = Append(log, "task") /\ "task" \in Entries
    BY <1>6 DEF NewTask, TypeInv, Entries
  <2>2. LastOf(log', GateRequests) = 0
    BY <2>1, LastOfGrown, Kinds
  <2> QED
    BY <2>2 DEF EmptyInv
<1>7. ASSUME recovering, ~NewTask, steps # <<>>, steps' = Tail(steps), Head(steps) # "newTask"
      PROVE EmptyInv'
  <2>1. PICK s \in Seq(Token) : s = steps /\ s # <<>>
    BY <1>7 DEF TypeInv
  <2>2. PICK r : r = Tail(s)
    OBVIOUS
  <2>3. PICK K : K = {"noteFresh"}
    OBVIOUS
  <2>4. Ahead(r, K) => Ahead(s, K)
    BY <2>1, <2>2, AheadOfRest
  <2> QED
    BY <1>5, <1>7, <2>1, <2>2, <2>3, <2>4 DEF EmptyInv, At
<1>8. CASE Gates
  BY <1>2, <1>8, GatesAre
<1>9. CASE Send \/ Settle \/ NoteDelivered \/ NoteVerify \/ NoteReflect \/ NoteFresh
  <2>1. /\ steps # <<>> /\ steps' = Tail(steps) /\ recovering' = recovering
        /\ Head(steps) # "newTask"
    BY <1>9 DEF Send, Settle, NoteDelivered, NoteVerify, NoteReflect, NoteFresh, At, Requests,
                GateRequests
  <2> QED
    BY <1>2, <1>6, <1>7, <2>1
<1>10. CASE Escalate \/ WriteRestartRequest \/ Deliver
  <2>1. ~recovering \/ WriteRestartRequest
    BY <1>10, Awake DEF Escalate, Deliver, At, RecoveryPlan, RecoveryTokens
  <2> QED
    BY <1>2, <1>3, <1>10, <2>1 DEF Escalate, Deliver, WriteRestartRequest, Restarted
<1>11. CASE RecoverRestart /\ YoloRestartRequired
  BY <1>3, <1>11 DEF RecoverRestart
<1>12. CASE Looks
  BY <1>12, LooksAre DEF EmptyInv, At
<1>13. CASE Recovered
  BY <1>2, <1>13 DEF Recovered
<1>14. CASE CallFails
  BY <1>2, <1>3, <1>14 DEF CallFails
<1>15. CASE Reload \/ DaemonRestarts \/ Interrupt
  BY <1>2, <1>3, <1>15 DEF Reload, DaemonRestarts, Interrupt, HostRestarts, Restarted
<1>16. CASE DaemonDrops \/ Abroad \/ UNCHANGED vars
  <2>1. steps' = steps /\ recovering' = recovering
    BY <1>16, AbroadIs DEF DaemonDrops, ThreadGoesOn, vars
  <2> QED
    BY <1>2, <1>5, <1>6, <2>1 DEF EmptyInv, At
<1> QED
  BY <1>6, <1>8, <1>9, <1>10, <1>11, <1>12, <1>13, <1>14, <1>15, <1>16
     DEF Next, WorkerSteps, Abroad, Looks

------------------------------------------------------------------------------
(* The marker a completion is judged from.                                  *)

\* The marker of the last gate lies before the request it sent: saved with the gate, or noted
\* after the request as the length of the transcript at the gate.
MarkerHolds ==
  /\ steps # <<>> /\ Head(steps) \in {"correct", "stuck", "recommend"} => item.marker > 0
  /\ At("verify") => Len(steps) = 2 /\ steps[2] = "noteVerify" /\ seen > 0
  /\ At("reflect") => Len(steps) = 2 /\ steps[2] = "noteReflect" /\ seen > 0
  /\ At("noteVerify") \/ At("noteReflect") => 0 < seen /\ seen < LastOf(log, GateRequests)
  /\ \/ steps # <<>> /\ Head(steps) \in GateRequests \cup {"noteVerify", "noteReflect"}
     \/ LastOf(log, GateRequests) = 0
     \/ 0 < item.marker /\ item.marker < LastOf(log, GateRequests)

\* It does so unless something was overtaken, or the thread is to be replaced.
MarkerInv ==
  item.state = "running" =>
    Overtaken \/ (recovering /\ FreshRecoveryRequired) \/ MarkerHolds

\* Outside of the gates and their messages nothing touches it.
LEMMA MarkerQuiet ==
  ASSUME TypeInv, PlanInv, MarkerHolds, item'.marker = item.marker,
         LastOf(log', GateRequests) = LastOf(log, GateRequests),
         steps # <<>> => Head(steps) \notin GateRequests \cup {"noteVerify", "noteReflect"},
         steps' # <<>> => Head(steps') \notin GateRequests \cup {"noteVerify", "noteReflect"}
  PROVE MarkerHolds'
<1>1. {"correct", "stuck", "recommend", "verify", "reflect"} = GateRequests
  BY DEF GateRequests
<1>2. \/ LastOf(log, GateRequests) = 0
      \/ 0 < item.marker /\ item.marker < LastOf(log, GateRequests)
  BY DEF MarkerHolds
<1>3. /\ steps' # <<>> => /\ Head(steps') \notin {"correct", "stuck", "recommend"}
                          /\ Head(steps') # "verify" /\ Head(steps') # "reflect"
                          /\ Head(steps') # "noteVerify" /\ Head(steps') # "noteReflect"
  BY <1>1
<1>4. ~At("verify")' /\ ~At("reflect")' /\ ~At("noteVerify")' /\ ~At("noteReflect")'
  BY <1>3 DEF At
<1> QED
  BY <1>2, <1>3, <1>4 DEF MarkerHolds

LEMMA RestOfTwo ==
  ASSUME NEW s \in Seq(Token), Len(s) = 2, NEW r, r = Tail(s)
  PROVE r # <<>> /\ Head(r) = s[2]
<1>1. s # <<>>
  BY EmptySeq
<1>2. Len(r) = 1
  BY <1>1, HeadTailProperties
<1>3. \A i \in 1..Len(r) : r[i] = s[i + 1]
  BY <1>1, HeadTailProperties
<1>4. 1 \in 1..1 /\ 1 + 1 = 2
  OBVIOUS
<1>5. r[1] = s[1 + 1]
  BY <1>2, <1>3, <1>4
<1>6. r \in Seq(Token)
  BY <1>1, HeadTailProperties
<1>7. r # <<>>
  BY <1>1, <1>2, EmptySeq
<1>8. Head(r) = r[1]
  BY <1>6, <1>7
<1> QED
  BY <1>4, <1>5, <1>7, <1>8

LEMMA MarkerSent ==
  ASSUME TypeInv, PlanInv, MarkerHolds, Send, steps # <<>>, Head(steps) \in GateRequests
  PROVE MarkerHolds'
<1>1. /\ Log(log) /\ Len(log) \in Nat /\ Head(steps) \in Entries
      /\ log' = Append(log, Head(steps)) /\ steps' = Tail(steps)
      /\ item' = item /\ seen' = seen
      /\ item.marker \in Nat /\ item.marker <= Len(log) /\ seen \in Nat /\ seen <= Len(log)
      /\ steps \in Seq(Token)
  BY LogIs DEF Send, TypeInv, Items, Within, Entries, Feedback, Requests
<1>2. LastOf(log', GateRequests) = Len(log) + 1
  BY <1>1, LastOfGrown, Kinds
<1>3. /\ steps' # <<>> => <<Head(steps), Head(steps')>> \in Follows
  BY <1>1, NextIs
<1>4. CASE Head(steps) \in {"correct", "stuck", "recommend"}
  <2>1. ~(steps' # <<>>)
    BY <1>3, <1>4 DEF Follows
  <2>2. item.marker > 0
    BY <1>4 DEF MarkerHolds
  <2> QED
    BY <1>1, <1>2, <2>1, <2>2 DEF MarkerHolds, At
<1>5. CASE Head(steps) \in {"verify", "reflect"}
  <2>1. /\ Len(steps) = 2 /\ steps[2] \in {"noteVerify", "noteReflect"} /\ seen > 0
    BY <1>5 DEF MarkerHolds, At
  <2>2. steps' # <<>> /\ Head(steps') = steps[2]
    <3>1. PICK r : r = Tail(steps)
      OBVIOUS
    <3>2. r # <<>> /\ Head(r) = steps[2]
      BY <1>1, <2>1, <3>1, RestOfTwo
    <3> QED
      BY <1>1, <3>1, <3>2
  <2> QED
    BY <1>1, <1>2, <2>1, <2>2 DEF MarkerHolds, At, GateRequests
<1> QED
  BY <1>4, <1>5 DEF GateRequests

LEMMA StepMarker ==
  TypeInv /\ PlanInv /\ FailureInv /\ FreshInv /\ RequestInv /\ EmptyInv /\ MarkerInv
    /\ [Next]_vars => MarkerInv'
<1> SUFFICES ASSUME TypeInv, PlanInv, FailureInv, FreshInv, RequestInv, EmptyInv, MarkerInv,
                    [Next]_vars, ~Overtaken', item'.state = "running",
                    ~(recovering' /\ FreshRecoveryRequired')
             PROVE MarkerHolds'
  BY DEF MarkerInv
<1>1. ~Overtaken /\ ~(CallFails \/ Reload \/ Interrupt \/ DaemonDrops)
  <2>1. ~Overtaken
    BY OvertakenStays
  <2>2. used'.disturbance = 0
    BY UsesAre DEF Overtaken
  <2> QED
    BY <2>1, <2>2, UsesAre
<1>2. ASSUME item.state = "running", ~recovering \/ ~FreshRecoveryRequired PROVE MarkerHolds
  BY <1>1, <1>2 DEF MarkerInv
<1>3. /\ request # 0 \/ At("request") => FreshRecoveryRequired
      /\ recovering => ~At("request")
  BY <1>1 DEF RequestInv
<1>4. ASSUME item' = item, recovering' = recovering PROVE MarkerHolds
  <2>1. FreshRecoveryRequired' = FreshRecoveryRequired
    BY <1>4 DEF FreshRecoveryRequired
  <2> QED
    BY <1>2, <1>4, <2>1
<1>5. ASSUME steps # <<>>, steps' = Tail(steps), Head(steps) \notin {"verify", "reflect"}
      PROVE steps' # <<>> => Head(steps') \notin GateRequests \cup {"noteVerify", "noteReflect"}
  BY <1>5, NextIs DEF Follows, GateRequests
<1>6. CASE Gates
  <2>1. MarkerHolds /\ log' = log /\ steps = <<>>
    BY <1>2, <1>6, GatesAre
  <2>2. CASE MeetsOverflow \/ MeetsFailure \/ SendsBack
    <3>1. steps' # <<>> => Head(steps') \notin GateRequests \cup {"noteVerify", "noteReflect"}
      BY <2>2 DEF MeetsOverflow, MeetsFailure, SendsBack, CompactAndContinue, GateRequests
    <3>2. item'.marker = item.marker
      BY <2>2 DEF MeetsOverflow, MeetsFailure, SendsBack, SameCounts
    <3> QED
      BY <2>1, <3>1, <3>2, MarkerQuiet
  <2>3. CASE Corrects \/ AsksWork \/ AsksCheck
    <3>1. Len(log) \in Nat /\ Len(log) >= 1
      BY LogIs DEF TypeInv, Log
    <3>2. CASE Corrects
      <4>1. item'.marker = Len(log)
        BY <3>2, AuditedIs DEF Corrects
      <4> QED
        BY <3>1, <3>2, <4>1 DEF Corrects, MarkerHolds, At, GateRequests
    <3>3. CASE AsksWork
      BY <3>1, <3>3 DEF AsksWork, MarkerHolds, At, GateRequests
    <3>4. CASE AsksCheck
      BY <3>1, <3>4 DEF AsksCheck, MarkerHolds, At, GateRequests
    <3> QED
      BY <2>3, <3>2, <3>3, <3>4
  <2> QED
    BY <1>6, <2>2, <2>3, GatesAre DEF EndsRecord
<1>7. ASSUME AsksRestart, log' = log, recovering' = recovering, steps # <<>>,
             Head(steps) \in {"escalate", "restart"}
      PROVE MarkerHolds'
  <2>1. item.pending.kind = "failure" /\ item.failure \in Nat /\ item.fresh \in Nat
    BY <1>7 DEF AsksRestart, YoloRestartRequired, TypeInv, Items
  <2>2. FreshRecoveryRequired'
    BY <1>7, <2>1, RestartIs DEF FailureInv, FreshRecoveryRequired
  <2>3. MarkerHolds
    BY <1>2, <1>7, <2>2, RestartIs
  <2>4. Head(steps) \notin GateRequests \cup {"noteVerify", "noteReflect"}
    BY <1>7 DEF GateRequests
  <2>5. Head(steps') \notin GateRequests \cup {"noteVerify", "noteReflect"}
    BY <1>7 DEF AsksRestart, GateRequests
  <2> QED
    BY <1>7, <2>3, <2>4, <2>5, RestartIs, MarkerQuiet DEF SameCounts
<1>8. CASE Escalate
  <2>1. CASE YoloRestartRequired
    BY <1>7, <1>8, <2>1 DEF Escalate, AsksRestart, At
  <2>2. CASE ~YoloRestartRequired
    <3>1. MarkerHolds
      BY <1>4, <1>8, <2>2 DEF Escalate
    <3> QED
      BY <1>8, <2>2, <3>1, MarkerQuiet DEF Escalate, At, CompactAndContinue, GateRequests
  <2> QED
    BY <2>1, <2>2
<1>9. CASE WriteRestartRequest
  <2>1. MarkerHolds
    BY <1>4, <1>9 DEF WriteRestartRequest
  <2> QED
    BY <1>9, <2>1, MarkerQuiet DEF WriteRestartRequest, Restarted, At, Recover, GateRequests
<1>10. CASE Send
  <2>1. MarkerHolds
    BY <1>4, <1>10 DEF Send
  <2>2. CASE Head(steps) \in GateRequests
    BY <1>10, <2>1, <2>2, MarkerSent DEF Send
  <2>3. CASE Head(steps) \notin GateRequests
    <3>1. steps # <<>> /\ Head(steps) \notin {"noteVerify", "noteReflect", "verify", "reflect"}
      BY <1>10, <2>3 DEF Send, Requests, GateRequests
    <3>2. ~NewTask
      BY <1>10, <2>3, Kinds DEF Send, NewTask, At, Requests, GateRequests
    <3>3. LastOf(log', GateRequests) = LastOf(log, GateRequests)
      BY <2>3, <3>2, AskedKept
    <3>4. steps' = Tail(steps) /\ item' = item
      BY <1>10 DEF Send
    <3> QED
      BY <1>5, <2>1, <2>3, <3>1, <3>3, <3>4, MarkerQuiet
  <2> QED
    BY <2>2, <2>3
<1>11. CASE Settle \/ NoteDelivered
  <2>1. /\ steps # <<>> /\ Head(steps) \in {"settle", "noteDelivered"} /\ steps' = Tail(steps)
        /\ log' = log /\ recovering' = recovering
    BY <1>11 DEF Settle, NoteDelivered, At
  <2>2. item'.marker = item.marker /\ item'.state = item.state /\ SameFailures(item', item)
    BY <1>11, NotesAre DEF Settle, SameCounts, SameFailures
  <2>3. FreshRecoveryRequired' = FreshRecoveryRequired
    BY <2>2 DEF SameFailures, FreshRecoveryRequired
  <2>4. MarkerHolds
    BY <1>2, <2>1, <2>2, <2>3
  <2>5. Head(steps) \notin GateRequests \cup {"noteVerify", "noteReflect", "verify", "reflect"}
    BY <2>1 DEF GateRequests
  <2> QED
    BY <1>5, <2>1, <2>2, <2>4, <2>5, MarkerQuiet
<1>12. CASE Deliver
  <2>1. MarkerHolds
    BY <1>4, <1>12 DEF Deliver
  <2> QED
    BY <1>12, <2>1, MarkerQuiet DEF Deliver, At, Continuation, GateRequests
<1>13. CASE NoteVerify \/ NoteReflect
  <2>1. /\ steps # <<>> /\ Head(steps) \in {"noteVerify", "noteReflect"}
        /\ steps' = Tail(steps) /\ log' = log /\ item'.marker = seen
        /\ item'.state = item.state
    BY <1>13, NotesAre DEF NoteVerify, NoteReflect, At
  <2>2. ~recovering
    BY <2>1, Awake DEF RecoveryPlan, RecoveryTokens
  <2>3. MarkerHolds
    BY <1>2, <2>1, <2>2
  <2>4. ~(steps' # <<>>)
    BY <2>1, NextIs DEF Follows
  <2>5. 0 < seen /\ seen < LastOf(log, GateRequests)
    BY <2>1, <2>3 DEF MarkerHolds, At
  <2> QED
    BY <2>1, <2>4, <2>5 DEF MarkerHolds, At
<1>14. ASSUME steps # <<>>, steps' = Tail(steps), Head(steps) \in {"newTask", "noteFresh"},
              LastOf(log', GateRequests) = 0
       PROVE MarkerHolds'
  <2>1. steps' # <<>> => Head(steps') \notin GateRequests \cup {"noteVerify", "noteReflect"}
    BY <1>5, <1>14
  <2> QED
    BY <1>14, <2>1 DEF MarkerHolds, At, GateRequests
<1>15. CASE NewTask
  <2>1. Log(log) /\ log' = Append(log, "task") /\ "task" \in Entries
    BY <1>15 DEF NewTask, TypeInv, Entries
  <2>2. LastOf(log', GateRequests) = 0
    BY <2>1, LastOfGrown, Kinds
  <2> QED
    BY <1>14, <1>15, <2>2 DEF NewTask, At
<1>16. CASE NoteFresh
  <2>1. steps # <<>> /\ Head(steps) = "noteFresh" /\ steps' = Tail(steps) /\ log' = log
    BY <1>16 DEF NoteFresh, At
  <2>2. 1 \in 1..Len(steps) /\ steps[1] = "noteFresh"
    BY <2>1, Awake
  <2>3. LastOf(log, GateRequests) = 0
    BY <2>1, <2>2 DEF EmptyInv, Ahead, At
  <2> QED
    BY <1>14, <2>1, <2>3
<1>17. CASE RecoverRestart /\ YoloRestartRequired
  BY <1>7, <1>17 DEF RecoverRestart, AsksRestart, At
<1>18. CASE Looks
  <2>1. MarkerHolds
    BY <1>4, <1>18, LooksAre
  <2> QED
    BY <1>18, <2>1, LooksAre, MarkerQuiet DEF GateRequests
<1>19. CASE Recovered
  <2>1. ~FreshRecoveryRequired /\ item' = item /\ log' = log
    BY <1>19, NothingOwed DEF Recovered
  <2>2. MarkerHolds
    BY <1>2, <2>1
  <2>3. /\ steps # <<>> /\ Head(steps) = "recovered" /\ steps' = Tail(steps)
    BY <1>19 DEF Recovered, At
  <2>4. Head(steps) \notin GateRequests \cup {"noteVerify", "noteReflect", "verify", "reflect"}
    BY <2>3 DEF GateRequests
  <2> QED
    BY <1>5, <2>1, <2>2, <2>3, <2>4, MarkerQuiet
<1>20. CASE DaemonRestarts
  <2>1. FreshRecoveryRequired /\ recovering' /\ item' = item
    BY <1>3, <1>20 DEF DaemonRestarts, HostRestarts
  <2> QED
    BY <2>1 DEF FreshRecoveryRequired
<1>21. CASE Abroad \/ UNCHANGED vars
  <2>1. /\ item' = item /\ steps' = steps /\ recovering' = recovering /\ seen' = seen
    BY <1>21, AbroadIs DEF ThreadGoesOn, vars
  <2>2. MarkerHolds
    BY <1>4, <2>1
  <2>3. LastOf(log', GateRequests) = LastOf(log, GateRequests)
    <3>1. Log(log)
      BY DEF TypeInv
    <3>2. CASE log' = log
      BY <3>2
    <3>3. CASE ThreadGoesOn
      <4>1. PICK e \in Deed : log' = Append(log, e)
        BY <3>3 DEF ThreadGoesOn
      <4>2. e \in Entries /\ e # "task" /\ e \notin GateRequests
        BY <4>1, Kinds DEF Deed
      <4> QED
        BY <3>1, <4>1, <4>2, LastOfGrown, Kinds
    <3> QED
      BY <1>21, <3>2, <3>3, AbroadIs DEF vars
  <2> QED
    BY <2>1, <2>2, <2>3 DEF MarkerHolds, At
<1> QED
  BY <1>1, <1>6, <1>8, <1>9, <1>10, <1>11, <1>12, <1>13, <1>15, <1>16, <1>17, <1>18, <1>19,
     <1>20, <1>21 DEF Next, WorkerSteps, Abroad, Looks

------------------------------------------------------------------------------
(* What is accepted.                                                        *)

\* The record of a thread, its requests and their markers.
ThreadInv == RecordInv /\ RequestInv /\ EmptyInv /\ MarkerInv

LEMMA InitThread == Init => ThreadInv
<1> SUFFICES ASSUME Init PROVE ThreadInv
  OBVIOUS
<1>1. steps = <<>> /\ ~recovering /\ request = 0
  BY DEF Init
<1>2. RequestInv
  BY <1>1 DEF RequestInv, At
<1>3. EmptyInv
  BY <1>1 DEF EmptyInv, Ahead
<1>4. LastOf(log, GateRequests) = 0
  <2>1. Log(log) /\ Len(log) = 1
    BY InitTypes DEF Init, TypeInv
  <2>2. /\ LastOf(log, GateRequests) \in 0..1
        /\ LastOf(log, GateRequests) # 0 => log[LastOf(log, GateRequests)] \in GateRequests
    BY <2>1, LastOfIs, Kinds
  <2>3. log[1] \notin GateRequests
    BY <2>1, Kinds DEF Log
  <2> QED
    BY <2>2, <2>3
<1>5. MarkerInv
  BY <1>1, <1>4 DEF MarkerInv, MarkerHolds, At
<1> QED
  BY <1>2, <1>3, <1>5, InitRecord DEF ThreadInv

LEMMA ThreadAlways == Spec => []ThreadInv
<1>1. ThreadInv /\ [Next]_vars => ThreadInv'
  BY StepRecord, StepRequest, StepEmpty, StepMarker DEF ThreadInv, RecordInv
<1> QED
  BY <1>1, InitThread, PTL DEF Spec

\* The only steps that end a record.
LEMMA EndsBy ==
  ASSUME TypeInv, PlanInv, [Next]_vars, item.state = "running", item'.state # "running"
  PROVE \/ Gates /\ EndsRecord
        \/ CallFails /\ item'.state = "failed" /\ item'.error = "call"
<1>1. CASE Gates
  BY <1>1, GatesAre
<1>2. CASE WorkerSteps
  <2>1. CASE AsksRestart
    BY <2>1, RestartIs
  <2>2. CASE NoteDelivered \/ NoteVerify \/ NoteReflect \/ NoteFresh
    BY <2>2, NotesAre
  <2>3. CASE item' = item
    BY <2>3
  <2>4. AsksRestart \/ item' = item \/ NoteDelivered \/ NoteVerify \/ NoteReflect \/ NoteFresh
    BY <1>2 DEF AsksRestart, WorkerSteps, Escalate, WriteRestartRequest, Send, Settle, Deliver,
         NewTask, RecoverRestart, RecoverObserve, RecoverDelay, RecoverPending, Recovered
  <2> QED
    BY <2>1, <2>2, <2>3, <2>4
<1>3. CASE CallFails
  <2>1. ~recovering
    BY <1>3 DEF CallFails
  <2> QED
    BY <1>3, <2>1, CallEnds
<1>4. CASE Reload \/ Interrupt \/ DaemonRestarts \/ DaemonDrops \/ UNCHANGED vars
  BY <1>4 DEF Reload, Interrupt, DaemonRestarts, DaemonDrops, HostRestarts, vars
<1>5. CASE Abroad
  BY <1>5, AbroadIs DEF ThreadGoesOn
<1> QED
  BY <1>1, <1>2, <1>3, <1>4, <1>5 DEF Next, Abroad

\* What completes a record without a word of the user.
LEMMA CompletedBy ==
  ASSUME TypeInv, PlanInv, [Next]_vars, item.state = "running", item'.state = "completed",
         UserConfirmedDone(log) = 0
  PROVE /\ GateFinish /\ Observed = "completed" /\ steps = <<>> /\ ~recovering
<1>1. Gates /\ steps' = Ended
  BY EndsBy DEF EndsRecord
<1>2. Observed # "user_confirmed_done"
  BY DEF Observed
<1>3. ~GateAuditFails
  <2> SUFFICES ASSUME GateAuditFails PROVE FALSE
    OBVIOUS
  <2>1. item' = [[Audited EXCEPT !.error = "limit"] EXCEPT !.state = "failed"]
    BY DEF GateAuditFails, Finishes
  <2>2. Audited \in Items
    BY AuditedIs
  <2> QED
    BY <2>1, <2>2 DEF Items
<1>4. ~(GateOverflow \/ GateFailure \/ GateTimeout \/ GateScope \/ GateAuditCorrects
          \/ GateRecommend \/ GateVerify \/ GateReflect)
  BY <1>1 DEF Ended, GateOverflow, GateFailure, GateTimeout, GateScope, GateAuditCorrects,
              GateRecommend, GateVerify, GateReflect, CompactAndContinue
<1>5. GateFinish /\ Observed = "completed"
  BY <1>1, <1>2, <1>3, <1>4 DEF Gates
<1> QED
  BY <1>1, <1>5, GatesAre

\* What was edited since the last request of a gate counts as activity since the marker.
LEMMA EditsSeen ==
  ASSUME ThreadInv, item.state = "running", steps = <<>>, ~recovering, ~Overtaken,
         InThread("verify"), ~Activity
  PROVE ~After(log, LastOf(log, GateRequests), Edits)
<1> DEFINE last == LastOf(log, GateRequests)
           start == ThreadStart(log)
<1>1. Log(log) /\ item.marker \in Nat
  BY DEF ThreadInv, RecordInv, TypeInv, Items
<1>2. Len(log) \in Nat /\ start \in 1..Len(log)
  BY <1>1, LogIs, ThreadStartIs
<1>3. PICK v : v = LastOf(log, {"verify"})
  OBVIOUS
<1>4. v \in 1..Len(log) /\ v > start /\ log[v] \in {"verify"}
  <2>1. "task" \notin {"verify"}
    OBVIOUS
  <2>2. v # 0
    BY <1>3 DEF InThread
  <2>3. PICK K : K = {"verify"} /\ "task" \notin K
    BY <2>1
  <2>4. /\ LastOf(log, K) \in 0..Len(log)
        /\ LastOf(log, K) # 0 => LastOf(log, K) > start /\ log[LastOf(log, K)] \in K
    BY <1>1, <2>3, LastOfIs
  <2> QED
    BY <1>2, <1>3, <2>2, <2>3, <2>4
<1>5. log[v] \in GateRequests
  BY <1>4 DEF GateRequests
<1>6. /\ last \in 0..Len(log)
      /\ \A j \in 1..Len(log) : j > start /\ log[j] \in GateRequests => j <= last
  BY <1>1, LastOfIs, Kinds
<1>7. v <= last
  BY <1>4, <1>5, <1>6
<1>8. last = 0 \/ (0 < item.marker /\ item.marker < last)
  BY DEF ThreadInv, MarkerInv, MarkerHolds
<1> SUFFICES ASSUME After(log, last, Edits) PROVE FALSE
  OBVIOUS
<1>9. PICK j \in (last + 1)..Len(log) : log[j] \in Edits
  BY DEF After
<1> HIDE DEF last, start
<1>10. j \in start..Len(log) /\ j > item.marker /\ item.marker # 0
  BY <1>1, <1>2, <1>4, <1>6, <1>7, <1>8, <1>9
<1> QED
  BY <1>9, <1>10 DEF Activity, ImplementationActivity, start

\* A record that the user has not confirmed is completed through all of its gates: the report
\* is complete, no test is left timed out, the checks were asked for in this thread before it,
\* and no edit since the last request escaped the verification unless its limit was reached, the
\* report was confident or a request was overtaken.
THEOREM AcceptedRight == Spec => AcceptedThroughGates
<1> DEFINE last == LastOf(log, GateRequests)
           Accepted ==
             /\ ClaimsCompletion(log) /\ ~RequiresContinuation(Report(log))
             /\ UnresolvedTestTimeout(log) = 0
             /\ InThread("verify") /\ (Reflective => InThread("reflect"))
             /\ After(log, last, Claims \cup {"reopened"})
             /\ \/ Confident(Report(log))
                \/ ~After(log, last, Edits)
                \/ item.rounds >= MaxVerifications
                \/ Overtaken
<1>1. ASSUME ThreadInv, [Next]_vars, item.state = "running", item'.state = "completed",
             UserConfirmedDone(log) = 0
      PROVE Accepted
  <2>1. GateFinish /\ Observed = "completed" /\ steps = <<>> /\ ~recovering
    BY <1>1, CompletedBy DEF ThreadInv, RecordInv
  <2>2. /\ ClaimsCompletion(log) /\ UnresolvedTestTimeout(log) = 0
        /\ ~RequiresContinuation(Report(log))
    BY <2>1 DEF Observed, GateFinish, ReportIncomplete
  <2>3. item.verified /\ (Reflective => item.reflected)
    BY <2>1 DEF GateFinish, VerificationDue, Reflection
  <2>4. InThread("verify") /\ (Reflective => InThread("reflect"))
    BY <1>1, <2>1, <2>3 DEF ThreadInv, RecordInv, TruthInv
  <2>5. After(log, last, Claims \cup {"reopened"})
    <3>1. Log(log)
      BY <1>1 DEF ThreadInv, RecordInv, TypeInv
    <3>2. /\ last \in Nat /\ last < Len(log) /\ Len(log) \in Nat
          /\ log[Len(log)] \in Completions
      BY <2>2, <3>1, ClaimIsNew
    <3> HIDE DEF last
    <3>3. Len(log) \in (last + 1)..Len(log)
      BY <3>2
    <3> QED
      BY <3>2, <3>3 DEF After, Completions
  <2>6. \/ Confident(Report(log)) \/ ~After(log, last, Edits)
        \/ item.rounds >= MaxVerifications \/ Overtaken
    <3>1. item.rounds \in Nat /\ MaxVerifications \in Nat
      BY <1>1, GatesAssumption DEF ThreadInv, RecordInv, TypeInv, Items
    <3>2. \/ Confident(Report(log)) \/ ~Activity \/ ~(item.rounds < MaxVerifications)
      BY <2>1 DEF GateFinish, VerificationDue
    <3> QED
      BY <1>1, <2>1, <2>4, <3>1, <3>2, EditsSeen
  <2> QED
    BY <2>2, <2>4, <2>5, <2>6
<1>2. ThreadInv /\ [Next]_vars
      => [item.state = "running" /\ item'.state = "completed" /\ UserConfirmedDone(log) = 0
            => Accepted]_vars
  BY <1>1
<1> QED
  BY <1>2, ThreadAlways, PTL DEF Spec, AcceptedThroughGates

------------------------------------------------------------------------------
(* What has paid for a repetition.                                          *)

\* The failures in YOLO mode up to the one the last restart was asked for.
Taken(s, y) == Cardinality({i \in 1..y : s[i] = "yolo"})
Asked == IF request # 0 \/ At("request") THEN 1 ELSE 0

\* A disturbance, or a restart for a failure in YOLO mode, may undo one step of the worker: a
\* restart that is still to be made has not undone anything yet.
Budget == used.disturbance + Taken(log, item.yolo) - Asked

LEMMA TakenIs ==
  ASSUME NEW s, Log(s), NEW y \in Nat, y <= Len(s)
  PROVE /\ IsFiniteSet({i \in 1..y : s[i] = "yolo"})
        /\ Taken(s, y) \in Nat /\ Taken(s, y) <= Count(s, {"yolo"})
<1> DEFINE I == {i \in 1..y : s[i] = "yolo"}
           J == {i \in DOMAIN s : s[i] \in {"yolo"}}
<1>1. IsFiniteSet(J)
  <2>1. PICK K : K = {"yolo"}
    OBVIOUS
  <2> QED
    BY <2>1, CountIs
<1>2. I \subseteq J
  BY LogIs
<1>3. Cardinality(J) = Count(s, {"yolo"})
  BY DEF Count
<1> HIDE DEF I, J
<1>4. IsFiniteSet(I) /\ Cardinality(I) <= Cardinality(J) /\ Cardinality(I) \in Nat
  BY <1>1, <1>2, FS_Subset, FS_CardinalityType
<1> QED
  BY <1>3, <1>4 DEF Taken, I

LEMMA TakenKept ==
  ASSUME NEW s, NEW r, NEW y \in Nat, Len(s) \in Nat, y <= Len(s),
         \A i \in 1..Len(s) : r[i] = s[i]
  PROVE Taken(r, y) = Taken(s, y)
<1>1. {i \in 1..y : r[i] = "yolo"} = {i \in 1..y : s[i] = "yolo"}
  OBVIOUS
<1> QED
  BY <1>1 DEF Taken

LEMMA TakenMore ==
  ASSUME NEW s, Log(s), NEW y \in Nat, NEW z \in Nat, y < z, z <= Len(s), s[z] = "yolo"
  PROVE Taken(s, z) >= Taken(s, y) + 1
<1> DEFINE I == {i \in 1..y : s[i] = "yolo"}
           J == {i \in 1..z : s[i] = "yolo"}
<1>1. Len(s) \in Nat
  BY LogIs
<1>2. IsFiniteSet(I) /\ IsFiniteSet(J)
  BY <1>1, TakenIs
<1>3. I \cup {z} \subseteq J /\ z \notin I
  OBVIOUS
<1> HIDE DEF I, J
<1>4. Cardinality(I \cup {z}) = Cardinality(I) + 1 /\ IsFiniteSet(I \cup {z})
  BY <1>2, <1>3, FS_AddElement
<1>5. Cardinality(I \cup {z}) <= Cardinality(J)
  BY <1>2, <1>3, FS_Subset
<1>6. Cardinality(I) \in Nat /\ Cardinality(J) \in Nat
  BY <1>2, FS_CardinalityType
<1> QED
  BY <1>4, <1>5, <1>6 DEF Taken, I, J

LEMMA BudgetIs ==
  ASSUME TypeInv
  PROVE /\ used.disturbance \in Nat /\ Asked \in {0, 1} /\ Budget \in Int
        /\ Taken(log, item.yolo) \in Nat /\ Count(log, {"yolo"}) \in Nat
        /\ Budget <= used.disturbance + Count(log, {"yolo"})
<1>1. Log(log) /\ item.yolo \in Nat /\ item.yolo <= Len(log) /\ used.disturbance \in Nat
  BY DEF TypeInv, Items, Within, Uses
<1>2. Taken(log, item.yolo) \in Nat /\ Taken(log, item.yolo) <= Count(log, {"yolo"})
  BY <1>1, TakenIs
<1>3. Count(log, {"yolo"}) \in Nat
  <2>1. PICK K : K = {"yolo"}
    OBVIOUS
  <2> QED
    BY <1>1, <2>1, CountIs
<1>4. Asked \in {0, 1}
  BY DEF Asked
<1> QED
  BY <1>1, <1>2, <1>3, <1>4 DEF Budget

\* Only the request of a restart changes the failure a restart was asked for.
LEMMA YoloKept ==
  ASSUME TypeInv, PlanInv, [Next]_vars
  PROVE \/ item'.yolo = item.yolo
        \/ /\ AsksRestart /\ log' = log /\ request' = request /\ used' = used
           /\ recovering' = recovering /\ steps # <<>>
           /\ Head(steps) = IF recovering THEN "restart" ELSE "escalate"
<1>1. CASE Gates
  <2>1. EndsRecord \/ MeetsOverflow \/ MeetsFailure \/ SendsBack \/ Corrects \/ AsksWork
          \/ AsksCheck
    BY <1>1, GatesAre
  <2>2. CASE Corrects
    BY <2>2, AuditedIs DEF Corrects
  <2> QED
    BY <2>1, <2>2 DEF EndsRecord, MeetsOverflow, MeetsFailure, SendsBack, AsksWork, AsksCheck,
                      SameFailures
<1>2. CASE WorkerSteps
  <2>1. CASE NoteDelivered \/ NoteVerify \/ NoteReflect \/ NoteFresh
    BY <2>1, NotesAre DEF SameFailures
  <2>2. CASE (Escalate \/ RecoverRestart) /\ item' # item
    <3>1. /\ AsksRestart /\ log' = log /\ request' = request /\ used' = used
          /\ recovering' = recovering /\ steps # <<>> /\ Head(steps) \in {"escalate", "restart"}
      BY <2>2 DEF Escalate, RecoverRestart, AsksRestart, At
    <3>2. recovering => Head(steps) # "escalate"
      BY <3>1, Awake DEF RecoveryPlan, RecoveryTokens
    <3>3. ~recovering => Head(steps) # "restart"
      BY <3>1, Awake DEF GatePlan, GateTokens
    <3> QED
      BY <3>1, <3>2, <3>3
  <2>3. \/ item' = item \/ NoteDelivered \/ NoteVerify \/ NoteReflect \/ NoteFresh
        \/ Escalate \/ RecoverRestart
    BY <1>2 DEF WorkerSteps, WriteRestartRequest, Send, Settle, Deliver, NewTask,
         RecoverObserve, RecoverDelay, RecoverPending, Recovered
  <2> QED
    BY <2>1, <2>2, <2>3
<1>3. CASE CallFails
  BY <1>3, CallEnds DEF CallFails, SameFailures
<1>4. CASE Reload \/ Interrupt \/ DaemonRestarts \/ DaemonDrops \/ UNCHANGED vars
  BY <1>4 DEF Reload, Interrupt, DaemonRestarts, DaemonDrops, HostRestarts, vars
<1>5. CASE Abroad
  BY <1>5, AbroadIs DEF ThreadGoesOn
<1> QED
  BY <1>1, <1>2, <1>3, <1>4, <1>5 DEF Next, Abroad

LEMMA AskedOnce ==
  ASSUME TypeInv, PlanInv, [Next]_vars, ~AsksRestart
  PROVE /\ Asked' <= Asked
        /\ DaemonRestarts => Asked' < Asked
<1>1. DaemonRestarts => Asked = 1 /\ Asked' = 0
  BY DEF DaemonRestarts, HostRestarts, Asked, At, Recover
<1> SUFFICES Asked' <= Asked
  BY <1>1
<1>2. ASSUME request' = request \/ request' = 0, ~At("request")' PROVE Asked' <= Asked
  BY <1>2 DEF Asked
<1>3. ~(Recover # <<>> /\ Head(Recover) = "request") /\ Head(Ended) # "request"
  BY DEF Recover, Ended
<1>4. CASE Gates
  <2>1. steps' # <<>> => Head(steps') # "request"
    BY <1>4, GatesAre DEF EndsRecord, MeetsOverflow, MeetsFailure, SendsBack, Corrects, AsksWork,
                          AsksCheck, Ended, CompactAndContinue
  <2> QED
    BY <1>2, <1>4, <2>1, GatesAre DEF At
<1>5. CASE Escalate
  BY <1>2, <1>5 DEF Escalate, AsksRestart, CompactAndContinue, At
<1>6. CASE WriteRestartRequest
  BY <1>6 DEF WriteRestartRequest, Asked
<1>7. CASE Send \/ Settle \/ NoteDelivered \/ NoteVerify \/ NoteReflect \/ NewTask \/ NoteFresh
           \/ Recovered
  <2>1. steps # <<>> /\ steps' = Tail(steps) /\ request' = request
    BY <1>7 DEF Send, Settle, NoteDelivered, NoteVerify, NoteReflect, NewTask, NoteFresh,
                Recovered, At
  <2>2. steps' # <<>> => Head(steps') # "request"
    BY <2>1, NextIs DEF Follows
  <2> QED
    BY <1>2, <2>1, <2>2 DEF At
<1>8. CASE Deliver
  BY <1>2, <1>8 DEF Deliver, Continuation, At
<1>9. CASE RecoverRestart /\ YoloRestartRequired
  BY <1>9 DEF RecoverRestart, AsksRestart
<1>10. CASE Looks
  BY <1>2, <1>10, LooksAre DEF At
<1>11. CASE CallFails
  <2>1. request' = request /\ (steps' = Recover \/ steps' = Ended)
    BY <1>11 DEF CallFails, Finishes
  <2> QED
    BY <1>2, <1>3, <2>1 DEF At
<1>12. CASE Reload \/ Interrupt
  <2>1. request' = request /\ (steps' = Recover \/ steps' = <<>>)
    BY <1>12 DEF Reload, HostRestarts, Interrupt, Restarted
  <2> QED
    BY <1>2, <1>3, <2>1 DEF At
<1>13. CASE DaemonRestarts
  <2>1. request # 0 /\ request' = 0 /\ steps' = Recover
    BY <1>13 DEF DaemonRestarts, HostRestarts
  <2> QED
    BY <1>3, <2>1 DEF At, Asked
<1>14. CASE DaemonDrops
  BY <1>14 DEF DaemonDrops, Asked, At
<1>15. CASE Abroad \/ UNCHANGED vars
  BY <1>15, AbroadIs DEF ThreadGoesOn, Asked, At, vars
<1> QED
  BY <1>4, <1>5, <1>6, <1>7, <1>8, <1>9, <1>10, <1>11, <1>12, <1>13, <1>14, <1>15, <1>1
     DEF Next, WorkerSteps, Abroad, Looks

\* Whatever undoes a step of the worker.
Undoes == CallFails \/ Reload \/ Interrupt \/ DaemonRestarts \/ DaemonDrops

LEMMA BudgetGrows ==
  ASSUME TypeInv, PlanInv, FailureInv, [Next]_vars
  PROVE /\ Budget' >= Budget /\ Budget \in Int /\ Budget' \in Int
        /\ Undoes => Budget' >= Budget + 1
<1>1. TypeInv'
  BY StepTypes
<1>2. /\ used.disturbance \in Nat /\ Asked \in {0, 1} /\ Taken(log, item.yolo) \in Nat
      /\ Budget \in Int
  BY BudgetIs
<1>3. /\ used'.disturbance \in Nat /\ Asked' \in {0, 1} /\ Taken(log, item.yolo)' \in Nat
      /\ Budget' \in Int
  <2>1. PICK r : r = log'
    OBVIOUS
  <2>2. PICK y : y = item'.yolo
    OBVIOUS
  <2>3. Log(r) /\ y \in Nat /\ y <= Len(r) /\ used'.disturbance \in Nat
    BY <1>1, <2>1, <2>2 DEF TypeInv, Items, Within, Uses
  <2>4. Taken(r, y) \in Nat
    BY <2>3, TakenIs
  <2>5. Taken(log, item.yolo)' \in Nat
    BY <2>1, <2>2, <2>4
  <2>6. Asked' \in {0, 1}
    BY DEF Asked
  <2> QED
    BY <2>3, <2>5, <2>6 DEF Budget
<1>4. /\ Log(log) /\ Len(log) \in Nat /\ \A i \in 1..Len(log) : log'[i] = log[i]
      /\ item.yolo \in Nat /\ item.yolo <= Len(log)
  BY EntriesStay DEF TypeInv, Items, Within
<1>5. /\ used'.disturbance >= used.disturbance
      /\ CallFails \/ Reload \/ Interrupt \/ DaemonDrops
           => used'.disturbance = used.disturbance + 1
  BY UsesAre
<1> DEFINE y == item'.yolo
           d == used'.disturbance
           t == Taken(log, item.yolo)
           u == Taken(log, item.yolo)'
           a == Asked'
<1>6. CASE y = item.yolo /\ ~AsksRestart
  <2>1. u = Taken(log', item.yolo)
    BY <1>6
  <2>2. PICK r : r = log'
    OBVIOUS
  <2>3. Taken(r, item.yolo) = t
    BY <1>4, <2>2, TakenKept
  <2>4. u = t
    BY <2>1, <2>2, <2>3
  <2>5. a <= Asked /\ (DaemonRestarts => a < Asked)
    BY <1>6, AskedOnce
  <2> HIDE DEF d, t, u, a
  <2> QED
    BY <1>2, <1>3, <1>5, <2>4, <2>5 DEF Budget, Undoes, d, t, u, a
<1>7. CASE AsksRestart
  <2>1. /\ item.pending.kind = "failure" /\ item.error = "yolo"
        /\ item.pending.marker # item.yolo
    BY <1>7 DEF AsksRestart, YoloRestartRequired
  <2>2. y = item.failure /\ item.failure \in Nat /\ item.yolo < item.failure
        /\ item.failure <= Len(log) /\ log[item.failure] = "yolo"
    BY <1>4, <1>7, <2>1, RestartIs DEF FailureInv, TypeInv, Items, Within
  <2>3. y # item.yolo
    BY <1>4, <2>2
  <2>4. log' = log /\ used' = used /\ recovering' = recovering /\ steps # <<>>
        /\ Head(steps) \in {"escalate", "restart"} /\ request' = request
    BY <2>3, YoloKept
  <2>5. Taken(log, item.failure) >= t + 1
    BY <1>4, <2>2, TakenMore
  <2>6. u >= t + 1
    BY <2>2, <2>4, <2>5
  <2>7. ~Undoes
    BY <1>2, <1>7, <2>4, <2>3 DEF Undoes, AsksRestart, CallFails, Reload, Interrupt, DaemonRestarts,
       DaemonDrops, HostRestarts, Requests, GateRequests
  <2> HIDE DEF t, u, a
  <2> QED
    BY <1>2, <1>3, <2>4, <2>6, <2>7 DEF Budget, t, u, a
<1> QED
  BY <1>6, <1>7, YoloKept

------------------------------------------------------------------------------
(* The threads of a task.                                                   *)

\* A recovery that has not yet looked whether it is to open a thread.
Due == IF recovering /\ steps # <<>> /\ Head(steps) \in {"restart", "request", "newTask"}
       THEN 1 ELSE 0

\* Every thread but the first was paid for, and so is the one a recovery may still open.
ThreadsInv ==
  /\ Count(log, {"task"}) + Due <= 1 + Budget
  /\ Count(log, {"task"}) > 1 => item.yolo # 0

\* The last look of a recovery: a thread that is owed was opened before.
LEMMA PendingEnds ==
  ASSUME TypeInv, PlanInv, recovering, Head(steps) = "pending"
  PROVE ~FreshAhead
<1>1. /\ RecoveryPlan(steps) /\ steps[1] = "pending" /\ Len(steps) \in Nat
      /\ Len(steps) >= 1
  BY Awake
<1>2. \A i \in 1..(Len(steps) - 1) : <<steps[i], steps[i + 1]>> \in Follows
  BY <1>1 DEF RecoveryPlan, Chain
<1>3. ASSUME Len(steps) >= 2 PROVE steps[2] = "recovered" /\ Len(steps) < 3
  <2>1. 1 \in 1..(Len(steps) - 1) /\ 1 + 1 = 2
    BY <1>1, <1>3
  <2>2. <<steps[1], steps[2]>> \in Follows
    BY <1>2, <2>1
  <2>3. steps[2] = "recovered"
    BY <1>1, <2>2 DEF Follows
  <2>4. ASSUME Len(steps) >= 3 PROVE FALSE
    <3>1. 2 \in 1..(Len(steps) - 1)
      BY <1>1, <2>4
    <3>2. <<"recovered", steps[2 + 1]>> \in Follows
      BY <1>2, <2>3, <3>1
    <3> QED
      BY <3>2 DEF Follows
  <2> QED
    BY <1>1, <2>3, <2>4
<1> SUFFICES ASSUME NEW i \in 1..Len(steps), steps[i] \in {"request", "restart", "noteFresh"}
             PROVE FALSE
  BY DEF FreshAhead, Ahead
<1>4. i # 1
  BY <1>1
<1>5. i = 2 /\ Len(steps) >= 2
  BY <1>1, <1>3, <1>4
<1> QED
  BY <1>3, <1>5

\* Only the first step of a recovery finds out that a thread is due.
LEMMA OpensAtRestart ==
  ASSUME TypeInv, PlanInv, FailureInv, FreshInv, Looks, steps' # <<>>, Head(steps') = "newTask"
  PROVE Head(steps) = "restart"
<1>1. recovering /\ steps # <<>> /\ Head(steps) \in {"restart", "observe", "delay", "pending"}
  BY LooksAre
<1>2. ASSUME NEW p \in Seq(Token), steps' = p \o Tail(steps), Len(p) > 0 => p[1] # "newTask"
      PROVE FALSE
  <2>1. PICK r : r = p \o Tail(steps) /\ r # <<>>
    BY <1>2
  <2>2. /\ Len(p) > 0 => Head(r) = p[1]
        /\ Len(p) = 0 => <<Head(steps), Head(r)>> \in Follows
    BY <1>1, <2>1, HeadOfJoined
  <2>3. Len(p) > 0 \/ Len(p) = 0
    OBVIOUS
  <2> QED
    BY <1>2, <2>1, <2>2, <2>3 DEF Follows
<1>3. ~RecoverObserve
  <2> SUFFICES ASSUME RecoverObserve PROVE FALSE
    OBVIOUS
  <2>1. PICK p : (p = <<>> \/ p = <<"delay">>) /\ steps' = p \o Tail(steps)
    BY DEF RecoverObserve
  <2>2. p \in Seq(Token) /\ (Len(p) > 0 => p[1] # "newTask")
    <3>1. p \in Seq(Token)
      BY <2>1, Segments DEF Segment
    <3>2. Len(p) > 0 => p[1] # "newTask"
      BY <2>1
    <3> QED
      BY <3>1, <3>2
  <2> QED
    BY <1>2, <2>1, <2>2
<1>4. ~RecoverDelay
  <2> SUFFICES ASSUME RecoverDelay PROVE FALSE
    OBVIOUS
  <2>1. PICK p : (p = <<>> \/ p = <<"goOn">>) /\ steps' = p \o Tail(steps)
    BY DEF RecoverDelay
  <2>2. p \in Seq(Token) /\ (Len(p) > 0 => p[1] # "newTask")
    <3>1. p \in Seq(Token)
      BY <2>1, Segments DEF Segment
    <3>2. Len(p) > 0 => p[1] # "newTask"
      BY <2>1
    <3> QED
      BY <3>1, <3>2
  <2> QED
    BY <1>2, <2>1, <2>2
<1>5. ~RecoverPending
  <2> SUFFICES ASSUME RecoverPending PROVE FALSE
    OBVIOUS
  <2>1. ~RepeatedYoloFailure
    BY <1>1, PendingEnds, Owed DEF RecoverPending, At, FreshInv
  <2>2. PICK p : /\ p = <<>> \/ p = <<"continue", "noteDelivered">>
                 /\ steps' = p \o Tail(steps)
    BY <2>1 DEF RecoverPending
  <2>3. p \in Seq(Token) /\ (Len(p) > 0 => p[1] # "newTask")
    <3>1. p \in Seq(Token)
      BY <2>2, Segments DEF Segment
    <3>2. Len(p) > 0 => p[1] # "newTask"
      BY <2>2
    <3> QED
      BY <3>1, <3>2
  <2> QED
    BY <1>2, <2>2, <2>3
<1> QED
  BY <1>3, <1>4, <1>5 DEF Looks, RecoverRestart, At

LEMMA DueIs ==
  ASSUME TypeInv, PlanInv, FailureInv, FreshInv, [Next]_vars
  PROVE /\ Due \in {0, 1} /\ Due' \in {0, 1}
        /\ Undoes \/ Due' <= Due
        /\ NewTask => Due = 1 /\ Due' = 0
<1>1. Due \in {0, 1} /\ Due' \in {0, 1}
  BY DEF Due
<1>2. ASSUME ~recovering' PROVE Due' = 0
  BY <1>2 DEF Due
<1>3. ASSUME steps # <<>>, steps' = Tail(steps) PROVE Due' = 0
  BY <1>3, NextIs DEF Due, Follows
<1>4. recovering => steps # <<>> /\ Head(steps) \in RecoveryTokens
  BY Awake DEF RecoveryPlan
<1>5. ~recovering /\ steps # <<>> => Head(steps) \in GateTokens
  BY Awake DEF GatePlan
<1>6. NewTask => Due = 1 /\ Due' = 0
  <2> SUFFICES ASSUME NewTask PROVE Due = 1 /\ Due' = 0
    OBVIOUS
  <2>1. steps # <<>> /\ Head(steps) = "newTask" /\ steps' = Tail(steps)
    BY DEF NewTask, At
  <2>2. recovering
    BY <1>5, <2>1 DEF GateTokens
  <2> QED
    BY <1>3, <2>1, <2>2 DEF Due
<1> SUFFICES Undoes \/ Due' <= Due
  BY <1>1, <1>6
<1>7. CASE Gates
  BY <1>1, <1>2, <1>7, GatesAre
<1>8. CASE Escalate
  BY <1>1, <1>2, <1>4, <1>8 DEF Escalate, At, RecoveryTokens
<1>9. CASE WriteRestartRequest
  BY <1>1, <1>2, <1>9 DEF WriteRestartRequest, At, Due
<1>10. CASE Send \/ Settle \/ NoteDelivered \/ NoteVerify \/ NoteReflect \/ NewTask \/ NoteFresh
            \/ Recovered
  BY <1>1, <1>3, <1>10 DEF Send, Settle, NoteDelivered, NoteVerify, NoteReflect, NewTask,
                           NoteFresh, Recovered, At
<1>11. CASE Deliver
  BY <1>1, <1>11 DEF Deliver, Continuation, Due
<1>12. CASE RecoverRestart /\ YoloRestartRequired
  BY <1>1, <1>5, <1>12 DEF RecoverRestart, At, Due, GateTokens
<1>13. CASE Looks
  <2>1. /\ recovering /\ steps # <<>>
        /\ steps' # <<>> => Head(steps') \in {"newTask", "observe", "delay", "pending", "goOn",
                                              "continue", "recovered"}
    BY <1>13, LooksAre
  <2>2. CASE steps' # <<>> /\ Head(steps') = "newTask"
    BY <1>1, <1>13, <2>1, <2>2, OpensAtRestart DEF Due
  <2>3. CASE ~(steps' # <<>> /\ Head(steps') = "newTask")
    BY <1>1, <2>1, <2>3 DEF Due
  <2> QED
    BY <2>2, <2>3
<1>14. CASE Abroad \/ UNCHANGED vars
  BY <1>1, <1>14, AbroadIs DEF ThreadGoesOn, Due, vars
<1> QED
  BY <1>7, <1>8, <1>9, <1>10, <1>11, <1>12, <1>13, <1>14
     DEF Next, WorkerSteps, Abroad, Looks, Undoes

LEMMA StepThreads ==
  RecordInv /\ ThreadsInv /\ [Next]_vars => ThreadsInv'
<1> SUFFICES ASSUME RecordInv, ThreadsInv, [Next]_vars PROVE ThreadsInv'
  OBVIOUS
<1>1. TypeInv /\ PlanInv /\ FailureInv /\ FreshInv /\ Log(log)
  BY DEF RecordInv, TypeInv
<1>2. PICK K : K = {"task"}
  OBVIOUS
<1>3. Count(log, K) \in Nat /\ Count(log', K) \in Nat
  BY <1>1, CountStays
<1>4. CASE NewTask
  <2>1. Count(log', K) = Count(log, K) + 1
    BY <1>1, <1>2, <1>4, CountGrown DEF NewTask, Entries
  <2>2. Due = 1 /\ Due' = 0
    BY <1>1, <1>4, DueIs
  <2>3. Budget' >= Budget /\ Budget \in Int /\ Budget' \in Int
    BY <1>1, BudgetGrows
  <2>4. item' = item /\ item.yolo # 0
    BY <1>1, <1>4 DEF NewTask, FreshInv, FreshRecoveryRequired
  <2> QED
    BY <1>2, <1>3, <2>1, <2>2, <2>3, <2>4 DEF ThreadsInv
<1>5. CASE ~NewTask
  <2>1. Count(log', K) = Count(log, K)
    <3>1. CASE log' = log
      BY <3>1
    <3>2. ASSUME NEW e \in Entries, e # "task", log' = Append(log, e)
          PROVE Count(log', K) = Count(log, K)
      BY <1>1, <1>2, <3>2, CountGrown
    <3>3. CASE Send /\ steps # <<>> /\ Head(steps) \in Requests /\ Requests \subseteq Entries
      BY <3>2, <3>3, Kinds DEF Send
    <3>4. CASE ThreadGoesOn
      BY <3>2, <3>4 DEF ThreadGoesOn, Deed
    <3> QED
      BY <1>1, <1>5, <3>1, <3>3, <3>4, WritersAre
  <2>2. Due \in {0, 1} /\ Due' \in {0, 1} /\ (Undoes \/ Due' <= Due)
    BY <1>1, DueIs
  <2>3. /\ Budget' >= Budget /\ Budget \in Int /\ Budget' \in Int
        /\ Undoes => Budget' >= Budget + 1
    BY <1>1, BudgetGrows
  <2>4. item.yolo # 0 => item'.yolo # 0
    <3>1. item.failure \in Nat /\ item.yolo \in Nat /\ item.yolo <= item.failure
      BY <1>1 DEF TypeInv, Items, FailureInv
    <3>2. AsksRestart => item'.yolo = item.failure
      BY <1>1, RestartIs DEF AsksRestart, YoloRestartRequired, FailureInv
    <3> QED
      BY <1>1, <3>1, <3>2, YoloKept
  <2> QED
    BY <1>2, <1>3, <2>1, <2>2, <2>3, <2>4 DEF ThreadsInv
<1> QED
  BY <1>4, <1>5

LEMMA ThreadsAlways == Spec => [](RecordInv /\ ThreadsInv)
<1>1. Init => ThreadsInv
  <2> SUFFICES ASSUME Init PROVE ThreadsInv
    OBVIOUS
  <2>1. TypeInv /\ Log(log) /\ Len(log) = 1 /\ steps = <<>> /\ request = 0 /\ item.yolo = 0
        /\ used.disturbance = 0
    BY InitTypes DEF Init, TypeInv, NewItem
  <2>2. Due = 0 /\ Asked = 0
    BY <2>1 DEF Due, Asked, At
  <2>3. Taken(log, item.yolo) \in Nat
    BY <2>1, BudgetIs
  <2>4. Budget >= 0 /\ Budget \in Int
    BY <2>1, <2>2, <2>3 DEF Budget
  <2>5. Count(log, {"task"}) = 1
    <3>1. {i \in DOMAIN log : log[i] \in {"task"}} = {1}
      BY <2>1, LogIs DEF Log
    <3> QED
      BY <3>1, FS_Singleton DEF Count
  <2> QED
    BY <2>2, <2>4, <2>5 DEF ThreadsInv
<1>2. RecordInv /\ ThreadsInv /\ [Next]_vars => ThreadsInv'
  BY StepThreads
<1> QED
  BY <1>1, <1>2, RecordAlways, PTL DEF Spec

\* A task is started afresh only for a failure in YOLO mode, once for each, and once more only
\* for what undid a recovery, whatever the host and the daemon lose in between.
THEOREM FreshOnlyForYolo == Spec => []FreshThreadsJustified
<1>1. RecordInv /\ ThreadsInv => FreshThreadsJustified
  <2> SUFFICES ASSUME RecordInv, ThreadsInv PROVE FreshThreadsJustified
    OBVIOUS
  <2>1. TypeInv /\ FailureInv
    BY DEF RecordInv
  <2>2. PICK K : K = {"task"}
    OBVIOUS
  <2>3. PICK Y : Y = {"yolo"}
    OBVIOUS
  <2>4. Count(log, K) \in Nat /\ Log(log)
    BY <2>1, CountIs DEF TypeInv
  <2>5. /\ used.disturbance \in Nat /\ Budget \in Int /\ Count(log, Y) \in Nat
        /\ Budget <= used.disturbance + Count(log, Y)
    BY <2>1, <2>3, BudgetIs
  <2>6. Due \in {0, 1}
    BY DEF Due
  <2>7. Count(log, K) <= 1 + used.disturbance + Count(log, Y)
    BY <2>2, <2>4, <2>5, <2>6 DEF ThreadsInv
  <2>8. Count(log, K) > 1 => Count(log, Y) # 0
    <3> SUFFICES ASSUME Count(log, K) > 1 PROVE Count(log, Y) # 0
      OBVIOUS
    <3>1. item.yolo # 0 /\ log[item.yolo] = "yolo"
      BY <2>1, <2>2 DEF ThreadsInv, FailureInv
    <3>2. item.yolo \in Nat /\ item.yolo <= Len(log) /\ 0 < item.yolo
      BY <2>1, <3>1 DEF TypeInv, Items, Within
    <3>3. Taken(log, item.yolo) >= Taken(log, 0) + 1
      BY <2>4, <3>1, <3>2, TakenMore
    <3>4. Taken(log, item.yolo) <= Count(log, Y) /\ Taken(log, item.yolo) \in Nat
      BY <2>3, <2>4, <3>2, TakenIs
    <3>5. Taken(log, 0) \in Nat
      <4>1. 0 \in Nat /\ 0 <= Len(log)
        BY <2>4, LogIs
      <4> QED
        BY <2>4, <4>1, TakenIs
    <3> QED
      BY <2>5, <3>3, <3>4, <3>5
  <2> QED
    BY <2>2, <2>3, <2>4, <2>5, <2>7, <2>8 DEF FreshThreadsJustified
<1> QED
  BY <1>1, ThreadsAlways, PTL

------------------------------------------------------------------------------
(* The rounds of verification.                                              *)

\* The verifications that were asked for in the newest thread.
Verifies(s) == {i \in ThreadStart(s)..Len(s) : s[i] = "verify"}

LEMMA VerifiesIs ==
  ASSUME NEW s, Log(s)
  PROVE IsFiniteSet(Verifies(s)) /\ Cardinality(Verifies(s)) \in Nat
<1>1. ThreadStart(s) \in Nat /\ Len(s) \in Nat
  BY LogIs, ThreadStartIs
<1>2. IsFiniteSet(ThreadStart(s)..Len(s)) /\ Verifies(s) \subseteq ThreadStart(s)..Len(s)
  BY <1>1, FS_Interval DEF Verifies
<1> QED
  BY <1>2, FS_Subset, FS_CardinalityType

LEMMA VerifiesAdded ==
  ASSUME NEW s, Log(s), NEW e \in Entries, NEW r, Adds(s, e, r)
  PROVE /\ e = "task" => Cardinality(Verifies(r)) = 0
        /\ e = "verify" => Cardinality(Verifies(r)) = Cardinality(Verifies(s)) + 1
        /\ e \notin {"task", "verify"} => Verifies(r) = Verifies(s)
<1>1. /\ Log(r) /\ Len(r) = Len(s) + 1 /\ r[Len(r)] = e
      /\ \A i \in 1..Len(s) : r[i] = s[i]
      /\ e = "task" => ThreadStart(r) = Len(r)
      /\ e # "task" => ThreadStart(r) = ThreadStart(s)
  BY EntryAdded
<1>2. ThreadStart(s) \in 1..Len(s) /\ Len(s) \in Nat
  BY LogIs, ThreadStartIs
<1> DEFINE t == ThreadStart(s)
           n == Len(s)
<1>3. CASE e = "task"
  <2>1. Verifies(r) = {}
    BY <1>1, <1>2, <1>3 DEF Verifies
  <2> QED
    BY <1>3, <2>1, FS_EmptySet
<1>4. CASE e # "task"
  <2>1. Verifies(r) = {i \in t..(n + 1) : r[i] = "verify"}
    BY <1>1, <1>4 DEF Verifies
  <2>2. /\ t \in 1..n /\ n \in Nat /\ r[n + 1] = e
        /\ \A i \in 1..n : r[i] = s[i]
    BY <1>1, <1>2
  <2>3. Verifies(s) = {i \in t..n : s[i] = "verify"}
    BY DEF Verifies
  <2> HIDE DEF t, n
  <2>4. CASE e = "verify"
    <3>1. Verifies(r) = Verifies(s) \cup {n + 1} /\ n + 1 \notin Verifies(s)
      BY <2>1, <2>2, <2>3, <2>4
    <3>2. Cardinality(Verifies(s) \cup {n + 1}) = Cardinality(Verifies(s)) + 1
      BY <3>1, VerifiesIs, FS_AddElement
    <3> QED
      BY <2>4, <3>1, <3>2
  <2>5. CASE e # "verify"
    <3>1. Verifies(r) = Verifies(s)
      BY <2>1, <2>2, <2>3, <2>5
    <3> QED
      BY <1>4, <2>5, <3>1
  <2> QED
    BY <2>4, <2>5
<1> QED
  BY <1>3, <1>4

LEMMA VerifiesGrown ==
  ASSUME TypeInv, [Next]_vars
  PROVE /\ Cardinality(Verifies(log)) \in Nat /\ Cardinality(Verifies(log))' \in Nat
        /\ NewTask => Cardinality(Verifies(log))' = 0
        /\ Send /\ Head(steps) = "verify"
             => Cardinality(Verifies(log))' = Cardinality(Verifies(log)) + 1
        /\ ~NewTask /\ ~(Send /\ Head(steps) = "verify")
             => Cardinality(Verifies(log))' = Cardinality(Verifies(log))
<1>1. Log(log) /\ Cardinality(Verifies(log)) \in Nat
  BY VerifiesIs DEF TypeInv
<1>2. PICK r : r = log'
  OBVIOUS
<1>3. ASSUME NEW e \in Entries, log' = Append(log, e)
      PROVE /\ Cardinality(Verifies(r)) \in Nat
            /\ e = "task" => Cardinality(Verifies(r)) = 0
            /\ e = "verify" => Cardinality(Verifies(r)) = Cardinality(Verifies(log)) + 1
            /\ e \notin {"task", "verify"} => Verifies(r) = Verifies(log)
  <2>1. Adds(log, e, r)
    BY <1>2, <1>3 DEF Adds
  <2>2. Log(r)
    BY <1>1, <2>1, EntryAdded
  <2> QED
    BY <1>1, <2>1, <2>2, VerifiesAdded, VerifiesIs
<1>4. Cardinality(Verifies(log))' = Cardinality(Verifies(r))
  BY <1>2
<1>5. CASE log' = log /\ ~NewTask /\ ~Send
  BY <1>1, <1>5
<1>6. CASE Send
  <2>1. Head(steps) \in Entries \ {"task"} /\ log' = Append(log, Head(steps)) /\ ~NewTask
    BY <1>6, WritersAre, Kinds DEF Send, NewTask, At, Requests, GateRequests, Entries, Feedback
  <2>2. PICK e \in Entries : e = Head(steps) /\ e # "task" /\ log' = Append(log, e)
    BY <2>1
  <2>3. /\ Cardinality(Verifies(r)) \in Nat
        /\ e = "verify" => Cardinality(Verifies(r)) = Cardinality(Verifies(log)) + 1
        /\ e # "verify" => Verifies(r) = Verifies(log)
    BY <1>3, <2>2
  <2> QED
    BY <1>1, <1>4, <1>6, <2>1, <2>2, <2>3
<1>7. CASE NewTask
  <2>1. "task" \in Entries /\ log' = Append(log, "task") /\ ~Send
    BY <1>7, Kinds DEF NewTask, At, Send, Entries, Requests, GateRequests
  <2>2. Cardinality(Verifies(r)) = 0
    BY <1>3, <2>1
  <2> QED
    BY <1>1, <1>4, <1>7, <2>1, <2>2
<1>8. CASE ThreadGoesOn /\ ~NewTask /\ ~Send
  <2>1. PICK e \in Deed : log' = Append(log, e)
    BY <1>8 DEF ThreadGoesOn
  <2>2. e \in Entries /\ e \notin {"task", "verify"}
    BY <2>1 DEF Deed, Requests, GateRequests
  <2> QED
    BY <1>3, <1>4, <1>8, <2>1, <2>2
<1>9. log' = log \/ Send \/ NewTask \/ ThreadGoesOn
  BY WritersAre
<1> QED
  BY <1>5, <1>6, <1>7, <1>8, <1>9

\* Only a gate plans a request, and the note of a request follows its message.
LEMMA GatesPlanRequests ==
  ASSUME TypeInv, PlanInv, [Next]_vars, ~Gates, steps' # steps, steps' # <<>>
  PROVE /\ Head(steps') \notin GateRequests
        /\ Head(steps') \in {"noteVerify", "noteReflect"}
             => Send /\ <<Head(steps), Head(steps')>> \in Follows
<1> DEFINE N == GateRequests \cup {"noteVerify", "noteReflect"}
<1>1. ASSUME Head(steps') \notin N
      PROVE /\ Head(steps') \notin GateRequests
            /\ Head(steps') \notin {"noteVerify", "noteReflect"}
  BY <1>1
<1>2. CASE Escalate \/ Deliver \/ CallFails \/ Reload \/ Interrupt \/ DaemonRestarts
           \/ WriteRestartRequest
  <2>1. \/ steps' = <<"request">> \/ steps' = CompactAndContinue \/ steps' = Continuation
        \/ steps' = Ended \/ steps' = Recover
    BY <1>2 DEF Escalate, Deliver, CallFails, Finishes, Reload, Interrupt, DaemonRestarts,
                HostRestarts, WriteRestartRequest, Restarted
  <2>2. Head(steps') \notin N
    BY <2>1 DEF CompactAndContinue, Continuation, Ended, Recover, GateRequests
  <2> QED
    BY <1>1, <2>2
<1>3. CASE Settle \/ NoteDelivered \/ NoteVerify \/ NoteReflect \/ NewTask \/ NoteFresh
           \/ Recovered \/ Send
  <2>1. steps # <<>> /\ steps' = Tail(steps)
    BY <1>3 DEF Settle, NoteDelivered, NoteVerify, NoteReflect, NewTask, NoteFresh, Recovered,
                Send, At
  <2>2. <<Head(steps), Head(steps')>> \in Follows
    BY <2>1, NextIs
  <2>3. Head(steps') \notin GateRequests
    BY <2>2 DEF Follows, GateRequests
  <2>4. ~Send => Head(steps) \notin {"verify", "reflect"}
    BY <1>3 DEF Settle, NoteDelivered, NoteVerify, NoteReflect, NewTask, NoteFresh, Recovered, At
  <2>5. Head(steps) \notin {"verify", "reflect"}
          => Head(steps') \notin {"noteVerify", "noteReflect"}
    BY <2>2 DEF Follows
  <2> QED
    BY <2>2, <2>3, <2>4, <2>5
<1>4. CASE RecoverRestart /\ YoloRestartRequired
  <2>1. Head(steps') \notin N
    BY <1>4 DEF RecoverRestart, GateRequests
  <2> QED
    BY <1>1, <2>1
<1>5. CASE Looks
  <2>1. Head(steps') \notin N
    BY <1>5, LooksAre DEF GateRequests
  <2> QED
    BY <1>1, <2>1
<1>6. ~DaemonDrops /\ ~Abroad
  BY AbroadIs DEF DaemonDrops, ThreadGoesOn
<1> HIDE DEF N
<1> QED
  BY <1>2, <1>3, <1>4, <1>5, <1>6 DEF Next, WorkerSteps, Abroad, Looks, vars

\* A request that was sent is noted in the next step of the worker, unless that is undone.
LEMMA NotedOrUndone ==
  ASSUME TypeInv, PlanInv, [Next]_vars, steps # <<>>,
         Head(steps) \in GateRequests \cup {"noteVerify", "noteReflect"}
  PROVE \/ steps' = steps /\ ~Undoes
        \/ Undoes
        \/ Send /\ Head(steps) \in GateRequests
        \/ NoteVerify /\ Head(steps) = "noteVerify"
        \/ NoteReflect /\ Head(steps) = "noteReflect"
<1>1. ~Gates
  BY GatesAre
<1>2. WorkerSteps => \/ Send /\ Head(steps) \in GateRequests
                     \/ NoteVerify /\ Head(steps) = "noteVerify"
                     \/ NoteReflect /\ Head(steps) = "noteReflect"
  BY DEF WorkerSteps, Escalate, WriteRestartRequest, Send, Settle, Deliver, NoteDelivered,
         NoteVerify, NoteReflect, NewTask, NoteFresh, RecoverRestart, RecoverObserve,
         RecoverDelay, RecoverPending, Recovered, At, GateRequests, Requests
<1>3. Abroad \/ UNCHANGED vars => steps' = steps
  BY AbroadIs DEF ThreadGoesOn, vars
<1> QED
  BY <1>1, <1>2, <1>3 DEF Next, Abroad, Undoes

\* Only the notes change the flags.
LEMMA FlagsKept ==
  ASSUME TypeInv, PlanInv, [Next]_vars
  PROVE SameFlags(item', item) \/ NoteVerify \/ NoteReflect \/ NoteFresh
<1>1. CASE Gates
  BY <1>1, GatesAre
<1>2. CASE WorkerSteps /\ item' # item
  <2>1. CASE AsksRestart
    BY <2>1, RestartIs
  <2>2. AsksRestart \/ NoteDelivered \/ NoteVerify \/ NoteReflect \/ NoteFresh
    BY <1>2 DEF AsksRestart, WorkerSteps, Escalate, WriteRestartRequest, Send, Settle, Deliver,
         NewTask, RecoverRestart, RecoverObserve, RecoverDelay, RecoverPending, Recovered
  <2> QED
    BY <2>1, <2>2, NotesAre
<1>3. CASE item' = item
  BY <1>3 DEF SameFlags
<1>4. CASE CallFails
  BY <1>3, <1>4, CallEnds DEF CallFails
<1>5. CASE Reload \/ Interrupt \/ DaemonRestarts \/ DaemonDrops \/ UNCHANGED vars
  BY <1>3, <1>5 DEF Reload, Interrupt, DaemonRestarts, DaemonDrops, HostRestarts, vars
<1>6. CASE Abroad
  BY <1>3, <1>6, AbroadIs DEF ThreadGoesOn
<1> QED
  BY <1>1, <1>2, <1>3, <1>4, <1>5, <1>6 DEF Next, Abroad

\* The rounds that were noted, or are to be noted next, stay within the limit; every other
\* verification of this thread was undone and paid for.
ToNote == IF At("noteVerify") THEN 1 ELSE 0
Round == IF At("verify") \/ At("noteVerify") THEN 1 ELSE 0
VerifyInv ==
  /\ Cardinality(Verifies(log)) <= item.rounds + ToNote + Budget
  /\ ~item.verified => item.rounds = 0
  /\ item.rounds + Round <= MaxVerifications
  /\ At("verify") => Len(steps) = 2 /\ steps[2] = "noteVerify"

\* A task never repeats more than was paid for.
LEMMA BudgetCovers ==
  ASSUME TypeInv, ThreadsInv
  PROVE Budget \in Int /\ Budget >= 0
<1>1. Log(log) /\ Budget \in Int
  BY BudgetIs DEF TypeInv
<1>2. PICK K : K = {"task"}
  OBVIOUS
<1>3. Count(log, K) \in Nat /\ Count(log, K) # 0
  <2>1. IsFiniteSet({i \in DOMAIN log : log[i] \in K}) /\ Count(log, K) \in Nat
    BY <1>1, CountIs
  <2>2. 1 \in {i \in DOMAIN log : log[i] \in K}
    BY <1>1, <1>2, LogIs DEF Log
  <2> QED
    BY <2>1, <2>2, FS_EmptySet DEF Count
<1>4. Due \in {0, 1}
  BY DEF Due
<1> QED
  BY <1>1, <1>2, <1>3, <1>4 DEF ThreadsInv

LEMMA StepVerify ==
  RecordInv /\ EmptyInv /\ ThreadsInv /\ VerifyInv /\ [Next]_vars => VerifyInv'
<1> SUFFICES ASSUME RecordInv, EmptyInv, ThreadsInv, VerifyInv, [Next]_vars PROVE VerifyInv'
  OBVIOUS
<1> DEFINE v == Cardinality(Verifies(log))
           w == Cardinality(Verifies(log))'
           n == item.rounds
           m == item'.rounds
           b == Budget
           c == Budget'
<1>1. /\ TypeInv /\ PlanInv /\ FailureInv /\ FreshInv /\ Log(log)
      /\ n \in Nat /\ MaxVerifications \in Nat \ {0}
  BY GatesAssumption DEF RecordInv, TypeInv, Items
<1>2. /\ v \in Nat /\ w \in Nat
      /\ NewTask => w = 0
      /\ Send /\ Head(steps) = "verify" => w = v + 1
      /\ ~NewTask /\ ~(Send /\ Head(steps) = "verify") => w = v
  BY <1>1, VerifiesGrown
<1>3. /\ b \in Int /\ c \in Int /\ c >= b /\ b >= 0 /\ (Undoes => c >= b + 1)
  BY <1>1, BudgetGrows, BudgetCovers
<1>4. /\ v <= n + ToNote + b /\ (~item.verified => n = 0) /\ n + Round <= MaxVerifications
      /\ At("verify") => Len(steps) = 2 /\ steps[2] = "noteVerify"
  BY DEF VerifyInv
<1> DEFINE Goal == /\ w <= m + ToNote' + c
                   /\ ~item'.verified => m = 0
                   /\ m + Round' <= MaxVerifications
                   /\ At("verify")' => Len(steps') = 2 /\ steps'[2] = "noteVerify"
<1> SUFFICES Goal
  BY DEF VerifyInv
<1>5. ToNote \in {0, 1} /\ Round \in {0, 1} /\ ToNote <= Round
  BY DEF ToNote, Round
<1>6. /\ steps' = steps => ToNote' = ToNote /\ Round' = Round /\ At("verify")' = At("verify")
      /\ ~At("verify")' /\ ~At("noteVerify")' => ToNote' = 0 /\ Round' = 0
  BY DEF ToNote, Round, At
<1> HIDE DEF v, w, n, m, b, c
<1>7. CASE Send /\ Head(steps) = "verify"
  <2>1. /\ steps # <<>> /\ steps' = Tail(steps) /\ item' = item /\ At("verify")
        /\ steps \in Seq(Token)
    BY <1>1, <1>7 DEF Send, At, TypeInv
  <2>2. PICK r : r = Tail(steps)
    OBVIOUS
  <2>3. r # <<>> /\ Head(r) = "noteVerify"
    BY <1>4, <2>1, <2>2, RestOfTwo
  <2>4. ToNote' = 1 /\ Round' = 1 /\ ToNote = 0 /\ Round = 1 /\ ~At("verify")'
    BY <1>7, <2>1, <2>2, <2>3 DEF ToNote, Round, At
  <2>5. ~NewTask
    BY <1>7 DEF NewTask, At
  <2>6. m = n /\ item'.verified = item.verified
    BY <2>1 DEF m, n
  <2> QED
    BY <1>1, <1>2, <1>3, <1>4, <1>7, <2>4, <2>6
<1>8. CASE NoteVerify
  <2>1. /\ At("noteVerify") /\ ~Gates /\ steps # <<>> /\ steps' = Tail(steps)
        /\ ~NewTask /\ ~Send
    BY <1>1, <1>8, GatesAre DEF NoteVerify, At, NewTask, Send, Requests, GateRequests
  <2>2. ~At("verify")' /\ ~At("noteVerify")'
    BY <1>1, <2>1, NextIs DEF At, Follows
  <2>3. m = n + 1 /\ item'.verified
    BY <1>1, <1>8, NotesAre DEF m, n
  <2>4. ToNote = 1 /\ Round = 1
    BY <2>1 DEF ToNote, Round
  <2> QED
    BY <1>1, <1>2, <1>3, <1>4, <1>6, <2>1, <2>2, <2>3, <2>4
<1>9. ASSUME w = 0, m \in Nat, ~item'.verified => m = 0, m <= n,
             ~At("verify")', ~At("noteVerify")'
      PROVE Goal
  BY <1>1, <1>3, <1>4, <1>5, <1>6, <1>9
<1>10. CASE NewTask \/ NoteFresh
  <2>1. /\ steps # <<>> /\ steps' = Tail(steps) /\ Head(steps) \in {"newTask", "noteFresh"}
    BY <1>10 DEF NewTask, NoteFresh, At
  <2>2. ~At("verify")' /\ ~At("noteVerify")'
    BY <1>1, <2>1, NextIs DEF At, Follows
  <2>3. CASE NewTask
    <3>1. item' = item /\ m = n
      BY <2>3 DEF NewTask, m, n
    <3> QED
      BY <1>1, <1>2, <1>4, <1>9, <2>2, <2>3, <3>1
  <2>4. CASE NoteFresh
    <3>1. m = 0 /\ log' = log /\ ~NewTask /\ ~Send
      BY <1>1, <2>4, NotesAre DEF m, NoteFresh, At, NewTask, Send, Requests, GateRequests
    <3>2. LastOf(log, GateRequests) = 0
      <4>1. 1 \in 1..Len(steps) /\ steps[1] = "noteFresh" /\ ~At("newTask")
        BY <1>1, <2>4, Awake DEF NoteFresh, At
      <4> QED
        BY <4>1 DEF EmptyInv, Ahead
    <3>3. Verifies(log) = {}
      <4> SUFFICES ASSUME NEW i \in Verifies(log) PROVE FALSE
        OBVIOUS
      <4>1. /\ ThreadStart(log) \in 1..Len(log) /\ Len(log) \in Nat
            /\ log[ThreadStart(log)] = "task"
        BY <1>1, LogIs, ThreadStartIs
      <4>2. i \in ThreadStart(log)..Len(log) /\ log[i] = "verify"
        BY DEF Verifies
      <4>3. i # ThreadStart(log)
        BY <4>1, <4>2
      <4>4. i \in 1..Len(log) /\ i > ThreadStart(log) /\ log[i] \in GateRequests
        BY <4>1, <4>2, <4>3 DEF GateRequests
      <4>5. i <= LastOf(log, GateRequests)
        BY <1>1, <4>4, LastOfIs, Kinds
      <4> QED
        BY <3>2, <4>4, <4>5
    <3>4. v = 0
      BY <3>3, FS_EmptySet DEF v
    <3> QED
      BY <1>1, <1>2, <1>9, <2>2, <3>1, <3>4
  <2> QED
    BY <1>10, <2>3, <2>4
<1>11. CASE Gates
  <2>1. /\ steps = <<>> /\ log' = log /\ SameFlags(item', item)
        /\ EndsRecord \/ MeetsOverflow \/ MeetsFailure \/ SendsBack \/ Corrects \/ AsksWork
             \/ AsksCheck
    BY <1>1, <1>11, GatesAre
  <2>2. m = n /\ item'.verified = item.verified
    BY <2>1 DEF SameFlags, m, n
  <2>3. w = v /\ ToNote = 0 /\ Round = 0
    BY <1>2, <2>1 DEF NewTask, Send, At, ToNote, Round
  <2>4. CASE At("verify")'
    <3>1. AsksCheck /\ VerificationDue /\ steps' = <<"verify", "noteVerify">>
      BY <2>1, <2>4 DEF EndsRecord, MeetsOverflow, MeetsFailure, SendsBack, Corrects, AsksWork,
           AsksCheck, At, Ended, CompactAndContinue
    <3>2. n < MaxVerifications
      BY <1>1, <1>4, <3>1 DEF VerificationDue, n
    <3>3. ToNote' = 0 /\ Round' = 1 /\ Len(steps') = 2 /\ steps'[2] = "noteVerify"
      BY <3>1 DEF ToNote, Round, At
    <3> QED
      BY <1>1, <1>2, <1>3, <1>4, <2>2, <2>3, <3>2, <3>3
  <2>5. CASE ~At("verify")'
    <3>1. ~At("noteVerify")'
      BY <2>1 DEF EndsRecord, MeetsOverflow, MeetsFailure, SendsBack, Corrects, AsksWork,
           AsksCheck, At, Ended, CompactAndContinue
    <3> QED
      BY <1>1, <1>2, <1>3, <1>4, <1>6, <2>2, <2>3, <2>5, <3>1
  <2> QED
    BY <2>4, <2>5
<1>12. CASE ~Gates /\ ~NewTask /\ ~NoteFresh /\ ~NoteVerify /\ ~(Send /\ Head(steps) = "verify")
  <2>1. w = v
    BY <1>2, <1>12
  <2>2. m = n /\ item'.verified = item.verified
    BY <1>1, <1>12, FlagsKept, NotesAre DEF SameFlags, m, n
  <2>3. CASE steps' = steps
    BY <1>1, <1>2, <1>3, <1>4, <1>5, <1>6, <2>1, <2>2, <2>3
  <2>4. CASE steps' # steps
    <3>1. ~At("verify")' /\ ~At("noteVerify")'
      <4>1. CASE steps' # <<>>
        <5>1. /\ Head(steps') \notin GateRequests
              /\ Head(steps') \in {"noteVerify", "noteReflect"}
                   => Send /\ <<Head(steps), Head(steps')>> \in Follows
          BY <1>1, <1>12, <2>4, <4>1, GatesPlanRequests
        <5>2. Head(steps') # "noteVerify"
          BY <1>12, <5>1 DEF Follows
        <5> QED
          BY <5>1, <5>2 DEF At, GateRequests
      <4> QED
        BY <4>1 DEF At
    <3>2. ToNote = 0 \/ Undoes
      BY <1>1, <1>12, <2>4, NotedOrUndone DEF ToNote, At, Undoes, Send, Requests, GateRequests
    <3> QED
      BY <1>1, <1>2, <1>3, <1>4, <1>5, <1>6, <2>1, <2>2, <3>1, <3>2
  <2> QED
    BY <2>3, <2>4
<1> QED
  BY <1>7, <1>8, <1>10, <1>11, <1>12

LEMMA VerifyAlways == Spec => []VerifyInv
<1>1. Init => VerifyInv
  <2> SUFFICES ASSUME Init PROVE VerifyInv
    OBVIOUS
  <2>1. /\ TypeInv /\ Log(log) /\ Len(log) = 1 /\ steps = <<>> /\ request = 0
        /\ item.yolo = 0 /\ item.rounds = 0 /\ ~item.verified /\ used.disturbance = 0
    BY InitTypes DEF Init, TypeInv, NewItem
  <2>2. ToNote = 0 /\ Round = 0 /\ Asked = 0 /\ ~At("verify")
    BY <2>1 DEF ToNote, Round, Asked, At
  <2>3. Budget >= 0 /\ Budget \in Int
    BY <2>1, <2>2, BudgetIs DEF Budget
  <2>4. Cardinality(Verifies(log)) = 0
    <3>1. Verifies(log) = {}
      BY <2>1, ThreadStartIs DEF Verifies, Log
    <3> QED
      BY <3>1, FS_EmptySet
  <2> QED
    BY <2>1, <2>2, <2>3, <2>4, GatesAssumption DEF VerifyInv
<1>2. RecordInv /\ ThreadsInv /\ EmptyInv /\ VerifyInv /\ [Next]_vars => VerifyInv'
  BY StepVerify
<1>3. ThreadInv => EmptyInv
  BY DEF ThreadInv
<1> QED
  BY <1>1, <1>2, <1>3, ThreadsAlways, ThreadAlways, PTL DEF Spec

\* A thread is asked for verification at most the configured number of times, and once more
\* only for each disturbance or restart for a failure in YOLO mode that undid the note.
THEOREM VerificationEnds == Spec => []VerificationBounded
<1>1. RecordInv /\ VerifyInv => VerificationBounded
  <2> SUFFICES ASSUME RecordInv, VerifyInv PROVE VerificationBounded
    OBVIOUS
  <2>1. TypeInv /\ Log(log) /\ item.rounds \in Nat /\ MaxVerifications \in Nat
    BY GatesAssumption DEF RecordInv, TypeInv, Items
  <2>2. PICK Y : Y = {"yolo"}
    OBVIOUS
  <2>3. /\ used.disturbance \in Nat /\ Budget \in Int /\ Count(log, Y) \in Nat
        /\ Budget <= used.disturbance + Count(log, Y)
    BY <2>1, <2>2, BudgetIs
  <2>4. PICK n : n = Cardinality(Verifies(log))
    OBVIOUS
  <2>5. n \in Nat
    BY <2>1, <2>4, VerifiesIs
  <2>6. n <= item.rounds + ToNote + Budget /\ item.rounds + Round <= MaxVerifications
    BY <2>4 DEF VerifyInv
  <2>7. ToNote \in {0, 1} /\ Round \in {0, 1} /\ ToNote <= Round
    BY DEF ToNote, Round
  <2>8. n <= MaxVerifications + used.disturbance + Count(log, Y)
    BY <2>1, <2>3, <2>5, <2>6, <2>7
  <2> QED
    BY <2>2, <2>4, <2>8 DEF VerificationBounded, Verifies
<1> QED
  BY <1>1, RecordAlways, VerifyAlways, PTL

------------------------------------------------------------------------------
(* The corrections before a record fails.                                   *)

\* Only the audit of a report fails a record for its corrections.
LEMMA LimitBy ==
  ASSUME TypeInv, PlanInv, [Next]_vars, item'.error = "limit", item.error # "limit"
  PROVE Gates /\ GateAuditFails /\ Observed = "completed"
<1>1. item \in Items /\ Log(log)
  BY DEF TypeInv
<1> DEFINE S == Superseded
           A == Acceptable
<1>2. /\ S \in Items /\ A \in Items /\ Audited \in Items
      /\ S.error # "limit" /\ A.error # "limit" /\ Audited.error # "limit"
  BY SupersededIs, AcceptableIs, AuditedIs
<1>3. ~GateDone
  <2> SUFFICES ASSUME GateDone PROVE FALSE
    OBVIOUS
  <2>1. item' = [[S EXCEPT !.error = "none"] EXCEPT !.state = "completed"]
    BY DEF GateDone, Finishes
  <2> HIDE DEF S
  <2> QED
    BY <1>2, <2>1 DEF Items
<1>4. ~GateOverflow
  <2> SUFFICES ASSUME GateOverflow PROVE FALSE
    OBVIOUS
  <2> DEFINE m == LatestContextOverflow(log)
             pending == Pending("overflow", m)
  <2>1. item' = [item EXCEPT !.recovery = m, !.pending = pending]
    BY DEF GateOverflow
  <2> HIDE DEF m, pending
  <2> QED
    BY <1>1, <2>1 DEF Items
<1>5. ~(GateFailure /\ Observed = "task_failed")
  <2> SUFFICES ASSUME GateFailure, Observed = "task_failed" PROVE FALSE
    OBVIOUS
  <2> DEFINE m == UnresolvedTaskFailure(log)
             pending == Pending("failure", m)
             error == log[m]
  <2>1. item' = [item EXCEPT !.failure = m, !.error = error, !.pending = pending]
    BY DEF GateFailure
  <2>2. error \in Failures
    BY <1>1, FailureIs DEF Observed, New
  <2> HIDE DEF m, pending, error
  <2> QED
    BY <1>1, <2>1, <2>2 DEF Items, Failures
<1>6. ~GateTimeout
  <2> SUFFICES ASSUME GateTimeout PROVE FALSE
    OBVIOUS
  <2> DEFINE m == CompletionMarker(log)
  <2>1. item' = [S EXCEPT !.timeout = m, !.error = "timeout"]
    BY DEF GateTimeout
  <2> HIDE DEF S, m
  <2> QED
    BY <1>2, <2>1 DEF Items
<1>7. ~GateScope
  <2> SUFFICES ASSUME GateScope PROVE FALSE
    OBVIOUS
  <2> DEFINE m == ScopeViolation(log)
  <2>1. item' = [S EXCEPT !.scope = m]
    BY DEF GateScope
  <2> HIDE DEF S, m
  <2> QED
    BY <1>2, <2>1 DEF Items
<1>8. ~GateRecommend
  <2> SUFFICES ASSUME GateRecommend PROVE FALSE
    OBVIOUS
  <2> DEFINE m == CompletionMarker(log)
  <2>1. item' = [A EXCEPT !.handled = TRUE, !.marker = m]
    BY DEF GateRecommend
  <2> HIDE DEF A, m
  <2> QED
    BY <1>2, <2>1 DEF Items
<1>9. ~GateFinish
  <2> SUFFICES ASSUME GateFinish PROVE FALSE
    OBVIOUS
  <2>1. item' = [A EXCEPT !.state = "completed"]
    BY DEF GateFinish, Finishes
  <2> HIDE DEF A
  <2> QED
    BY <1>2, <2>1 DEF Items
<1>10. ~(GateAuditCorrects \/ GateVerify \/ GateReflect)
  BY <1>2 DEF GateAuditCorrects, GateVerify, GateReflect
<1>11. CASE Gates
  BY <1>3, <1>4, <1>5, <1>6, <1>7, <1>8, <1>9, <1>10, <1>11 DEF Gates
<1>12. CASE WorkerSteps
  <2>1. ~AsksRestart
    BY RestartIs
  <2>2. ~NoteDelivered /\ ~NoteFresh
    BY <1>1 DEF NoteDelivered, NoteFresh, Items
  <2>3. ~NoteVerify /\ ~NoteReflect
    BY NotesAre
  <2>4. item' # item
    OBVIOUS
  <2> QED
    BY <1>12, <2>1, <2>2, <2>3, <2>4 DEF AsksRestart, WorkerSteps, Escalate,
       WriteRestartRequest, Send, Settle, Deliver, NewTask, RecoverRestart, RecoverObserve,
       RecoverDelay, RecoverPending, Recovered
<1>13. CASE CallFails
  BY <1>13, CallEnds DEF CallFails
<1>14. CASE Reload \/ Interrupt \/ DaemonRestarts \/ DaemonDrops \/ UNCHANGED vars
  BY <1>14 DEF Reload, Interrupt, DaemonRestarts, DaemonDrops, HostRestarts, vars
<1>15. CASE Abroad
  BY <1>15, AbroadIs DEF ThreadGoesOn
<1> QED
  BY <1>11, <1>12, <1>13, <1>14, <1>15 DEF Next, Abroad

\* A record that ended stays ended, and its corrections are counted by the audit alone.
LEMMA RunsOn ==
  ASSUME TypeInv, PlanInv, [Next]_vars, item'.state = "running"
  PROVE /\ item.state = "running"
        /\ \/ item'.claims = item.claims /\ item'.unchanged = item.unchanged
           \/ NoteFresh
           \/ Gates /\ Corrects
<1>1. CASE Gates
  <2>1. /\ item.state = "running"
        /\ MeetsOverflow \/ MeetsFailure \/ SendsBack \/ Corrects \/ AsksWork \/ AsksCheck
    BY <1>1, GatesAre DEF EndsRecord
  <2> QED
    BY <1>1, <2>1 DEF MeetsOverflow, MeetsFailure, SendsBack, AsksWork, AsksCheck, SameCounts
<1>2. CASE item' = item
  BY <1>2
<1>3. CASE WorkerSteps /\ item' # item
  <2>1. CASE AsksRestart
    BY <2>1, RestartIs DEF SameCounts
  <2>2. AsksRestart \/ NoteDelivered \/ NoteVerify \/ NoteReflect \/ NoteFresh
    BY <1>3 DEF AsksRestart, WorkerSteps, Escalate, WriteRestartRequest, Send, Settle, Deliver,
         NewTask, RecoverRestart, RecoverObserve, RecoverDelay, RecoverPending, Recovered
  <2> QED
    BY <2>1, <2>2, NotesAre DEF SameCounts
<1>4. CASE CallFails
  BY <1>2, <1>4, CallEnds DEF CallFails
<1>5. CASE Reload \/ Interrupt \/ DaemonRestarts \/ DaemonDrops \/ UNCHANGED vars
  BY <1>2, <1>5 DEF Reload, Interrupt, DaemonRestarts, DaemonDrops, HostRestarts, vars
<1>6. CASE Abroad
  BY <1>2, <1>6, AbroadIs DEF ThreadGoesOn
<1> QED
  BY <1>1, <1>2, <1>3, <1>4, <1>5, <1>6 DEF Next, Abroad

\* Every report that was counted as unchanged was corrected, or the correction was undone.
ToCorrect == IF At("correct") \/ At("stuck") THEN 1 ELSE 0
CorrectInv ==
  item.state = "running" =>
    /\ item.claims >= 1 =>
         item.unchanged + 1 <= Count(log, {"correct", "stuck"}) + ToCorrect + Budget
    /\ item.claims <= 0 => item.unchanged = 0
    /\ item.error # "limit"

\* What the audit makes of the counters.
LEMMA AuditCounts ==
  ASSUME TypeInv, item.claims <= 0 => item.unchanged = 0
  PROVE /\ item.claims \in Int /\ item.unchanged \in Nat /\ Audited.unchanged \in Nat
        /\ Audited.claims >= 1 /\ Audited.claims \in Nat
        /\ Audited.claims > 2 => item.claims >= 1
        /\ item.claims >= 1 => Audited.unchanged <= item.unchanged + 1
        /\ item.claims <= 0 => Audited.unchanged = 0
        /\ Audited.claims > 2 /\ Audited.unchanged > 0 => ~Activity
<1>1. item.claims \in Nat \cup {-1} /\ item.unchanged \in Nat
  BY DEF TypeInv, Items
<1>2. /\ Audited.claims = ClaimsCounted
      /\ Audited.unchanged = (IF ClaimsCounted <= 2 THEN item.unchanged
                              ELSE IF Activity THEN 0 ELSE item.unchanged + 1)
  BY AuditedIs
<1>3. /\ ClaimsCounted \in Nat /\ ClaimsCounted >= 1
      /\ item.claims <= 0 => ClaimsCounted <= 2
  BY <1>1 DEF ClaimsCounted
<1> QED
  BY <1>1, <1>2, <1>3

LEMMA StepCorrect ==
  RecordInv /\ ThreadsInv /\ CorrectInv /\ [Next]_vars => CorrectInv'
<1> SUFFICES ASSUME RecordInv, ThreadsInv, CorrectInv, [Next]_vars, item'.state = "running"
             PROVE CorrectInv'
  BY DEF CorrectInv
<1>1. TypeInv /\ PlanInv /\ FailureInv /\ Log(log)
  BY DEF RecordInv, TypeInv
<1>2. /\ item.state = "running"
      /\ \/ item'.claims = item.claims /\ item'.unchanged = item.unchanged
         \/ NoteFresh
         \/ Gates /\ Corrects
  BY <1>1, RunsOn
<1>3. PICK K : K = {"correct", "stuck"}
  OBVIOUS
<1> DEFINE n == Count(log, K)
           m == Count(log', K)
           b == Budget
           c == Budget'
<1>4. n \in Nat /\ m \in Nat /\ n <= m
  BY <1>1, CountStays
<1>5. /\ b \in Int /\ c \in Int /\ c >= b /\ b >= 0 /\ (Undoes => c >= b + 1)
  BY <1>1, BudgetGrows, BudgetCovers
<1>6. /\ item.claims >= 1 => item.unchanged + 1 <= n + ToCorrect + b
      /\ item.claims <= 0 => item.unchanged = 0
      /\ item.error # "limit"
  BY <1>2, <1>3 DEF CorrectInv
<1>7. item'.error # "limit"
  <2> SUFFICES ASSUME item'.error = "limit" PROVE FALSE
    OBVIOUS
  <2>1. GateAuditFails
    BY <1>1, <1>6, LimitBy
  <2>2. item' = [[Audited EXCEPT !.error = "limit"] EXCEPT !.state = "failed"]
    BY <2>1 DEF GateAuditFails, Finishes
  <2>3. Audited \in Items
    BY <1>1, AuditedIs
  <2> QED
    BY <2>2, <2>3 DEF Items
<1> DEFINE Goal == /\ item'.claims >= 1 => item'.unchanged + 1 <= m + ToCorrect' + c
                   /\ item'.claims <= 0 => item'.unchanged = 0
<1> SUFFICES Goal
  BY <1>3, <1>7 DEF CorrectInv
<1>8. ToCorrect \in {0, 1} /\ ToCorrect' \in {0, 1}
  BY DEF ToCorrect
<1> HIDE DEF n, m, b, c
<1>9. CASE Gates /\ Corrects
  <2>1. steps = <<>> /\ item' = Audited /\ (steps' = <<"correct">> \/ steps' = <<"stuck">>)
    BY <1>1, <1>9, GatesAre DEF Corrects
  <2>2. ToCorrect = 0 /\ ToCorrect' = 1
    BY <2>1 DEF ToCorrect, At
  <2>3. /\ item.claims \in Int /\ item.unchanged \in Nat /\ Audited.unchanged \in Nat
        /\ Audited.claims >= 1 /\ Audited.claims \in Nat
        /\ item.claims >= 1 => Audited.unchanged <= item.unchanged + 1
        /\ item.claims <= 0 => Audited.unchanged = 0
    BY <1>1, <1>6, AuditCounts
  <2> QED
    BY <1>4, <1>5, <1>6, <2>1, <2>2, <2>3
<1>10. CASE NoteFresh
  BY <1>1, <1>10, NotesAre
<1>11. CASE item'.claims = item.claims /\ item'.unchanged = item.unchanged
  <2>1. item.claims \in Int /\ item.unchanged \in Nat
    BY <1>1 DEF TypeInv, Items
  <2>2. CASE ToCorrect = 0
    BY <1>4, <1>5, <1>6, <1>8, <1>11, <2>1, <2>2
  <2>3. CASE ToCorrect = 1
    <3>1. steps # <<>> /\ Head(steps) \in K
      BY <1>3, <2>3 DEF ToCorrect, At
    <3>2. Head(steps) \in GateRequests \ {"verify", "noteVerify", "noteReflect"}
      BY <1>3, <3>1 DEF GateRequests
    <3>3. CASE steps' = steps
      <4>1. ToCorrect' = 1
        BY <1>3, <3>1, <3>3 DEF ToCorrect, At
      <4> QED
        BY <1>4, <1>5, <1>6, <1>11, <2>1, <2>3, <4>1
    <3>4. CASE Undoes
      BY <1>4, <1>5, <1>6, <1>8, <1>11, <2>1, <2>3, <3>4
    <3>5. CASE Send
      <4>1. PICK e \in Entries : e = Head(steps) /\ log' = Append(log, e)
        BY <3>2, <3>5 DEF Send, Requests, Entries, Feedback
      <4>2. m = n + 1
        BY <1>1, <3>1, <4>1, CountGrown DEF m, n
      <4> QED
        BY <1>4, <1>5, <1>6, <1>8, <1>11, <2>1, <2>3, <4>2
    <3> QED
      BY <1>1, <3>1, <3>2, <3>3, <3>4, <3>5, NotedOrUndone DEF GateRequests
  <2> QED
    BY <1>8, <2>2, <2>3
<1> QED
  BY <1>2, <1>9, <1>10, <1>11

LEMMA CorrectAlways == Spec => []CorrectInv
<1>1. Init => CorrectInv
  BY DEF Init, NewItem, CorrectInv
<1>2. RecordInv /\ ThreadsInv /\ CorrectInv /\ [Next]_vars => CorrectInv'
  BY StepCorrect
<1> QED
  BY <1>1, <1>2, ThreadsAlways, PTL DEF Spec

\* A record fails for its corrections only when as many were made in this task, or undone, as
\* the limit demands, and nothing was edited since the report before the last.
THEOREM CorrectedFirst == Spec => CorrectionsBeforeFailure
<1>1. ASSUME RecordInv, CorrectInv, [Next]_vars, item.state = "running", item'.error = "limit"
      PROVE /\ Count(log, {"correct", "stuck"}) + used.disturbance + Count(log, {"yolo"})
                 >= MaxUnchangedRounds
            /\ ~Activity
  <2>1. TypeInv /\ PlanInv /\ Log(log) /\ MaxUnchangedRounds \in Nat \ {0}
    BY <1>1, GatesAssumption DEF RecordInv, TypeInv
  <2>2. PICK K : K = {"correct", "stuck"}
    OBVIOUS
  <2>3. PICK Y : Y = {"yolo"}
    OBVIOUS
  <2>4. /\ item.claims >= 1 => item.unchanged + 1 <= Count(log, K) + ToCorrect + Budget
        /\ item.claims <= 0 => item.unchanged = 0
        /\ item.error # "limit"
    BY <1>1, <2>2 DEF CorrectInv
  <2>5. Gates /\ GateAuditFails
    BY <1>1, <2>1, <2>4, LimitBy
  <2>6. ToCorrect = 0
    BY <2>1, <2>5, GatesAre DEF ToCorrect, At
  <2>7. Audited.claims > 2 /\ Audited.unchanged >= MaxUnchangedRounds
    BY <2>5 DEF GateAuditFails, LimitReached
  <2>8. /\ item.claims \in Int /\ item.unchanged \in Nat /\ Audited.unchanged \in Nat
        /\ item.claims >= 1
        /\ Audited.unchanged <= item.unchanged + 1
        /\ Audited.unchanged > 0 => ~Activity
    BY <2>1, <2>4, <2>7, AuditCounts
  <2>9. Count(log, K) \in Nat
    BY <2>1, CountIs
  <2>10. /\ used.disturbance \in Nat /\ Budget \in Int /\ Count(log, Y) \in Nat
         /\ Budget <= used.disturbance + Count(log, Y)
    BY <2>1, <2>3, BudgetIs
  <2>11. Count(log, K) + used.disturbance + Count(log, Y) >= MaxUnchangedRounds
    BY <2>1, <2>4, <2>6, <2>7, <2>8, <2>9, <2>10
  <2>12. ~Activity
    BY <2>1, <2>7, <2>8
  <2> QED
    BY <2>2, <2>3, <2>11, <2>12
<1>2. RecordInv /\ CorrectInv /\ [Next]_vars
      => [item.state = "running" /\ item'.error = "limit" =>
            /\ Count(log, {"correct", "stuck"}) + used.disturbance + Count(log, {"yolo"})
                 >= MaxUnchangedRounds
            /\ ~Activity]_vars
  BY <1>1
<1> QED
  BY <1>2, RecordAlways, CorrectAlways, PTL DEF Spec, CorrectionsBeforeFailure

------------------------------------------------------------------------------
(* Where a record stands still.                                             *)

\* A thread that is not under way, and did not stop by itself.
Stopped == Last(log) \in Claims \cup Failures \cup {"overflow", "reopened", "resume"}
CutOff == item.state = "running" /\ ~live /\ ~Stopped

\* The recovery still comes to a message, or to a fresh thread.
Revives ==
  /\ recovering /\ steps # <<>>
  /\ \/ Head(steps) \in {"restart", "request", "observe", "newTask", "goOn", "continue"}
     \/ Head(steps) = "delay" /\ (seen = Len(log) \/ item.pending # NoPending)
     \/ Head(steps) = "pending" /\ item.pending # NoPending

\* A thread that the end of the host cut off is taken up by the recovery, unless a failure
\* in it is on record.
CutOffInv == CutOff /\ UnresolvedTaskFailure(log) = 0 => Revives

\* Only the end of the host cuts a thread off.
LEMMA CutOffBy ==
  ASSUME TypeInv, PlanInv, [Next]_vars, CutOff'
  PROVE /\ item.state = "running" /\ log' = log /\ ~Send /\ ~NewTask /\ ~Abroad
        /\ CutOff \/ Reload \/ DaemonRestarts
<1>1. item.state = "running"
  BY RunsOn DEF CutOff
<1>2. ~live' /\ Last(log') \notin Claims \cup Failures \cup {"overflow", "reopened", "resume"}
  BY DEF CutOff, Stopped
<1>3. ~Send /\ ~NewTask
  BY <1>2 DEF Send, NewTask
<1>4. ~Abroad
  <2>1. ~ClineStarts /\ ~ClineWorks /\ ~TestPasses
    BY <1>2 DEF ClineStarts, ClineWorks, TestPasses
  <2>2. Log(log)
    BY DEF TypeInv
  <2>3. ASSUME NEW e \in Entries, log' = Append(log, e)
        PROVE e \notin Claims \cup Failures \cup {"overflow", "reopened", "resume"}
    BY <1>2, <2>2, <2>3, Grown
  <2>4. ~ClineCompletes
    BY <2>3 DEF ClineCompletes, Claims, Entries
  <2>5. ~ClineStops
    BY <2>3, GatesAssumption DEF ClineStops, Entries
  <2>6. ~UserActs
    <3> SUFFICES ASSUME UserActs PROVE FALSE
      OBVIOUS
    <3>1. PICK e \in UserEntries : log' = Append(log, e) /\ live' = (e \in Feedback)
      BY DEF UserActs
    <3>2. e \in {"resume", "reopened"} /\ e \in Entries
      BY <1>2, <3>1, GatesAssumption DEF Feedback, Entries
    <3> QED
      BY <2>3, <3>1, <3>2
  <2> QED
    BY <2>1, <2>4, <2>5, <2>6 DEF Abroad
<1>5. log' = log
  BY <1>3, <1>4, GatesAre
     DEF Next, WorkerSteps, Abroad, Escalate, WriteRestartRequest, Settle, Deliver,
         NoteDelivered, NoteVerify, NoteReflect, NoteFresh, RecoverRestart, RecoverObserve,
         RecoverDelay, RecoverPending, Recovered, CallFails, Reload, Interrupt,
         DaemonRestarts, DaemonDrops, HostRestarts, vars
<1>6. CASE live' = live
  BY <1>1, <1>2, <1>3, <1>4, <1>5, <1>6 DEF CutOff, Stopped
<1>7. CASE live' # live
  BY <1>1, <1>3, <1>4, <1>5, <1>7, GatesAre
     DEF Next, WorkerSteps, Abroad, Escalate, WriteRestartRequest, Settle, Deliver,
         NoteDelivered, NoteVerify, NoteReflect, NoteFresh, RecoverRestart, RecoverObserve,
         RecoverDelay, RecoverPending, Recovered, CallFails, Interrupt, DaemonDrops, vars
<1> QED
  BY <1>1, <1>3, <1>4, <1>5, <1>6, <1>7

\* What a step of a recovery puts first is done first.
LEMMA FirstIs ==
  ASSUME TypeInv, PlanInv, PlanInv', recovering', steps # <<>>, NEW p, Segment(p),
         steps' = p \o Tail(steps)
  PROVE /\ steps' # <<>>
        /\ Len(p) > 0 => Head(steps') = p[1]
        /\ Len(p) = 0 => <<Head(steps), Head(steps')>> \in Follows
<1>1. PICK r : r = p \o Tail(steps)
  OBVIOUS
<1>2. RecoveryPlan(r)
  BY <1>1 DEF PlanInv
<1>3. r # <<>>
  BY <1>2 DEF RecoveryPlan
<1>4. p \in Seq(Token)
  BY DEF Segment
<1>5. /\ Len(p) > 0 => Head(r) = p[1]
      /\ Len(p) = 0 => <<Head(steps), Head(r)>> \in Follows
  BY <1>1, <1>3, <1>4, HeadOfJoined
<1> QED
  BY <1>1, <1>3, <1>5

LEMMA StepCutOff == TypeInv /\ PlanInv /\ CutOffInv /\ [Next]_vars => CutOffInv'
<1> SUFFICES ASSUME TypeInv, PlanInv, CutOffInv, [Next]_vars, CutOff',
                    UnresolvedTaskFailure(log') = 0
             PROVE Revives'
  BY DEF CutOffInv
<1>1. TypeInv' /\ PlanInv'
  BY StepTypes, StepPlan
<1>2. log' = log /\ ~Send /\ ~NewTask /\ ~Abroad
  BY CutOffBy
<1>3. ASSUME steps' = Recover, recovering' PROVE Revives'
  BY <1>3 DEF Recover, Revives
<1>4. CASE Reload \/ DaemonRestarts
  BY <1>3, <1>4 DEF Reload, DaemonRestarts, HostRestarts
<1>5. CASE CutOff
  <2>1. UnresolvedTaskFailure(log) = 0 /\ Revives
    BY <1>2, <1>5 DEF CutOffInv
  <2>2. recovering /\ steps # <<>>
    BY <2>1 DEF Revives
  <2>3. ~Gates
    BY <2>2, GatesAre
  <2>4. /\ ~Escalate /\ ~Settle /\ ~Deliver /\ ~NoteDelivered /\ ~NoteVerify
        /\ ~NoteReflect /\ ~NoteFresh /\ ~Recovered
    BY <2>1 DEF Revives, Escalate, Settle, Deliver, NoteDelivered, NoteVerify, NoteReflect,
                NoteFresh, Recovered, At
  <2>5. CASE WriteRestartRequest
    BY <1>3, <2>2, <2>5 DEF WriteRestartRequest, Restarted
  <2>6. ASSUME recovering' = recovering, NEW p, Segment(p), steps' = p \o Tail(steps)
        PROVE /\ recovering' /\ steps' # <<>>
              /\ Len(p) > 0 => Head(steps') = p[1]
              /\ Len(p) = 0 => <<Head(steps), Head(steps')>> \in Follows
    BY <1>1, <2>2, <2>6, FirstIs
  <2>7. CASE RecoverRestart /\ YoloRestartRequired
    BY <2>2, <2>7 DEF RecoverRestart, Revives
  <2>8. CASE RecoverRestart /\ ~YoloRestartRequired
    <3>1. PICK p : p = (IF FreshRecoveryRequired THEN Fresh ELSE <<>>)
      OBVIOUS
    <3>2. /\ recovering' = recovering /\ Head(steps) = "restart"
          /\ steps' = p \o Tail(steps)
      BY <2>8, <3>1 DEF RecoverRestart, At
    <3>3. Segment(p) /\ (Len(p) = 0 \/ (Len(p) > 0 /\ p[1] = "newTask"))
      BY <3>1, Segments DEF Fresh
    <3>4. Head(steps') \in {"newTask", "observe"}
      BY <2>6, <3>2, <3>3 DEF Follows
    <3> QED
      BY <2>6, <3>2, <3>3, <3>4 DEF Revives
  <2>9. CASE RecoverObserve
    <3>1. SessionStatus(log) = "running"
      BY <1>5, <2>1 DEF SessionStatus, CutOff, Stopped
    <3>2. PICK p : p = <<"delay">>
      OBVIOUS
    <3>3. /\ recovering' = recovering /\ seen' = Len(log)
          /\ steps' = p \o Tail(steps)
      BY <2>9, <3>1, <3>2 DEF RecoverObserve
    <3>4. Segment(p) /\ Len(p) > 0 /\ p[1] = "delay"
      BY <3>2, Segments
    <3> QED
      BY <1>2, <2>6, <3>3, <3>4 DEF Revives
  <2>10. CASE RecoverDelay
    <3>1. Head(steps) = "delay" /\ recovering' = recovering /\ item' = item
      BY <2>10 DEF RecoverDelay, At
    <3>2. CASE item.pending = NoPending
      <4>1. Len(log) = seen
        BY <2>1, <3>1, <3>2 DEF Revives
      <4>2. PICK p : p = <<"goOn">>
        OBVIOUS
      <4>3. steps' = p \o Tail(steps)
        BY <2>10, <3>2, <4>1, <4>2 DEF RecoverDelay
      <4>4. Segment(p) /\ Len(p) > 0 /\ p[1] = "goOn"
        BY <4>2, Segments
      <4> QED
        BY <2>6, <3>1, <4>3, <4>4 DEF Revives
    <3>3. CASE item.pending # NoPending
      <4>1. PICK p : p = <<>>
        OBVIOUS
      <4>2. steps' = p \o Tail(steps)
        BY <2>10, <3>3, <4>1 DEF RecoverDelay
      <4>3. Segment(p) /\ Len(p) = 0
        BY <4>1, Segments
      <4>4. Head(steps') = "pending"
        BY <2>6, <3>1, <4>2, <4>3 DEF Follows
      <4> QED
        BY <2>6, <3>1, <3>3, <4>2, <4>3, <4>4 DEF Revives
    <3> QED
      BY <3>2, <3>3
  <2>11. CASE RecoverPending
    <3>1. /\ Head(steps) = "pending" /\ recovering' = recovering
          /\ item.pending # NoPending
      BY <2>1, <2>11 DEF RecoverPending, At, Revives
    <3>2. SessionStatus(log) # "completed"
      BY <1>5, <2>1 DEF SessionStatus, CutOff, Stopped
    <3>3. PICK p : p = IF RepeatedYoloFailure THEN Fresh ELSE <<"continue", "noteDelivered">>
      OBVIOUS
    <3>4. steps' = p \o Tail(steps)
      BY <2>11, <3>1, <3>2, <3>3 DEF RecoverPending
    <3>5. Segment(p) /\ Len(p) > 0 /\ p[1] \in {"newTask", "continue"}
      BY <3>3, Segments DEF Fresh
    <3> QED
      BY <2>6, <3>1, <3>4, <3>5 DEF Revives
  <2>12. CASE CallFails
    BY <1>3, <2>2, <2>12 DEF CallFails
  <2>13. CASE Interrupt
    BY <1>3, <2>2, <2>13 DEF Interrupt, Restarted
  <2>14. CASE DaemonDrops \/ UNCHANGED vars
    BY <2>1, <2>14 DEF DaemonDrops, vars, Revives
  <2> QED
    BY <1>2, <1>4, <2>3, <2>4, <2>5, <2>7, <2>8, <2>9, <2>10, <2>11, <2>12, <2>13, <2>14
       DEF Next, WorkerSteps, Abroad
<1> QED
  BY <1>4, <1>5, CutOffBy

\* The rest of the plan leads to the note of a thread that is already open.
Opened == recovering /\ ~At("newTask") /\ Ahead(steps, {"noteFresh"})

\* Nothing but its opening leads from a thread that is to be opened to one that is open.
LEMMA OpenedBy ==
  ASSUME TypeInv, PlanInv, ~Opened,
         \/ steps # <<>> /\ steps' = Tail(steps) /\ ~At("newTask") /\ recovering' = recovering
         \/ Looks
         \/ steps' = Recover
  PROVE ~Opened'
<1>1. PICK K : K = {"noteFresh"}
  OBVIOUS
<1>2. CASE steps # <<>> /\ steps' = Tail(steps) /\ ~At("newTask") /\ recovering' = recovering
  <2>1. PICK s \in Seq(Token) : s = steps /\ s # <<>>
    BY <1>2 DEF TypeInv
  <2>2. PICK r : r = Tail(s)
    OBVIOUS
  <2>3. Ahead(r, K) => Ahead(s, K)
    BY <2>1, <2>2, AheadOfRest
  <2> QED
    BY <1>1, <1>2, <2>1, <2>2, <2>3 DEF Opened
<1>3. CASE Looks
  BY <1>3, LooksAre DEF Opened, At
<1>4. CASE steps' = Recover
  <2>1. ~Ahead(Recover, {"noteFresh"})
    BY DEF Ahead, Recover
  <2> QED
    BY <1>4, <2>1 DEF Opened
<1> QED
  BY <1>2, <1>3, <1>4

\* As long as nothing is overtaken no step is lost.
LEMMA NothingLost ==
  ASSUME TypeInv, [Next]_vars, ~Overtaken'
  PROVE ~Overtaken /\ ~(CallFails \/ Reload \/ Interrupt \/ DaemonDrops)
<1>1. ~Overtaken
  BY OvertakenStays
<1>2. used'.disturbance = 0
  BY UsesAre DEF Overtaken
<1> QED
  BY <1>1, <1>2, UsesAre

\* A restart of the daemon cuts a thread off only for a fresh one, which is not open yet.
QuietInv == ~Overtaken /\ CutOff => recovering /\ FreshRecoveryRequired /\ ~Opened

LEMMA StepQuiet ==
  TypeInv /\ PlanInv /\ FailureInv /\ FreshInv /\ RequestInv /\ QuietInv /\ [Next]_vars
    => QuietInv'
<1> SUFFICES ASSUME TypeInv, PlanInv, FailureInv, FreshInv, RequestInv, QuietInv, [Next]_vars,
                    ~Overtaken', CutOff'
             PROVE recovering' /\ FreshRecoveryRequired' /\ ~Opened'
  BY DEF QuietInv
<1> DEFINE Goal == recovering' /\ FreshRecoveryRequired' /\ ~Opened'
<1> SUFFICES Goal
  OBVIOUS
<1>1. ~Overtaken /\ ~(CallFails \/ Reload \/ Interrupt \/ DaemonDrops)
  BY NothingLost
<1>2. ~Send /\ ~NewTask /\ ~Abroad /\ (CutOff \/ DaemonRestarts)
  BY <1>1, CutOffBy
<1>3. recovering' => ~At("request")'
  BY StepRequest DEF RequestInv
<1>4. CASE DaemonRestarts
  <2>1. request # 0 /\ item' = item /\ recovering' /\ steps' = Recover
    BY <1>4 DEF DaemonRestarts, HostRestarts
  <2>2. FreshRecoveryRequired /\ ~recovering
    BY <1>1, <2>1 DEF RequestInv
  <2>3. ~Opened'
    BY <2>1, <2>2, OpenedBy DEF Opened
  <2> QED
    BY <2>1, <2>2, <2>3 DEF FreshRecoveryRequired
<1>5. CASE CutOff
  <2>1. recovering /\ FreshRecoveryRequired /\ ~Opened
    BY <1>1, <1>5 DEF QuietInv
  <2>2. steps # <<>> /\ Head(steps) \in RecoveryTokens
    BY <2>1, Awake DEF RecoveryPlan
  <2>3. ~Gates
    BY <2>1, GatesAre
  <2>4. ~Escalate /\ ~Settle /\ ~Deliver /\ ~NoteVerify /\ ~NoteReflect
    BY <2>2 DEF Escalate, Settle, Deliver, NoteVerify, NoteReflect, At, RecoveryTokens
  <2>5. ~WriteRestartRequest
    BY <1>1, <2>1 DEF WriteRestartRequest, RequestInv
  <2>6. ~NoteFresh
    <3>1. steps # <<>> => Len(steps) \in Nat /\ Len(steps) >= 1 /\ Head(steps) = steps[1]
      BY Awake
    <3>2. At("noteFresh") => Ahead(steps, {"noteFresh"}) /\ ~At("newTask")
      BY <3>1 DEF At, Ahead
    <3> QED
      BY <2>1, <3>2 DEF NoteFresh, Opened
  <2>7. ~Recovered
    BY <2>1, NothingOwed DEF Recovered
  <2>8. ~(RecoverRestart /\ YoloRestartRequired)
    <3> SUFFICES ASSUME RecoverRestart, YoloRestartRequired PROVE FALSE
      OBVIOUS
    <3>1. recovering' = recovering /\ steps' = <<"request">>
      BY DEF RecoverRestart
    <3> QED
      BY <1>3, <2>1, <3>1 DEF At
  <2>9. CASE NoteDelivered
    <3>1. /\ steps # <<>> /\ steps' = Tail(steps) /\ ~At("newTask") /\ recovering' = recovering
          /\ item'.yolo = item.yolo /\ item'.fresh = item.fresh
      BY <2>9, NotesAre DEF NoteDelivered, At, SameFailures
    <3>2. ~Opened'
      BY <2>1, <3>1, OpenedBy
    <3> QED
      BY <2>1, <3>1, <3>2 DEF FreshRecoveryRequired
  <2>10. CASE Looks
    <3>1. recovering' /\ item' = item
      BY <2>10, LooksAre
    <3>2. ~Opened'
      BY <2>1, <2>10, OpenedBy
    <3> QED
      BY <2>1, <3>1, <3>2 DEF FreshRecoveryRequired
  <2>11. CASE UNCHANGED vars
    BY <2>1, <2>11 DEF vars, Opened, At, FreshRecoveryRequired
  <2> HIDE DEF Goal
  <2> QED
    BY <1>1, <1>2, <1>4, <2>3, <2>4, <2>5, <2>6, <2>7, <2>8, <2>9, <2>10, <2>11
       DEF Next, WorkerSteps, Abroad, Looks
<1> QED
  BY <1>2, <1>4, <1>5

\* A restart that is asked for is one for a failure.
AskedInv == At("request") => item.pending.marker # 0

LEMMA StepAsked == TypeInv /\ PlanInv /\ FailureInv /\ AskedInv /\ [Next]_vars => AskedInv'
<1> SUFFICES ASSUME TypeInv, PlanInv, FailureInv, AskedInv, [Next]_vars, At("request")'
             PROVE item'.pending.marker # 0
  BY DEF AskedInv
<1>1. CASE AsksRestart
  <2>1. item'.pending = item.pending /\ item.pending.kind = "failure"
    BY <1>1, RestartIs DEF AsksRestart, YoloRestartRequired
  <2> QED
    BY <2>1 DEF FailureInv
<1>2. ASSUME item' = item, steps' = steps PROVE item'.pending.marker # 0
  BY <1>2 DEF AskedInv, At
<1>3. ~(steps # <<>> /\ steps' = Tail(steps))
  BY NextIs DEF At, Follows
<1>4. ~Gates
  BY GatesAre DEF EndsRecord, MeetsOverflow, MeetsFailure, SendsBack, Corrects, AsksWork,
                  AsksCheck, At, Ended, CompactAndContinue
<1>5. ~(steps' = Recover \/ steps' = <<>> \/ steps' = Ended \/ steps' = CompactAndContinue
          \/ steps' = Continuation)
  BY DEF At, Recover, Ended, CompactAndContinue, Continuation
<1>6. ~Looks
  BY LooksAre DEF At
<1>7. CASE Abroad
  BY <1>2, <1>7, AbroadIs DEF ThreadGoesOn
<1> QED
  BY <1>1, <1>2, <1>3, <1>4, <1>5, <1>6, <1>7
     DEF Next, WorkerSteps, Abroad, Looks, AsksRestart, Escalate, WriteRestartRequest, Restarted,
         Send, Settle, Deliver, NoteDelivered, NoteVerify, NoteReflect, NewTask, NoteFresh,
         RecoverRestart, Recovered, CallFails, Finishes, Reload, Interrupt, DaemonRestarts,
         DaemonDrops, HostRestarts, At, vars

\* Only the note of a fresh thread says which failure it is for.
LEMMA FreshKept ==
  ASSUME TypeInv, PlanInv, [Next]_vars
  PROVE item'.fresh = item.fresh \/ NoteFresh
<1>1. CASE Gates
  BY <1>1, GatesAre, AuditedIs DEF EndsRecord, MeetsOverflow, MeetsFailure, SendsBack, Corrects,
                                   AsksWork, AsksCheck, SameFailures
<1>2. CASE AsksRestart
  BY <1>2, RestartIs
<1>3. CASE NoteDelivered \/ NoteVerify \/ NoteReflect
  BY <1>3, NotesAre DEF SameFailures
<1>4. CASE CallFails
  BY <1>4, CallEnds DEF CallFails, SameFailures
<1>5. CASE Abroad
  BY <1>5, AbroadIs DEF ThreadGoesOn
<1>6. CASE Looks
  BY <1>6, LooksAre
<1> QED
  BY <1>1, <1>2, <1>3, <1>4, <1>5, <1>6
     DEF Next, WorkerSteps, Abroad, Looks, AsksRestart, Escalate, WriteRestartRequest,
         Send, Settle, Deliver, NewTask, RecoverRestart, Recovered, Reload, Interrupt,
         DaemonRestarts, DaemonDrops, HostRestarts, vars

\* As long as nothing is overtaken, a fresh thread that is due is on its way.
OwedInv ==
  ~Overtaken /\ item.state = "running" /\ FreshRecoveryRequired =>
    request # 0 \/ recovering \/ At("request")

LEMMA StepOwed ==
  TypeInv /\ PlanInv /\ FreshInv /\ AskedInv /\ OwedInv /\ [Next]_vars => OwedInv'
<1> SUFFICES ASSUME TypeInv, PlanInv, FreshInv, AskedInv, OwedInv, [Next]_vars,
                    ~Overtaken', item'.state = "running", FreshRecoveryRequired'
             PROVE request' # 0 \/ recovering' \/ At("request")'
  BY DEF OwedInv
<1> DEFINE Goal == request' # 0 \/ recovering' \/ At("request")'
<1> SUFFICES Goal
  OBVIOUS
<1>1. ~Overtaken /\ ~(CallFails \/ Reload \/ Interrupt \/ DaemonDrops)
  BY NothingLost
<1>2. item.state = "running"
  BY RunsOn
<1>3. ~NoteFresh
  BY NotesAre DEF FreshRecoveryRequired
<1>4. item'.fresh = item.fresh
  BY <1>3, FreshKept
<1>5. CASE AsksRestart
  BY <1>5 DEF AsksRestart, At
<1>6. CASE ~AsksRestart
  <2>1. FreshRecoveryRequired
    BY <1>4, <1>6, YoloKept DEF FreshRecoveryRequired
  <2>2. request # 0 \/ recovering \/ At("request")
    BY <1>1, <1>2, <2>1 DEF OwedInv
  <2>3. ~Recovered
    BY <2>1, NothingOwed DEF Recovered
  <2>4. CASE DaemonRestarts
    BY <2>4 DEF DaemonRestarts, HostRestarts
  <2>5. CASE WriteRestartRequest
    BY <2>5 DEF WriteRestartRequest, AskedInv
  <2>6. CASE ~DaemonRestarts /\ ~WriteRestartRequest
    <3>1. CASE Gates
      BY <2>2, <3>1, GatesAre DEF At
    <3>2. CASE Looks
      BY <3>2, LooksAre
    <3>3. CASE Abroad
      BY <2>2, <3>3, AbroadIs DEF ThreadGoesOn, At
    <3>4. \/ /\ request' = request /\ recovering' = recovering
             /\ steps' = steps \/ ~At("request")
          \/ Gates \/ Looks \/ Abroad
      BY <1>1, <1>3, <1>6, <2>3, <2>6
         DEF Next, WorkerSteps, Abroad, Looks, AsksRestart, Escalate, Send, Settle, Deliver,
             NoteDelivered, NoteVerify, NoteReflect, NewTask, RecoverRestart, At, vars,
             Requests, GateRequests
    <3> HIDE DEF Goal
    <3> QED
      BY <2>2, <3>1, <3>2, <3>3, <3>4 DEF Goal, At
  <2> QED
    BY <2>4, <2>5, <2>6
<1> QED
  BY <1>5, <1>6

\* Every marker a poll compares with lies before the end of the transcript.
Lag ==
  /\ item.marker < Len(log) /\ item.recovery < Len(log)
  /\ item.failure < Len(log) /\ item.timeout < Len(log)

\* As long as nothing is overtaken: the end of the transcript is new to the next poll, or the
\* message that answers it is still to be sent, or a fresh thread is still to be opened.
LagInv ==
  ~Overtaken /\ item.state = "running" =>
    \/ Lag
    \/ steps # <<>> /\ Head(steps) \in Requests \cup {"escalate"}
    \/ FreshRecoveryRequired /\ ~Opened

\* The notes of a message leave the markers of an overflow and of a timeout.
LEMMA NotedMarks ==
  ASSUME TypeInv, NoteDelivered \/ NoteVerify \/ NoteReflect \/ NoteFresh
  PROVE item'.recovery = item.recovery /\ item'.timeout = item.timeout
<1>1. item \in Items
  BY DEF TypeInv
<1>2. CASE NoteDelivered
  BY <1>1, <1>2 DEF NoteDelivered, Items
<1>3. CASE NoteVerify
  BY <1>1, <1>3 DEF NoteVerify, Items
<1>4. CASE NoteReflect
  BY <1>1, <1>4 DEF NoteReflect, Items
<1>5. CASE NoteFresh
  BY <1>1, <1>5 DEF NoteFresh, Items
<1> QED
  BY <1>2, <1>3, <1>4, <1>5

\* Every entry is new to the poll that follows it.
LEMMA LagGrows ==
  ASSUME TypeInv, NEW e \in Entries, log' = Append(log, e), item' = item
  PROVE Lag'
<1>1. Log(log) /\ Len(log) \in Nat /\ item \in Items /\ Within(item, Len(log))
  BY LogIs DEF TypeInv
<1>2. Len(log') = Len(log) + 1
  BY <1>1, Grown
<1>3. /\ item.marker \in Nat /\ item.recovery \in Nat /\ item.failure \in Nat
      /\ item.timeout \in Nat
  BY <1>1 DEF Items
<1> QED
  BY <1>1, <1>2, <1>3 DEF Within, Lag

LEMMA StepLag ==
  TypeInv /\ PlanInv /\ FailureInv /\ FreshInv /\ RequestInv /\ MarkerInv /\ LagInv
    /\ [Next]_vars => LagInv'
<1> SUFFICES ASSUME TypeInv, PlanInv, FailureInv, FreshInv, RequestInv, MarkerInv, LagInv,
                    [Next]_vars, ~Overtaken', item'.state = "running"
             PROVE \/ Lag'
                   \/ steps' # <<>> /\ Head(steps') \in Requests \cup {"escalate"}
                   \/ FreshRecoveryRequired' /\ ~Opened'
  BY DEF LagInv
<1> DEFINE Answers == steps' # <<>> /\ Head(steps') \in Requests \cup {"escalate"}
           Renews == FreshRecoveryRequired' /\ ~Opened'
<1> SUFFICES Lag' \/ Answers \/ Renews
  OBVIOUS
<1>1. ~Overtaken /\ ~(CallFails \/ Reload \/ Interrupt \/ DaemonDrops)
  BY NothingLost
<1>2. \/ Lag
      \/ steps # <<>> /\ Head(steps) \in Requests \cup {"escalate"}
      \/ FreshRecoveryRequired /\ ~Opened
  BY <1>1, RunsOn DEF LagInv
<1>3. ASSUME NEW e \in Entries, log' = Append(log, e), item' = item PROVE Lag'
  BY <1>3, LagGrows
<1>4. CASE Send \/ NewTask \/ Abroad
  <2>1. item' = item /\ \E e \in Entries : log' = Append(log, e)
    BY <1>4, AbroadIs DEF Send, NewTask, ThreadGoesOn, Deed, Entries, Feedback
  <2> QED
    BY <1>3, <2>1
<1>5. ASSUME log' = log, item'.marker < Len(log), item'.recovery = item.recovery,
             item'.failure = item.failure, item'.timeout = item.timeout
      PROVE Lag => Lag'
  BY <1>5 DEF Lag
<1>6. ASSUME item'.yolo = item.yolo, item'.fresh = item.fresh, ~Opened'
      PROVE FreshRecoveryRequired => Renews
  BY <1>6 DEF FreshRecoveryRequired
<1>7. ASSUME item' = item, log' = log PROVE Lag => Lag'
  BY <1>7 DEF Lag
<1>8. CASE Gates
  <2>1. MeetsOverflow \/ MeetsFailure \/ SendsBack \/ Corrects \/ AsksWork \/ AsksCheck
    BY <1>8, GatesAre DEF EndsRecord
  <2>2. /\ steps' # <<>>
        /\ Head(steps') \in {"compact", "escalate", "timeoutFix", "scope", "correct", "stuck",
                             "recommend", "verify", "reflect"}
    BY <2>1 DEF MeetsOverflow, MeetsFailure, SendsBack, Corrects, AsksWork, AsksCheck,
                CompactAndContinue
  <2> QED
    BY <2>2 DEF Requests, GateRequests
<1>9. CASE Escalate
  <2>1. ~recovering /\ recovering' = recovering
    BY <1>9, Awake DEF Escalate, At, RecoveryPlan, RecoveryTokens
  <2>2. CASE YoloRestartRequired
    <3>1. item.pending.kind = "failure" /\ item.failure \in Nat /\ item.fresh \in Nat
      BY <2>2 DEF YoloRestartRequired, TypeInv, Items
    <3>2. FreshRecoveryRequired'
      BY <1>9, <2>2, <3>1, RestartIs DEF Escalate, AsksRestart, FailureInv, FreshRecoveryRequired
    <3> QED
      BY <2>1, <3>2 DEF Opened
  <2>3. CASE ~YoloRestartRequired
    BY <1>9, <2>3 DEF Escalate, CompactAndContinue, Requests
  <2> QED
    BY <2>2, <2>3
<1>10. CASE WriteRestartRequest
  <2>1. ~recovering
    BY <1>1, <1>10 DEF WriteRestartRequest, RequestInv
  <2>2. item' = item /\ log' = log /\ ~recovering' /\ Head(steps) = "request"
    BY <1>10, <2>1 DEF WriteRestartRequest, At
  <2> QED
    BY <1>2, <1>6, <1>7, <2>2 DEF Opened, Requests, GateRequests
<1>11. CASE Settle \/ Deliver
  <2>1. /\ item' = item /\ log' = log /\ recovering' = recovering
        /\ steps # <<>> /\ Head(steps) \in {"settle", "deliver"}
    BY <1>11 DEF Settle, Deliver, At
  <2>2. ~recovering
    BY <2>1, Awake DEF RecoveryPlan, RecoveryTokens
  <2> QED
    BY <1>2, <1>6, <1>7, <2>1, <2>2 DEF Opened, Requests, GateRequests
<1>12. CASE NoteDelivered
  <2>1. /\ steps # <<>> /\ steps' = Tail(steps) /\ ~At("newTask") /\ recovering' = recovering
        /\ log' = log /\ Head(steps) = "noteDelivered"
    BY <1>12 DEF NoteDelivered, At
  <2>2. SameFailures(item', item) /\ item'.marker = item.marker
    BY <1>12, NotesAre DEF SameCounts
  <2>3. item'.recovery = item.recovery /\ item'.timeout = item.timeout
    BY <1>12, NotedMarks
  <2>4. ~Opened => ~Opened'
    BY <2>1, OpenedBy
  <2>5. Lag => Lag'
    BY <2>1, <2>2, <2>3 DEF Lag, SameFailures
  <2>6. FreshRecoveryRequired /\ ~Opened => Renews
    BY <1>6, <2>2, <2>4 DEF SameFailures
  <2> QED
    BY <1>2, <2>1, <2>5, <2>6 DEF Requests, GateRequests
<1>13. CASE NoteVerify \/ NoteReflect
  <2>1. /\ steps # <<>> /\ Head(steps) \in {"noteVerify", "noteReflect"}
        /\ recovering' = recovering /\ log' = log
        /\ At("noteVerify") \/ At("noteReflect")
    BY <1>13 DEF NoteVerify, NoteReflect, At
  <2>2. ~recovering
    BY <2>1, Awake DEF RecoveryPlan, RecoveryTokens
  <2>3. item'.marker = seen /\ SameFailures(item', item)
    BY <1>13, NotesAre
  <2>4. item'.recovery = item.recovery /\ item'.timeout = item.timeout
    BY <1>13, NotedMarks
  <2>5. seen < LastOf(log, GateRequests)
    BY <1>1, <2>1, <2>2, RunsOn DEF MarkerInv, MarkerHolds
  <2>6. LastOf(log, GateRequests) \in Nat /\ LastOf(log, GateRequests) <= Len(log)
        /\ Len(log) \in Nat /\ seen \in Nat
    BY MarkerIs, Kinds, LogIs DEF TypeInv
  <2>7. Lag => Lag'
    BY <1>5, <2>1, <2>3, <2>4, <2>5, <2>6 DEF SameFailures
  <2>8. FreshRecoveryRequired => Renews
    BY <1>6, <2>1, <2>2, <2>3 DEF SameFailures, Opened
  <2> QED
    BY <1>2, <2>1, <2>7, <2>8 DEF Requests, GateRequests
<1>14. CASE NoteFresh
  <2>1. steps # <<>> /\ Head(steps) = "noteFresh" /\ log' = log
    BY <1>14 DEF NoteFresh, At
  <2>2. Opened
    <3>1. Len(steps) \in Nat /\ Len(steps) >= 1 /\ Head(steps) = steps[1]
      BY <2>1, Awake
    <3>2. Ahead(steps, {"noteFresh"}) /\ ~At("newTask")
      BY <2>1, <3>1 DEF At, Ahead
    <3>3. recovering
      BY <2>1, OpensInRecovery DEF At
    <3> QED
      BY <3>2, <3>3 DEF Opened
  <2>3. Len(log) \in Nat /\ Len(log) >= 1
    BY LogIs DEF TypeInv, Log
  <2>4. item'.marker = 0 /\ item'.failure = item.failure
    BY <1>14, NotesAre
  <2>5. item'.recovery = item.recovery /\ item'.timeout = item.timeout
    BY <1>14, NotedMarks
  <2>6. Lag => Lag'
    BY <1>5, <2>1, <2>3, <2>4, <2>5
  <2> QED
    BY <1>2, <2>1, <2>2, <2>6 DEF Requests, GateRequests
<1>15. ~(RecoverRestart /\ YoloRestartRequired)
  <2> SUFFICES ASSUME RecoverRestart, YoloRestartRequired PROVE FALSE
    OBVIOUS
  <2>1. recovering' = recovering /\ steps' = <<"request">> /\ At("restart")
    BY DEF RecoverRestart
  <2>2. recovering
    BY <2>1, Awake DEF At, GatePlan, GateTokens
  <2>3. recovering' => ~At("request")'
    BY StepRequest DEF RequestInv
  <2> QED
    BY <2>1, <2>2, <2>3 DEF At
<1>16. CASE Looks
  <2>1. /\ item' = item /\ log' = log /\ steps # <<>>
        /\ Head(steps) \in {"restart", "observe", "delay", "pending"}
    BY <1>16, LooksAre
  <2>2. ~Opened => ~Opened'
    BY <1>16, OpenedBy
  <2> QED
    BY <1>2, <1>6, <1>7, <2>1, <2>2 DEF Requests, GateRequests
<1>17. CASE Recovered
  <2>1. ~FreshRecoveryRequired
    BY <1>17, NothingOwed DEF Recovered
  <2>2. item' = item /\ log' = log /\ steps # <<>> /\ Head(steps) = "recovered"
    BY <1>17 DEF Recovered, At
  <2> QED
    BY <1>2, <1>7, <2>1, <2>2 DEF Requests, GateRequests
<1>18. CASE DaemonRestarts
  <2>1. request # 0 /\ item' = item /\ steps' = Recover
    BY <1>18 DEF DaemonRestarts, HostRestarts
  <2>2. FreshRecoveryRequired /\ ~recovering
    BY <1>1, <2>1 DEF RequestInv
  <2>3. ~Opened'
    BY <2>1, <2>2, OpenedBy DEF Opened
  <2> QED
    BY <1>6, <2>1, <2>2, <2>3
<1>19. CASE UNCHANGED vars
  BY <1>2, <1>19 DEF vars, Lag, FreshRecoveryRequired, Opened, At
<1> HIDE DEF Answers, Renews
<1> QED
  BY <1>1, <1>4, <1>8, <1>9, <1>10, <1>11, <1>12, <1>13, <1>14, <1>15, <1>16, <1>17, <1>18, <1>19
     DEF Next, WorkerSteps, Abroad, Looks

StillInv == CutOffInv /\ QuietInv /\ AskedInv /\ OwedInv /\ LagInv

LEMMA InitStill == Init => StillInv
<1> SUFFICES ASSUME Init PROVE StillInv
  OBVIOUS
<1>1. live /\ steps = <<>> /\ ~recovering /\ item.yolo = 0
  BY DEF Init, NewItem
<1>2. CutOffInv /\ QuietInv
  BY <1>1 DEF CutOffInv, QuietInv, CutOff
<1>3. AskedInv /\ OwedInv
  BY <1>1 DEF AskedInv, OwedInv, At, FreshRecoveryRequired
<1>4. LagInv
  BY DEF Init, NewItem, LagInv, Lag
<1> QED
  BY <1>2, <1>3, <1>4 DEF StillInv

\* What a poll sees of a thread that stopped by itself and is new to it.
LEMMA StopIsSeen ==
  ASSUME TypeInv, Stopped, Lag, Observed = "none"
  PROVE Last(log) = "resume"
<1> DEFINE n == Len(log)
<1>1. /\ Log(log) /\ n \in Nat /\ n \in 1..n /\ Last(log) = log[n]
  BY LogIs DEF TypeInv
<1>2. n > ThreadStart(log)
  <2>1. log[n] # "task"
    BY <1>1 DEF Stopped, Claims, Failures
  <2>2. ThreadStart(log) \in 1..n /\ log[ThreadStart(log)] = "task"
    BY <1>1, ThreadStartIs
  <2> QED
    BY <1>1, <2>1, <2>2
<1>3. ASSUME NEW K, "task" \notin K, log[n] \in K PROVE LastOf(log, K) = n
  <2>1. LastOf(log, K) \in 0..n /\ n <= LastOf(log, K)
    BY <1>1, <1>2, <1>3, LastOfIs
  <2> QED
    BY <1>1, <2>1
<1>4. ~New(LatestContextOverflow(log), item.recovery)
  BY DEF Observed
<1>5. ~New(UnresolvedTaskFailure(log), item.failure)
  BY DEF Observed
<1>6. CASE log[n] = "overflow"
  <2>1. LatestContextOverflow(log) = n
    BY <1>3, <1>6 DEF LatestContextOverflow
  <2> QED
    BY <1>1, <1>4, <2>1 DEF New, Lag
<1>7. CASE log[n] \in Failures
  <2>1. LastOf(log, Failures) = n
    BY <1>3, <1>7 DEF Failures
  <2>2. UnresolvedTaskFailure(log) = n
    BY <1>1, <2>1 DEF UnresolvedTaskFailure, After
  <2> QED
    BY <1>1, <1>5, <2>2 DEF New, Lag
<1>8. CASE log[n] \in Completions
  <2>1. ClaimsCompletion(log)
    BY <1>1, <1>8 DEF ClaimsCompletion, Completions
  <2>2. CompletionMarker(log) # item.timeout /\ CompletionMarker(log) # item.marker
    BY <1>1 DEF CompletionMarker, Lag
  <2> QED
    BY <2>1, <2>2 DEF Observed
<1> QED
  BY <1>1, <1>6, <1>7, <1>8 DEF Stopped, Completions

\* A record stands still, with nobody working on it and nothing due, only when
\* the user cancelled the run or something came between a marker and its message;
\* then the thread stopped by itself, or on a failure that is on record.  It is so for all
\* limits, and for any number of restarts, aborts and failing calls.
THEOREM StillRight ==
  Spec => []StandsStillOnlyWhen
<1>1. ThreadInv /\ StillInv /\ [Next]_vars => StillInv'
  BY StepCutOff, StepQuiet, StepAsked, StepOwed, StepLag DEF ThreadInv, RecordInv, StillInv
<1>2. ThreadInv /\ StillInv => StandsStillOnlyWhen
  <2> SUFFICES ASSUME ThreadInv, StillInv, StandsStill
               PROVE \/ Last(log) = "resume"
                     \/ /\ Overtaken
                        /\ \/ Last(log) \in Claims \cup Failures \cup {"overflow", "reopened"}
                           \/ UnresolvedTaskFailure(log) # 0
    BY DEF StandsStillOnlyWhen
  <2>1. TypeInv /\ PlanInv
    BY DEF ThreadInv, RecordInv
  <2>2. /\ item.state = "running" /\ steps = <<>> /\ Observed = "none" /\ ~live /\ request = 0
    BY DEF StandsStill, Monitoring
  <2>3. ~recovering /\ ~At("request")
    BY <2>1, <2>2, Awake DEF At
  <2>4. CASE Overtaken
    <3>1. Stopped \/ UnresolvedTaskFailure(log) # 0
      BY <2>2, <2>3 DEF StillInv, CutOffInv, CutOff, Revives
    <3> QED
      BY <2>4, <3>1 DEF Stopped
  <2>5. CASE ~Overtaken
    <3>1. Stopped
      BY <2>2, <2>3, <2>5 DEF StillInv, QuietInv, CutOff
    <3>2. ~FreshRecoveryRequired
      BY <2>2, <2>3, <2>5 DEF StillInv, OwedInv
    <3>3. Lag
      BY <2>2, <2>5, <3>2 DEF StillInv, LagInv
    <3> QED
      BY <2>1, <2>2, <3>1, <3>3, StopIsSeen
  <2> QED
    BY <2>4, <2>5
<1> QED
  BY <1>1, <1>2, InitStill, ThreadAlways, PTL DEF Spec
=============================================================================
