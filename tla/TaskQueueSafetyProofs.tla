------------------------ MODULE TaskQueueSafetyProofs ------------------------
(***************************************************************************)
(* What the interleavings of worker, commands, crashes and recovery cannot *)
(* do to the records of a workspace queue.                                 *)
(*                                                                         *)
(* First, every step is one of a few changes of the records (Effects): the *)
(* proofs after that look at those few instead of at every action.  Then   *)
(* come the order of the records and what it says of a dispatch, the item  *)
(* the worker holds, and what the file has of it all.                      *)
(***************************************************************************)
EXTENDS TaskQueueProofs

------------------------------------------------------------------------------
(* Effects: how a step changes the records.                                 *)

Ids(m) == {m.order[p] : p \in DOMAIN m.order}

SameBut(m, n, S) == \A j \in Item \ S : n.state[j] = m.state[j]

Keeps(m, n) == n.order = m.order /\ SameBut(m, n, {})

\* Records that wait or have ended are removed.
Drops(m, n) ==
  /\ n.order = m.order
  /\ \A j \in Item : n.state[j] = m.state[j] \/ (n.state[j] = "absent" /\ m.state[j] # "running")

DropsRunning(m, n) ==
  /\ n.order = m.order
  /\ \E i \in Running(m) : n.state[i] = "absent" /\ SameBut(m, n, {i})

DropsAll(m, n) == n.order = m.order /\ \A j \in Item : n.state[j] = "absent"

\* A new record waits behind the others, of which it may replace some.
Adds(m, n, i) ==
  /\ i \in Item \ Ids(m)
  /\ n.order = Append(m.order, i) /\ n.state[i] = "queued"
  /\ \A j \in Item \ {i} : n.state[j] = m.state[j] \/ (n.state[j] = "absent" /\ m.state[j] = "queued")

\* A new record comes first and the running one ends.
Forces(m, n, i) ==
  /\ i \in Item \ Ids(m)
  /\ n.order = <<i>> \o m.order /\ n.state[i] = "queued"
  /\ \E r \in Running(m) : n.state[r] = "skipped" /\ SameBut(m, n, {i, r})

Finishes(m, n) ==
  /\ n.order = m.order
  /\ \E i \in Running(m) : n.state[i] \in TerminalState /\ SameBut(m, n, {i})

PutsBack(m, n) ==
  /\ n.order = m.order
  /\ \E i \in Running(m) : n.state[i] = "queued" /\ SameBut(m, n, {i})

Takes(m, n) ==
  /\ n.order = m.order /\ Running(m) = {}
  /\ \E i \in Item : IsHead(m, i) /\ n.state[i] = "running" /\ SameBut(m, n, {i})

\* Flags, bindings and exemptions are not part of the records.
Alike(m, n) == n.state = m.state /\ n.order = m.order

LEMMA FlagsAlike ==
  ASSUME NEW m \in Data
  PROVE /\ \A b : Alike(m, Pausing(m, b))
        /\ \A i : Alike(m, Binding(m, i))
        /\ \A S : Alike(m, Exempting(m, S))
        /\ Alike(m, NoneExempt(m))
        /\ Alike(m, ForgettingLast(m))
  BY DEF Data, Alike, Pausing, Binding, Exempting, NoneExempt, ForgettingLast

\* What `next` does to the flags of the queue.
LEMMA UnpausedAlike ==
  ASSUME NEW m \in Data, NEW S \in SUBSET Item
  PROVE Alike(m, Pausing(Exempting(m, S), FALSE))
  BY DEF Data, Alike, Pausing, Exempting

\* Records without some of them.
LEMMA WithoutEffect ==
  ASSUME NEW m \in Data, NEW S, S \cap Running(m) = {}
  PROVE Drops(m, Without(m, S))
  BY DEF Data, Drops, Without, Running, InState

\* The removal of one record, whatever its state.
LEMMA RemovingEffect ==
  ASSUME NEW m \in Data, NEW i \in Item \cup {NoItem}, NEW l
  PROVE Drops(m, Removing(m, i, l)) \/ DropsRunning(m, Removing(m, i, l))
<1>1. /\ Removing(m, i, l).order = m.order
      /\ \A j \in Item : Removing(m, i, l).state[j] = IF j = i THEN "absent" ELSE m.state[j]
  BY DEF Data, Removing, Without
<1>2. CASE i \in Running(m)
  BY <1>1, <1>2 DEF DropsRunning, SameBut, Running, InState
<1>3. CASE i \notin Running(m)
  BY <1>1, <1>3 DEF Drops, Running, InState
<1> QED
  BY <1>2, <1>3

\* A cleared queue.
LEMMA EmptiedEffect ==
  ASSUME NEW m \in Data
  PROVE DropsAll(m, Emptied(m))
  BY DEF Data, DropsAll, Emptied, EmptyData

\* The state graph: what a record was that may be moved to a state.
LEMMA AcceptedFrom ==
  ASSUME NEW s \in PersistentQueueState, NEW next \in PersistentQueueState,
         TransitionAccepted(s, next)
  PROVE /\ next \in TerminalState => s = next \/ s = "running"
        /\ next = "queued" => s = next \/ s = "running"
  BY DEF TransitionAccepted, ALLOWED_TRANSITIONS, PersistentQueueState, TerminalState

\* A transition that is not refused ends a running record, puts it back, or changes
\* nothing: the record was removed, or has that state already.
LEMMA MovedEffect ==
  ASSUME NEW m \in Data, NEW i \in Item, NEW next \in TerminalState \cup {"queued"},
         ~MoveThrows(m, i, next)
  PROVE LET n == Moved(m, i, next)
        IN /\ next \in TerminalState => Keeps(m, n) \/ Finishes(m, n)
           /\ next = "queued" => Keeps(m, n) \/ PutsBack(m, n)
<1> DEFINE n == Moved(m, i, next)
<1>1. /\ n.order = m.order
      /\ \A j \in Item : n.state[j] = IF j = i /\ m.state[i] # "absent" THEN next ELSE m.state[j]
  BY DEF Data, Moved
<1>2. CASE m.state[i] = "absent" \/ m.state[i] = next
  BY <1>1, <1>2 DEF Keeps, SameBut
<1>3. CASE m.state[i] # "absent" /\ m.state[i] # next
  <2>1. m.state[i] \in PersistentQueueState /\ next \in PersistentQueueState
    BY <1>3 DEF Data, ItemState, TerminalState, PersistentQueueState
  <2>2. m.state[i] = "running"
    BY <1>3, <2>1, AcceptedFrom DEF MoveThrows
  <2>3. i \in Running(m)
    BY <2>2 DEF Running, InState
  <2> QED
    BY <1>1, <1>3, <2>3 DEF Finishes, PutsBack, SameBut
<1> QED
  BY <1>2, <1>3

\* So does a completion.
LEMMA CompletedEffect ==
  ASSUME NEW m \in Data, NEW i \in Item, ~MoveThrows(m, i, "completed")
  PROVE Keeps(m, Completed(m, i)) \/ Finishes(m, Completed(m, i))
<1>1. Moved(m, i, "completed") \in Data
  BY MovedType DEF PersistentQueueState
<1>2. Alike(Moved(m, i, "completed"), Completed(m, i))
  BY <1>1 DEF Completed, Data, Alike
<1>3. LET n == Moved(m, i, "completed") IN Keeps(m, n) \/ Finishes(m, n)
  BY MovedEffect DEF TerminalState
<1> QED
  BY <1>2, <1>3 DEF Keeps, Finishes, SameBut, Alike

\* An effect does not depend on the flags.
LEMMA AlikeEffect ==
  ASSUME NEW m, NEW k, NEW n, Alike(k, n)
  PROVE /\ Keeps(m, k) => Keeps(m, n)
        /\ Drops(m, k) => Drops(m, n)
        /\ DropsRunning(m, k) => DropsRunning(m, n)
        /\ Finishes(m, k) => Finishes(m, n)
        /\ PutsBack(m, k) => PutsBack(m, n)
        /\ \A i : Adds(m, k, i) => Adds(m, n, i)
  BY DEF Alike, Keeps, Drops, DropsRunning, Finishes, PutsBack, SameBut, Adds

\* Nor does it on the flags of what is changed.
LEMMA EffectAlike ==
  ASSUME NEW m, NEW k, NEW n, Alike(m, k)
  PROVE /\ Keeps(k, n) => Keeps(m, n)
        /\ Drops(k, n) => Drops(m, n)
        /\ DropsRunning(k, n) => DropsRunning(m, n)
  BY DEF Alike, Keeps, Drops, DropsRunning, SameBut, Running, InState

\* A record that was removed or added as the only change of a queue without it.
LEMMA AppendedEffect ==
  ASSUME NEW m \in Data, NEW i \in Item, i \notin Ids(m), NEW S, S \subseteq Queued(m)
  PROVE /\ Adds(m, Appended(m, i), i)
        /\ Adds(m, Appended(Without(m, S), i), i)
  BY DEF Data, Adds, Appended, Without, Queued, InState

\* A forced record.
LEMMA PutFirstEffect ==
  ASSUME NEW m \in Data, NEW i \in Item, i \notin Ids(m), NEW r \in Running(m), r # i
  PROVE Forces(m, PutFirst(Moved(m, r, "skipped"), i), i)
<1>1. r \in Item /\ m.state[r] = "running"
  BY DEF Running, InState
<1>2. LET k == Moved(m, r, "skipped")
      IN k = [m EXCEPT !.state[r] = "skipped"]
  BY <1>1 DEF Moved
<1> QED
  BY <1>1, <1>2 DEF Data, Forces, PutFirst, SameBut, Running, InState

------------------------------------------------------------------------------
(* The order of the records: every id is once in the array, every record is *)
(* there, and the running record comes before all that wait -- so that it   *)
(* is the next one again when its dispatch is undone.                       *)

Distinct(m) == \A p, q \in DOMAIN m.order : m.order[p] = m.order[q] => p = q
Listed(m) == \A i \in Item : m.state[i] # "absent" => i \in Ids(m)
RunningFirst(m) == \A r \in Running(m), q \in Queued(m) : Before(m, r, q)
InOrder(m) == Distinct(m) /\ Listed(m) /\ RunningFirst(m)

\* An array with a new last element.
LEMMA AppendedBefore ==
  ASSUME NEW m \in Data, NEW n, NEW x \in Item \ Ids(m), n.order = Append(m.order, x)
  PROVE /\ Ids(n) = Ids(m) \cup {x}
        /\ \A i, j : Before(n, i, j) <=> Before(m, i, j) \/ (i \in Ids(m) /\ j = x)
        /\ Distinct(m) => Distinct(n)
<1> DEFINE s == m.order
           t == n.order
           k == Len(s)
<1>1. s \in Seq(Item) /\ k \in Nat /\ DOMAIN s = 1..k
  BY DEF Data
<1>2. /\ DOMAIN t = 1..(k + 1) /\ t[k + 1] = x
      /\ \A p \in 1..k : t[p] = s[p]
  BY <1>1, AppendProperties
<1> HIDE DEF s, t, k
<1>3. Ids(n) = {t[p] : p \in DOMAIN t} /\ Ids(m) = {s[p] : p \in DOMAIN s}
  BY DEF Ids, s, t
<1>4. Ids(n) = Ids(m) \cup {x}
  BY <1>1, <1>2, <1>3
<1>5. ASSUME NEW i, NEW j
      PROVE Before(n, i, j) <=> Before(m, i, j) \/ (i \in Ids(m) /\ j = x)
  <2>1. Before(n, i, j) <=> \E p, q \in 1..(k + 1) : p < q /\ t[p] = i /\ t[q] = j
    BY <1>2 DEF Before, t
  <2>2. Before(m, i, j) <=> \E p, q \in 1..k : p < q /\ s[p] = i /\ s[q] = j
    BY <1>1 DEF Before, s
  <2>3. ASSUME NEW p \in 1..(k + 1), NEW q \in 1..(k + 1), p < q, t[p] = i, t[q] = j
        PROVE Before(m, i, j) \/ (i \in Ids(m) /\ j = x)
    <3>1. p \in 1..k /\ t[p] = s[p]
      BY <1>1, <1>2, <2>3
    <3>2. CASE q = k + 1
      BY <1>1, <1>2, <1>3, <2>3, <3>1, <3>2
    <3>3. CASE q # k + 1
      BY <1>1, <1>2, <2>2, <2>3, <3>1, <3>3
    <3> QED
      BY <3>2, <3>3
  <2>4. ASSUME NEW p \in 1..k, NEW q \in 1..k, p < q, s[p] = i, s[q] = j
        PROVE Before(n, i, j)
    <3>1. p \in 1..(k + 1) /\ q \in 1..(k + 1) /\ t[p] = i /\ t[q] = j
      BY <1>1, <1>2, <2>4
    <3> QED
      BY <2>1, <2>4, <3>1
  <2>5. ASSUME NEW p \in 1..k, s[p] = i, j = x
        PROVE Before(n, i, j)
    <3>1. p \in 1..(k + 1) /\ k + 1 \in 1..(k + 1) /\ p < k + 1 /\ t[p] = i /\ t[k + 1] = j
      BY <1>1, <1>2, <2>5
    <3> QED
      BY <2>1, <3>1
  <2>6. i \in Ids(m) => \E p \in 1..k : s[p] = i
    BY <1>1, <1>3
  <2> QED
    BY <2>1, <2>2, <2>3, <2>4, <2>5, <2>6
<1>6. ASSUME Distinct(m), NEW p \in DOMAIN t, NEW q \in DOMAIN t, t[p] = t[q]
      PROVE p = q
  <2>1. \A a, b \in DOMAIN s : s[a] = s[b] => a = b
    BY <1>6 DEF Distinct, s
  <2>2. \A a \in DOMAIN s : s[a] # x
    BY <1>3
  <2> QED
    BY <1>1, <1>2, <1>6, <2>1, <2>2
<1>7. Distinct(m) => Distinct(n)
  BY <1>6 DEF Distinct, t
<1> QED
  BY <1>4, <1>5, <1>7

\* An array with a new first element.
LEMMA PrependedBefore ==
  ASSUME NEW m \in Data, NEW n, NEW x \in Item \ Ids(m), n.order = <<x>> \o m.order
  PROVE /\ Ids(n) = Ids(m) \cup {x}
        /\ \A i, j : Before(n, i, j) <=> Before(m, i, j) \/ (i = x /\ j \in Ids(m))
        /\ Distinct(m) => Distinct(n)
<1> DEFINE s == m.order
           t == n.order
           k == Len(s)
<1>1. s \in Seq(Item) /\ k \in Nat /\ DOMAIN s = 1..k
  BY DEF Data
<1>2. /\ DOMAIN t = 1..(k + 1) /\ t[1] = x
      /\ \A p \in 1..k : t[p + 1] = s[p]
  <2>1. <<x>> \in Seq(Item) /\ Len(<<x>>) = 1 /\ <<x>>[1] = x
    OBVIOUS
  <2>2. /\ t \in Seq(Item) /\ Len(t) = 1 + k
        /\ \A p \in 1..(1 + k) : t[p] = IF p <= 1 THEN <<x>>[p] ELSE s[p - 1]
    BY <1>1, <2>1, ConcatProperties
  <2> QED
    BY <1>1, <2>1, <2>2
<1> HIDE DEF s, t, k
<1>3. Ids(n) = {t[p] : p \in DOMAIN t} /\ Ids(m) = {s[p] : p \in DOMAIN s}
  BY DEF Ids, s, t
<1>4. \A p \in 1..(k + 1) : p = 1 \/ (p - 1 \in 1..k /\ t[p] = s[p - 1])
  <2> SUFFICES ASSUME NEW p \in 1..(k + 1), p # 1
               PROVE p - 1 \in 1..k /\ t[p] = s[p - 1]
    OBVIOUS
  <2>1. p - 1 \in 1..k /\ (p - 1) + 1 = p
    BY <1>1
  <2> QED
    BY <1>2, <2>1
<1>5. \A p \in 1..k : p + 1 \in 1..(k + 1)
  BY <1>1
<1>6. Ids(n) = Ids(m) \cup {x}
  <2>1. ASSUME NEW p \in 1..(k + 1) PROVE t[p] \in Ids(m) \cup {x}
    BY <1>1, <1>2, <1>3, <1>4
  <2>2. ASSUME NEW p \in 1..k PROVE s[p] \in Ids(n)
    BY <1>2, <1>3, <1>5
  <2>3. x \in Ids(n)
    <3>1. 1 \in 1..(k + 1)
      BY <1>1
    <3> QED
      BY <1>2, <1>3, <3>1
  <2>4. Ids(n) \subseteq Ids(m) \cup {x}
    BY <1>2, <1>3, <2>1
  <2>5. Ids(m) \subseteq Ids(n)
    BY <1>1, <1>3, <2>2
  <2> QED
    BY <2>3, <2>4, <2>5
<1>7. ASSUME NEW i, NEW j
      PROVE Before(n, i, j) <=> Before(m, i, j) \/ (i = x /\ j \in Ids(m))
  <2>1. Before(n, i, j) <=> \E p, q \in 1..(k + 1) : p < q /\ t[p] = i /\ t[q] = j
    BY <1>2 DEF Before, t
  <2>2. Before(m, i, j) <=> \E p, q \in 1..k : p < q /\ s[p] = i /\ s[q] = j
    BY <1>1 DEF Before, s
  <2>3. ASSUME NEW p \in 1..(k + 1), NEW q \in 1..(k + 1), p < q, t[p] = i, t[q] = j
        PROVE Before(m, i, j) \/ (i = x /\ j \in Ids(m))
    <3>1. q - 1 \in 1..k /\ s[q - 1] = j
      BY <1>1, <1>4, <2>3
    <3>2. CASE p = 1
      BY <1>1, <1>2, <1>3, <2>3, <3>1, <3>2
    <3>3. CASE p # 1
      <4>1. p - 1 \in 1..k /\ s[p - 1] = i /\ p - 1 < q - 1
        BY <1>1, <1>4, <2>3, <3>3
      <4> QED
        BY <2>2, <3>1, <4>1
    <3> QED
      BY <3>2, <3>3
  <2>4. ASSUME NEW p \in 1..k, NEW q \in 1..k, p < q, s[p] = i, s[q] = j
        PROVE Before(n, i, j)
    <3>1. /\ p + 1 \in 1..(k + 1) /\ q + 1 \in 1..(k + 1) /\ p + 1 < q + 1
          /\ t[p + 1] = i /\ t[q + 1] = j
      BY <1>1, <1>2, <1>5, <2>4
    <3> QED
      BY <2>1, <3>1
  <2>5. ASSUME NEW q \in 1..k, s[q] = j, i = x
        PROVE Before(n, i, j)
    <3>1. 1 \in 1..(k + 1) /\ q + 1 \in 1..(k + 1) /\ 1 < q + 1 /\ t[1] = i /\ t[q + 1] = j
      BY <1>1, <1>2, <2>5
    <3> QED
      BY <2>1, <3>1
  <2>6. j \in Ids(m) => \E q \in 1..k : s[q] = j
    BY <1>1, <1>3
  <2> QED
    BY <2>1, <2>2, <2>3, <2>4, <2>5, <2>6
<1>8. ASSUME Distinct(m), NEW p \in DOMAIN t, NEW q \in DOMAIN t, t[p] = t[q]
      PROVE p = q
  <2>1. \A a, b \in DOMAIN s : s[a] = s[b] => a = b
    BY <1>8 DEF Distinct, s
  <2>2. \A a \in DOMAIN s : s[a] # x
    BY <1>3
  <2>3. p \in 1..(k + 1) /\ q \in 1..(k + 1)
    BY <1>2
  <2>4. CASE p = 1 \/ q = 1
    <3>1. t[1] = x
      BY <1>2
    <3>2. \A a \in 1..(k + 1) : a # 1 => t[a] # x
      BY <1>1, <1>4, <2>2
    <3> QED
      BY <1>8, <2>3, <2>4, <3>1, <3>2
  <2>5. CASE p # 1 /\ q # 1
    <3>1. p - 1 \in DOMAIN s /\ q - 1 \in DOMAIN s /\ s[p - 1] = s[q - 1]
      BY <1>1, <1>4, <1>8, <2>3, <2>5
    <3>2. p - 1 = q - 1
      BY <2>1, <3>1
    <3> QED
      BY <1>1, <2>3, <3>2
  <2> QED
    BY <2>4, <2>5
<1>9. Distinct(m) => Distinct(n)
  BY <1>8 DEF Distinct, t
<1> QED
  BY <1>6, <1>7, <1>9

\* In such an array no two records come before each other, and of two that are in
\* it one does.
LEMMA BeforeStrict ==
  ASSUME NEW m \in Data, Distinct(m)
  PROVE /\ \A i, j : Before(m, i, j) => ~Before(m, j, i)
        /\ \A i, j, k : Before(m, i, j) /\ Before(m, j, k) => Before(m, i, k)
        /\ \A i, j \in Ids(m) : i = j \/ Before(m, i, j) \/ Before(m, j, i)
<1> DEFINE D == DOMAIN m.order
<1>1. D \subseteq Nat
  BY DEF Data
<1>2. \A p, q \in D : m.order[p] = m.order[q] => p = q
  BY DEF Distinct
<1>3. \A i, j : Before(m, i, j) <=> \E p, q \in D : p < q /\ m.order[p] = i /\ m.order[q] = j
  BY DEF Before
<1> HIDE DEF D
<1>4. ASSUME NEW i, NEW j, Before(m, i, j), Before(m, j, i) PROVE FALSE
  <2>1. PICK p \in D, q \in D : p < q /\ m.order[p] = i /\ m.order[q] = j
    BY <1>3, <1>4
  <2>2. PICK a \in D, b \in D : a < b /\ m.order[a] = j /\ m.order[b] = i
    BY <1>3, <1>4
  <2>3. b = p /\ a = q
    BY <1>2, <2>1, <2>2
  <2> QED
    BY <1>1, <2>1, <2>2, <2>3
<1>5. ASSUME NEW i, NEW j, NEW k, Before(m, i, j), Before(m, j, k) PROVE Before(m, i, k)
  <2>1. PICK p \in D, q \in D : p < q /\ m.order[p] = i /\ m.order[q] = j
    BY <1>3, <1>5
  <2>2. PICK a \in D, b \in D : a < b /\ m.order[a] = j /\ m.order[b] = k
    BY <1>3, <1>5
  <2>3. a = q
    BY <1>2, <2>1, <2>2
  <2>4. p < b
    BY <1>1, <2>1, <2>2, <2>3
  <2> QED
    BY <1>3, <2>1, <2>2, <2>4
<1>6. ASSUME NEW i \in Ids(m), NEW j \in Ids(m), i # j
      PROVE Before(m, i, j) \/ Before(m, j, i)
  <2>1. PICK p \in D, q \in D : m.order[p] = i /\ m.order[q] = j
    BY DEF Ids, D
  <2>2. p < q \/ q < p
    BY <1>1, <1>6, <2>1
  <2> QED
    BY <1>3, <2>1, <2>2
<1> QED
  BY <1>4, <1>5, <1>6

\* Every change of the records but a dispatch.
Tends(m, n) ==
  \/ Keeps(m, n) \/ Drops(m, n) \/ DropsRunning(m, n) \/ DropsAll(m, n)
  \/ Finishes(m, n) \/ PutsBack(m, n)
  \/ \E i \in Item : Adds(m, n, i) \/ Forces(m, n, i)

\* Of these, the ones that make no record wait.
Loses(m, n) ==
  Keeps(m, n) \/ Drops(m, n) \/ DropsRunning(m, n) \/ DropsAll(m, n) \/ Finishes(m, n)

LEMMA LosesTends ==
  ASSUME NEW m, NEW n, Loses(m, n)
  PROVE Tends(m, n) /\ n.order = m.order
  BY DEF Loses, Tends, Keeps, Drops, DropsRunning, DropsAll, Finishes

\* The same array has the same ids in the same order.
LEMMA SameOrder ==
  ASSUME NEW m, NEW n, n.order = m.order
  PROVE /\ Ids(n) = Ids(m)
        /\ \A i, j : Before(n, i, j) <=> Before(m, i, j)
        /\ Distinct(m) => Distinct(n)
  BY DEF Ids, Before, Distinct

\* Every effect keeps the records in order.
LEMMA EffectInOrder ==
  ASSUME NEW m \in Data, NEW n \in Data, InOrder(m), \A i, j \in Running(m) : i = j,
         Tends(m, n) \/ Takes(m, n)
  PROVE InOrder(n)
<1> USE DEF Running, Queued, InState
<1>1. CASE Keeps(m, n)
  BY <1>1, SameOrder DEF InOrder, Keeps, SameBut, Listed, RunningFirst
<1>2. CASE Drops(m, n)
  BY <1>2, SameOrder DEF InOrder, Drops, Listed, RunningFirst
<1>3. CASE DropsRunning(m, n)
  BY <1>3, SameOrder DEF InOrder, DropsRunning, SameBut, Listed, RunningFirst
<1>4. CASE DropsAll(m, n)
  BY <1>4, SameOrder DEF InOrder, DropsAll, Listed, RunningFirst
<1>5. CASE Finishes(m, n)
  BY <1>5, SameOrder DEF InOrder, Finishes, SameBut, Listed, RunningFirst, TerminalState
<1>6. CASE PutsBack(m, n)
  BY <1>6, SameOrder DEF InOrder, PutsBack, SameBut, Listed, RunningFirst
<1>7. CASE Takes(m, n)
  <2>1. PICK i \in Item : IsHead(m, i) /\ n.state[i] = "running" /\ SameBut(m, n, {i})
    BY <1>7 DEF Takes
  <2>2. n.order = m.order /\ Running(m) = {} /\ m.state[i] = "queued"
    BY <1>7, <2>1 DEF Takes, IsHead
  <2>3. Listed(n)
    BY <2>1, <2>2, SameOrder DEF InOrder, Listed, SameBut
  <2>4. Running(n) = {i} /\ Queued(n) = Queued(m) \ {i}
    BY <2>1, <2>2 DEF SameBut
  <2>5. RunningFirst(n)
    BY <2>1, <2>2, <2>4, SameOrder DEF RunningFirst, IsHead
  <2> QED
    BY <2>2, <2>3, <2>5, SameOrder DEF InOrder
<1>8. ASSUME NEW i \in Item, Adds(m, n, i) PROVE InOrder(n)
  <2>1. i \in Item \ Ids(m) /\ n.order = Append(m.order, i) /\ n.state[i] = "queued"
    BY <1>8 DEF Adds
  <2>2. /\ Ids(n) = Ids(m) \cup {i}
        /\ \A a, b : Before(n, a, b) <=> Before(m, a, b) \/ (a \in Ids(m) /\ b = i)
        /\ Distinct(n)
    BY <2>1, AppendedBefore DEF InOrder
  <2>3. Running(n) \subseteq Running(m) /\ Queued(n) \subseteq Queued(m) \cup {i}
    BY <1>8 DEF Adds
  <2>4. Listed(n)
    BY <1>8, <2>2 DEF Adds, InOrder, Listed
  <2>5. Running(m) \subseteq Ids(m)
    BY DEF InOrder, Listed
  <2>6. RunningFirst(n)
    BY <2>2, <2>3, <2>5 DEF InOrder, RunningFirst
  <2> QED
    BY <2>2, <2>4, <2>6 DEF InOrder
<1>9. ASSUME NEW i \in Item, Forces(m, n, i) PROVE InOrder(n)
  <2>1. i \in Item \ Ids(m) /\ n.order = <<i>> \o m.order /\ n.state[i] = "queued"
    BY <1>9 DEF Forces
  <2>2. Ids(n) = Ids(m) \cup {i} /\ Distinct(n)
    BY <2>1, PrependedBefore DEF InOrder
  <2>3. PICK r \in Running(m) : n.state[r] = "skipped" /\ SameBut(m, n, {i, r})
    BY <1>9 DEF Forces
  <2>4. Listed(n)
    BY <2>2, <2>3 DEF InOrder, Listed, SameBut
  <2>5. Running(n) = {}
    BY <2>1, <2>3 DEF SameBut
  <2> QED
    BY <2>2, <2>4, <2>5 DEF InOrder, RunningFirst
<1> QED
  BY <1>1, <1>2, <1>3, <1>4, <1>5, <1>6, <1>7, <1>8, <1>9 DEF Tends

\* While nothing runs, every effect but a dispatch leaves the head of the queue
\* where it is, or removes it.
LEMMA EffectHead ==
  ASSUME NEW m \in Data, NEW n \in Data, InOrder(m), Running(m) = {}, Tends(m, n),
         NEW i \in Ids(m), i \in Queued(m) => IsHead(m, i), i \in Queued(n)
  PROVE IsHead(n, i)
<1> USE DEF Running, Queued, InState
<1>1. i \in Item /\ n.state[i] = "queued"
  OBVIOUS
<1>2. CASE Keeps(m, n)
  BY <1>1, <1>2, SameOrder DEF Keeps, SameBut, IsHead
<1>3. CASE Drops(m, n)
  BY <1>1, <1>3, SameOrder DEF Drops, IsHead
<1>4. CASE DropsAll(m, n)
  BY <1>1, <1>4 DEF DropsAll
<1>5. CASE DropsRunning(m, n) \/ Finishes(m, n) \/ PutsBack(m, n)
  BY <1>5 DEF DropsRunning, Finishes, PutsBack
<1>6. ASSUME NEW x \in Item, Adds(m, n, x) PROVE IsHead(n, i)
  <2>1. x \in Item \ Ids(m) /\ n.order = Append(m.order, x)
    BY <1>6 DEF Adds
  <2>2. \A a, b : Before(n, a, b) <=> Before(m, a, b) \/ (a \in Ids(m) /\ b = x)
    BY <2>1, AppendedBefore
  <2>3. IsHead(m, i) /\ Queued(n) \subseteq Queued(m) \cup {x}
    BY <1>1, <1>6, <2>1 DEF Adds
  <2> QED
    BY <2>2, <2>3 DEF IsHead
<1>7. ASSUME NEW x \in Item, Forces(m, n, x) PROVE IsHead(n, i)
  BY <1>7 DEF Forces
<1> QED
  BY <1>2, <1>3, <1>4, <1>5, <1>6, <1>7 DEF Tends

------------------------------------------------------------------------------
(* Every action has one of these effects.                                   *)

\* enqueue --force creates its record before the drain and puts it in the queue
\* after it.
Pending(c) == cmd[c].op = "override" /\ cmd[c].pc \in {"drain", "drained"}

\* The worker, but for its dispatch, ends the item it holds or puts it back.
WorkerEffect == Keeps(mem, mem') \/ Finishes(mem, mem') \/ (RecoverUnbound /\ PutsBack(mem, mem'))

\* An error in the loop body.
LEMMA CatchesEffect ==
  ASSUME TypeOK, worker.item \in Item, CatchesError
  PROVE WorkerEffect
<1>1. CASE UNCHANGED mem
  BY <1>1 DEF WorkerEffect, Keeps, SameBut
<1>2. CASE ~MoveThrows(mem, worker.item, "failed") /\ mem' = Moved(mem, worker.item, "failed")
  <2>1. mem \in Data /\ "failed" \in TerminalState
    BY DEF TypeOK, TerminalState
  <2> QED
    BY <1>2, <2>1, MovedEffect DEF WorkerEffect
<1> QED
  BY <1>1, <1>2 DEF CatchesError

\* A result of the monitor.
LEMMA EndsEffect ==
  ASSUME TypeOK, WorkerAt("monitor"), NEW next \in TerminalState, NEW pc,
         NEW exempting, Ends(next, pc, exempting)
  PROVE WorkerEffect
<1>1. worker.item \in Item
  BY WorkerHolds DEF WorkerAt, TypeOK
<1>2. CASE MoveThrows(mem, worker.item, next)
  BY <1>1, <1>2, CatchesEffect DEF Ends
<1>3. CASE ~MoveThrows(mem, worker.item, next)
  <2> DEFINE m == IF next = "completed" THEN Completed(mem, worker.item)
                                        ELSE Moved(mem, worker.item, next)
  <2>1. Keeps(mem, m) \/ Finishes(mem, m)
    BY <1>1, <1>3, MovedEffect, CompletedEffect DEF TypeOK
  <2>2. m \in Data
    BY <1>1, MovedType, CompletedType DEF TypeOK, TerminalState, PersistentQueueState
  <2>3. mem' = Exempting(m, exempting)
    BY <1>3 DEF Ends
  <2>4. Alike(m, mem')
    BY <2>2, <2>3, FlagsAlike
  <2> QED
    BY <2>1, <2>4, AlikeEffect DEF WorkerEffect
<1> QED
  BY <1>2, <1>3

\* Records that only change their flags.
LEMMA FlagsEffect ==
  ASSUME TypeOK, Alike(mem, mem')
  PROVE Keeps(mem, mem')
  BY DEF Alike, Keeps, SameBut

\* Every step of the worker but its dispatch.
LEMMA WorkerEffects ==
  ASSUME TypeOK, WorkerStep, ~WorkerDispatches
  PROVE WorkerEffect
<1>1. mem \in Data /\ {"completed", "failed", "skipped"} \subseteq TerminalState
  BY DEF TypeOK, TerminalState
<1>2. ASSUME UNCHANGED mem PROVE WorkerEffect
  BY <1>2 DEF WorkerEffect, Keeps, SameBut
<1>3. CASE RecoverUnbound
  <2>1. worker.item \in Item
    BY <1>3, WorkerHolds DEF RecoverUnbound, WorkerAt, TypeOK
  <2> QED
    BY <1>1, <1>2, <1>3, <2>1, MovedEffect DEF RecoverUnbound, WorkerEffect
<1>4. CASE WorkerSubmits
  <2>1. worker.item \in Item
    BY <1>4, WorkerHolds DEF WorkerSubmits, WorkerAt, TypeOK
  <2> QED
    BY <1>1, <1>2, <1>4, <2>1, MovedEffect DEF WorkerSubmits, WorkerEffect
<1>5. CASE MonitorAdopts
  BY <1>1, <1>5, FlagsAlike, FlagsEffect DEF MonitorAdopts, WorkerEffect
<1>6. CASE MonitorSeesDone
  BY <1>1, <1>6, EndsEffect DEF MonitorSeesDone, Watching
<1>7. CASE RetentionFails
  <2>1. worker.item \in Item
    BY <1>7, WorkerHolds DEF RetentionFails, WorkerAt, TypeOK
  <2> QED
    BY <1>7, <2>1, CatchesEffect DEF RetentionFails
<1>8. CASE MonitorAccepts
  BY <1>1, <1>8, EndsEffect DEF MonitorAccepts, Watching
<1>9. CASE MonitorFails
  BY <1>1, <1>9, EndsEffect DEF MonitorFails, Watching
<1>10. CASE MonitorMissesThread
  BY <1>1, <1>10, FlagsAlike, FlagsEffect DEF MonitorMissesThread, WorkerEffect
<1>11. CASE WorkerSaves
  BY <1>1, <1>2, <1>11, FlagsAlike, FlagsEffect DEF WorkerSaves, WorkerEffect
<1>12. CASE WorkerSaveFails
  <2>1. worker.item \in Item
    BY <1>12, WorkerHolds DEF WorkerSaveFails, SavePC, AfterSave, TypeOK
  <2> QED
    BY <1>2, <1>12, <2>1, CatchesEffect DEF WorkerSaveFails
<1>13. CASE \/ WorkerStart \/ RecoverBound \/ RecoverNone \/ WorkerLoop \/ MonitorAborts
            \/ MonitorRetains \/ RetentionSent \/ WorkerCleansUp \/ WorkerSavesPause
            \/ WorkerRetries \/ WorkerEnds
  BY <1>2, <1>13
  DEF WorkerStart, RecoverBound, RecoverNone, WorkerLoop, MonitorAborts,
      MonitorRetains, RetentionSent, WorkerCleansUp, WorkerSavesPause, WorkerRetries, WorkerEnds
<1> QED
  BY <1>3, <1>4, <1>5, <1>6, <1>7, <1>8, <1>9, <1>10, <1>11, <1>12, <1>13 DEF WorkerStep

\* The issue of a command adds a record that has a new id, drops waiting or ended
\* ones, or sets flags.
LEMMA IssueEffects ==
  ASSUME TypeOK, NEW c \in Slots, IssueStep(c), Ids(mem) \subseteq 1..created
  PROVE \/ created' = created /\ (Keeps(mem, mem') \/ Drops(mem, mem'))
        \/ created' = created + 1 /\ Adds(mem, mem', created + 1)
        \/ created' = created + 1 /\ mem' = mem
<1>1. mem \in Data
  BY DEF TypeOK
<1>2. ASSUME Alike(mem, mem') PROVE Keeps(mem, mem')
  BY <1>2, FlagsEffect
<1>3. ASSUME NEW S, CanCreate(S)
      PROVE created + 1 \in Item /\ created + 1 \notin Ids(mem)
  BY <1>3, CreatedType DEF TypeOK
<1>4. CASE Enqueue(c)
  BY <1>1, <1>3, <1>4, AppendedEffect DEF Enqueue
<1>5. CASE EnqueueMessage(c)
  BY <1>1, <1>3, <1>5, AppendedEffect DEF EnqueueMessage
<1>6. CASE Replace(c)
  BY <1>1, <1>3, <1>6, AppendedEffect DEF Replace
<1>7. CASE CleanFinished(c)
  <2> DEFINE m == Without(mem, InState(mem, TerminalState))
  <2>1. Drops(mem, m)
    BY <1>1, WithoutEffect DEF Running, InState, TerminalState
  <2>2. m \in Data /\ mem' = ForgettingLast(m)
    BY <1>1, <1>7, WithoutType DEF CleanFinished
  <2> QED
    BY <1>7, <2>1, <2>2, FlagsAlike, AlikeEffect DEF CleanFinished
<1>8. CASE Trim(c)
  <2>1. \A S : S \subseteq Queued(mem) => S \cap Running(mem) = {}
    BY DEF Running, Queued, InState
  <2>2. PICK S \in SUBSET Queued(mem) : mem' = Without(mem, S)
    BY <1>8 DEF Trim
  <2> QED
    BY <1>1, <1>8, <2>1, <2>2, WithoutEffect DEF Trim
<1>9. CASE RemoveWaiting(c)
  <2>1. PICK i \in Queued(mem) : mem' = Without(mem, {i})
    BY <1>9 DEF RemoveWaiting
  <2>2. {i} \cap Running(mem) = {}
    BY DEF Running, Queued, InState
  <2> QED
    BY <1>1, <1>9, <2>1, <2>2, WithoutEffect DEF RemoveWaiting
<1>10. CASE SkipWaitingTask(c)
  BY <1>1, <1>2, <1>10, FlagsAlike DEF SkipWaitingTask
<1>11. CASE Pause(c)
  BY <1>1, <1>2, <1>11, FlagsAlike DEF Pause
<1>12. CASE Unpause(c)
  BY <1>1, <1>2, <1>12, FlagsAlike DEF Unpause
<1>13. CASE Relaunch(c)
  BY <1>1, <1>2, <1>13, FlagsAlike DEF Relaunch
<1>14. CASE RemoveRunning(c) \/ Drain(c)
  BY <1>2, <1>14 DEF RemoveRunning, Drain, Alike
<1> QED
  BY <1>4, <1>5, <1>6, <1>7, <1>8, <1>9, <1>10, <1>11, <1>12, <1>13, <1>14 DEF IssueStep

\* What a command does after the drain: the forced record comes first or, when no
\* record runs any more, last.
LEMMA ResumedEffects ==
  ASSUME TypeOK, NEW c \in Slots, Resumed(c), ~StopContinues(c),
         Pending(c) => cmd[c].item \notin Ids(mem), Listed(mem)
  PROVE \/ Loses(mem, mem')
        \/ Pending(c) /\ (Adds(mem, mem', cmd[c].item) \/ Forces(mem, mem', cmd[c].item))
<1>1. mem \in Data /\ {"completed", "failed", "skipped"} \subseteq TerminalState
  BY DEF TypeOK, TerminalState
<1>2. ASSUME UNCHANGED mem PROVE Keeps(mem, mem')
  BY <1>2 DEF Keeps, SameBut
<1>3. CASE OverrideContinues(c)
  <2> DEFINE i == cmd[c].item
  <2>1. i \in Item /\ i \notin Ids(mem) /\ Pending(c)
    BY <1>3, CommandHolds DEF OverrideContinues, At, Pending, TypeOK
  <2>2. CASE UNCHANGED mem
    BY <1>2, <2>2 DEF Loses
  <2>3. CASE mem' = Appended(mem, i)
    BY <1>1, <2>1, <2>3, AppendedEffect
  <2>4. ASSUME NEW r \in Running(mem), mem' = PutFirst(Moved(mem, r, "skipped"), i)
        PROVE Forces(mem, mem', i)
    <3>1. r # i
      BY <2>1 DEF Listed, Running, InState
    <3> QED
      BY <1>1, <2>1, <2>4, <3>1, PutFirstEffect
  <2> QED
    BY <1>3, <2>1, <2>2, <2>3, <2>4 DEF OverrideContinues
<1>4. CASE ConfirmContinues(c)
  <2>1. CASE UNCHANGED mem
    BY <1>2, <2>1 DEF Loses, Keeps
  <2>2. ASSUME NEW i \in Running(mem), mem' = Completed(mem, i)
        PROVE Keeps(mem, mem') \/ Finishes(mem, mem')
    <3>1. i \in Item /\ ~MoveThrows(mem, i, "completed")
      BY DEF Running, InState, MoveThrows, TransitionAccepted, ALLOWED_TRANSITIONS,
             PersistentQueueState
    <3> QED
      BY <1>1, <2>2, <3>1, CompletedEffect
  <2> QED
    BY <1>4, <2>1, <2>2 DEF ConfirmContinues, Loses, Keeps, Finishes
<1>5. CASE NextContinues(c)
  BY <1>2, <1>5 DEF NextContinues, Loses, Keeps
<1>6. CASE ClearContinues(c)
  BY <1>1, <1>2, <1>6, EmptiedEffect DEF ClearContinues, Loses, Keeps, DropsAll
<1>7. CASE RemoveRunningContinues(c)
  <2> DEFINE i == cmd[c].item
             m == Exempting(mem, {i} \cap mem.bound)
  <2>1. m \in Data /\ Alike(mem, m)
    BY <1>1, BoundItems, ExemptingType, FlagsAlike
  <2>2. PICK l : mem' = Removing(m, i, l)
    BY <1>7 DEF RemoveRunningContinues
  <2>3. Drops(m, mem') \/ DropsRunning(m, mem')
    BY <2>1, <2>2, CommandHolds, RemovingEffect DEF TypeOK
  <2>4. Drops(mem, mem') \/ DropsRunning(mem, mem')
    BY <2>1, <2>3, EffectAlike
  <2> QED
    BY <2>4 DEF Loses, Drops, DropsRunning
<1> QED
  BY <1>3, <1>4, <1>5, <1>6, <1>7 DEF Resumed

\* What it does later.
LEMMA CommandEffects ==
  ASSUME TypeOK, NEW c \in Slots, CommandStep(c)
  PROVE Loses(mem, mem')
<1> SUFFICES \/ Keeps(mem, mem') \/ Drops(mem, mem') \/ DropsRunning(mem, mem')
             \/ DropsAll(mem, mem') \/ Finishes(mem, mem')
  BY DEF Loses
<1>1. mem \in Data /\ {"completed", "failed", "skipped"} \subseteq TerminalState
  BY DEF TypeOK, TerminalState
<1>2. ASSUME Alike(mem, mem') PROVE Keeps(mem, mem')
  BY <1>2, FlagsEffect
<1>3. ASSUME UNCHANGED mem PROVE Keeps(mem, mem')
  BY <1>3 DEF Keeps, SameBut
<1>4. CASE CommandSaves(c)
  BY <1>1, <1>2, <1>3, <1>4, FlagsAlike DEF CommandSaves
<1>5. CASE \/ CommandSavesReset(c) \/ CommandSaveFails(c) \/ ReadsActivity(c)
           \/ Continues(c) \/ RelaunchCancels(c)
  BY <1>3, <1>5
  DEF CommandSavesReset, CommandSaveFails, ReadsActivity, Continues, RelaunchCancels
<1>6. CASE RelaunchSubmits(c)
  BY <1>1, <1>2, <1>3, <1>6, FlagsAlike DEF RelaunchSubmits
<1>7. CASE NextInterruptsLatest(c)
  <2>1. \A S \in SUBSET Item : Alike(mem, Pausing(Exempting(mem, S), FALSE))
    BY <1>1, UnpausedAlike
  <2>2. latest # NoItem => {latest} \in SUBSET Item
    BY DEF TypeOK
  <2>3. UNCHANGED mem \/ \E S \in SUBSET Item : mem' = Pausing(Exempting(mem, S), FALSE)
    BY <1>7, <2>2 DEF NextInterruptsLatest
  <2> QED
    BY <1>2, <1>3, <2>1, <2>3
<1>8. CASE NextSkips(c)
  <2> DEFINE i == cmd[c].item
             m == Moved(mem, i, "skipped")
             S == {i} \cap mem.bound
  <2>1. S \subseteq Item /\ m \in Data
    BY <1>1, BoundItems, MovedType DEF PersistentQueueState
  <2>2. Alike(mem, Exempting(mem, S)) /\ Alike(m, Pausing(Exempting(m, S), FALSE))
    BY <1>1, <2>1, UnpausedAlike, FlagsAlike
  <2>3. CASE mem' = mem \/ mem' = Exempting(mem, S)
    BY <1>2, <1>3, <2>2, <2>3
  <2>4. CASE ~MoveThrows(mem, i, "skipped") /\ mem' = Pausing(Exempting(m, S), FALSE)
    <3>1. CASE i \in Item
      <4>1. Keeps(mem, m) \/ Finishes(mem, m)
        BY <1>1, <2>4, <3>1, MovedEffect
      <4> QED
        BY <2>2, <2>4, <4>1, AlikeEffect
    <3>2. CASE i \notin Item
      <4>1. Alike(mem, m)
        BY <1>1, <3>2 DEF Moved, Data, Alike
      <4> QED
        BY <1>2, <2>2, <2>4, <4>1 DEF Alike
    <3> QED
      BY <3>1, <3>2
  <2> QED
    BY <1>8, <2>3, <2>4 DEF NextSkips
<1>9. CASE PurgesHistory(c)
  BY <1>1, <1>3, <1>9, EmptiedEffect DEF PurgesHistory
<1>10. CASE RemovalChecked(c)
  <2>1. UNCHANGED mem \/ \E l : mem' = Removing(mem, cmd[c].item, l)
    BY <1>10 DEF RemovalChecked
  <2> QED
    BY <1>1, <1>3, <2>1, CommandHolds, RemovingEffect DEF TypeOK
<1> QED
  BY <1>4, <1>5, <1>6, <1>7, <1>8, <1>9, <1>10 DEF CommandStep

------------------------------------------------------------------------------
(* Where the ids of records are, and the head the worker waits with.        *)

\* Ids are given once.  A record that enqueue --force has created and not yet added
\* is nowhere in the queue; the worker holds a record that is, or was.
FreshIds ==
  /\ Ids(file) \subseteq Ids(mem) /\ Ids(mem) \subseteq 1..created
  /\ \A c \in Slots : Pending(c) => cmd[c].item \in (1..created) \ Ids(mem)
  /\ \A c, d \in Slots : Pending(c) /\ Pending(d) /\ cmd[c].item = cmd[d].item => c = d
  /\ worker.item \in Ids(mem) \cup {NoItem}

\* During the idle waits the record taken stays the first of those that wait, or is
\* removed.
HeadHeld == worker.pc = "idle" /\ worker.item \in Queued(mem) => IsHead(mem, worker.item)

\* A host that is not up has no process, and only the file.
HostDown ==
  ~up => /\ mem = file /\ worker = NoWorker
         /\ \A c \in Slots : cmd[c] = Idle
         /\ ~policy /\ ~aborted

OrderInv == InOrder(mem) /\ InOrder(file) /\ FreshIds /\ HeadHeld /\ HostDown

PendingKept == \A d \in Slots : Pending(d)' => Pending(d) /\ cmd'[d].item = cmd[d].item

\* What the worker holds after each of its moves.
LEMMA WorkerItems ==
  ASSUME worker \in WorkerRecord
  PROVE /\ \A pc : Goto(pc) => worker'.item = worker.item
        /\ \A pc, i : Hold(pc, i) => worker'.item = i
        /\ Exit => worker'.item = NoItem
        /\ worker' = AfterExit(mem) => worker'.item = NoItem
        /\ CatchesError => worker'.item \in {worker.item, NoItem}
  BY DEF WorkerRecord, Goto, Hold, Exit, AfterExit, Worker, NoWorker, CatchesError

\* After a command returned.
LEMMA ReturnsItem ==
  ASSUME NEW c \in Slots, NEW kicks, NEW monitors, Returns(c, kicks, monitors)
  PROVE worker'.item \in {worker.item, NoItem}
  BY DEF Returns, Kicked, Worker

\* A step of the worker takes up a record of the queue; only the loop takes one to
\* wait with.
LEMMA WorkerMoves ==
  ASSUME TypeOK, WorkerStep, Listed(mem)
  PROVE /\ up /\ UNCHANGED <<up, created, cmd>>
        /\ file' \in {file, mem}
        /\ worker'.item \in Ids(mem) \cup {worker.item, NoItem}
        /\ ~WorkerDispatches => worker.pc # "idle"
        /\ ~WorkerLoop => worker'.pc # "idle"
        /\ WorkerLoop /\ worker'.pc = "idle" => mem' = mem /\ IsHead(mem, worker'.item)
<1>1. worker \in WorkerRecord
  BY DEF TypeOK
<1>2. Running(mem) \cup Queued(mem) \subseteq Ids(mem)
  BY DEF Listed, Running, Queued, InState
<1>3. CASE WorkerStart
  BY <1>1, <1>2, <1>3, WorkerItems, HoldPC
  DEF WorkerStart, WorkerAt, hostVars, WorkerDispatches, WorkerLoop
<1>4. CASE RecoverUnbound \/ RecoverBound \/ RecoverNone
  BY <1>1, <1>4, WorkerItems, GotoPC, ExitPC
  DEF RecoverUnbound, RecoverBound, RecoverNone, WorkerAt, hostVars, WorkerDispatches, WorkerLoop
<1>5. CASE WorkerLoop
  BY <1>1, <1>2, <1>5, WorkerItems, HoldPC, ExitPC
  DEF WorkerLoop, WorkerAt, hostVars, WorkerDispatches
<1>6. CASE WorkerDispatches
  BY <1>1, <1>6, WorkerItems, GotoPC, ExitPC DEF WorkerDispatches, WorkerAt, hostVars, WorkerLoop
<1>7. CASE WorkerSubmits
  BY <1>1, <1>7, WorkerItems, GotoPC DEF WorkerSubmits, WorkerAt, hostVars, WorkerDispatches, WorkerLoop
<1>8. ASSUME NEW next, NEW pc, NEW exempting, pc # "idle", Ends(next, pc, exempting)
      PROVE worker'.item \in {worker.item, NoItem} /\ worker'.pc # "idle"
  BY <1>1, <1>8, WorkerItems, GotoPC, ExitPC DEF Ends, CatchesError
<1>9. CASE MonitorSeesDone \/ MonitorAccepts \/ MonitorFails
  BY <1>8, <1>9
  DEF MonitorSeesDone, MonitorAccepts, MonitorFails, Watching, WorkerAt, hostVars,
      WorkerDispatches, WorkerLoop
<1>10. CASE \/ MonitorAborts \/ MonitorAdopts \/ MonitorRetains \/ RetentionSent
            \/ RetentionFails \/ MonitorMissesThread \/ WorkerCleansUp
  BY <1>1, <1>10, WorkerItems, GotoPC, ExitPC
  DEF MonitorAborts, MonitorAdopts, MonitorRetains, RetentionSent, RetentionFails,
      MonitorMissesThread, WorkerCleansUp, CatchesError, Watching, WorkerAt, hostVars,
      WorkerDispatches, WorkerLoop
<1>11. CASE WorkerSaves
  BY <1>1, <1>11, WorkerItems, GotoPC
  DEF WorkerSaves, AfterSave, WorkerAt, WorkerDispatches, WorkerLoop
<1>12. CASE WorkerSavesPause \/ WorkerRetries \/ WorkerEnds
  BY <1>1, <1>12, WorkerItems, ExitPC
  DEF WorkerSavesPause, WorkerRetries, WorkerEnds, WorkerAt, hostVars, WorkerDispatches, WorkerLoop
<1>13. CASE WorkerSaveFails
  BY <1>1, <1>13, WorkerItems, GotoPC, ExitPC
  DEF WorkerSaveFails, SavePC, AfterSave, CatchesError, WorkerAt, hostVars, WorkerDispatches,
      WorkerLoop
<1> QED
  BY <1>3, <1>4, <1>5, <1>6, <1>7, <1>9, <1>10, <1>11, <1>12, <1>13 DEF WorkerStep

\* The issue of a command: only enqueue --force makes a record that waits outside.
LEMMA IssueMoves ==
  ASSUME TypeOK, NEW c \in Slots, IssueStep(c)
  PROVE /\ up /\ UNCHANGED <<up, file, worker>>
        /\ created' \in {created, created + 1}
        /\ \/ PendingKept
           \/ /\ mem' = mem /\ created' = created + 1 /\ cmd'[c].item = created + 1
              /\ \A d \in Slots \ {c} : cmd'[d] = cmd[d]
<1>1. cmd \in [Slots -> Command]
  BY DEF TypeOK
<1>2. ASSUME NEW op, NEW pc, NEW i, Await(c, op, pc, i), op # "override"
      PROVE PendingKept
  BY <1>1, <1>2 DEF Await, PendingKept, Pending
<1>3. CASE \/ Enqueue(c) \/ EnqueueMessage(c) \/ Replace(c) \/ CleanFinished(c) \/ Trim(c)
  BY <1>2, <1>3
  DEF Enqueue, EnqueueMessage, Replace, CleanFinished, Trim, Issue, hostButCmd
<1>4. CASE \/ RemoveWaiting(c) \/ SkipWaitingTask(c) \/ Pause(c) \/ Unpause(c)
           \/ Relaunch(c) \/ RemoveRunning(c)
  BY <1>2, <1>4
  DEF RemoveWaiting, SkipWaitingTask, Pause, Unpause, Relaunch, RemoveRunning, Issue, hostButCmd
<1>5. CASE Drain(c)
  BY <1>1, <1>2, <1>5 DEF Drain, Issue, Await
<1> QED
  BY <1>3, <1>4, <1>5 DEF IssueStep

\* The rest of a command: none waits outside any longer that did not before.
LEMMA ResumedMoves ==
  ASSUME TypeOK, NEW c \in Slots, Resumed(c), ~StopContinues(c)
  PROVE /\ up /\ UNCHANGED <<up, created, file>> /\ PendingKept
        /\ ~Pending(c)'
        /\ worker'.item \in {worker.item, NoItem} /\ worker'.pc \in {worker.pc, "start"}
<1>1. cmd \in [Slots -> Command]
  BY DEF TypeOK
<1>2. ASSUME NEW op, NEW pc, NEW i, Await(c, op, pc, i), op # "override"
      PROVE PendingKept /\ ~Pending(c)'
  BY <1>1, <1>2 DEF Await, PendingKept, Pending
<1>3. ASSUME NEW pc, Step(c, pc), pc \notin {"drain", "drained"}
      PROVE PendingKept /\ ~Pending(c)'
  BY <1>1, <1>3 DEF Step, PendingKept, Pending, Command
<1>4. ASSUME NEW kicks, NEW monitors, Returns(c, kicks, monitors)
      PROVE /\ PendingKept /\ ~Pending(c)'
            /\ worker'.item \in {worker.item, NoItem} /\ worker'.pc \in {worker.pc, "start"}
  BY <1>1, <1>4, ReturnsItem, ReturnsPC DEF Returns, PendingKept, Pending, Idle
<1> QED
  BY <1>2, <1>3, <1>4
  DEF Resumed, OverrideContinues, ConfirmContinues, NextContinues, ClearContinues,
      RemoveRunningContinues, At

\* And so do the steps after that.
LEMMA CommandMoves ==
  ASSUME TypeOK, NEW c \in Slots, CommandStep(c)
  PROVE /\ up /\ UNCHANGED <<up, created>> /\ PendingKept
        /\ file' \in {file, mem}
        /\ worker'.item \in {worker.item, NoItem} /\ worker'.pc \in {worker.pc, "start"}
<1>1. cmd \in [Slots -> Command]
  BY DEF TypeOK
<1>2. ASSUME NEW op, NEW pc, NEW i, Await(c, op, pc, i), op # "override"
      PROVE PendingKept
  BY <1>1, <1>2 DEF Await, PendingKept, Pending
<1>3. ASSUME NEW pc, Step(c, pc), pc \notin {"drain", "drained"} \/ cmd[c].op # "override"
      PROVE PendingKept
  BY <1>1, <1>3 DEF Step, PendingKept, Pending, Command
<1>4. ASSUME NEW kicks, NEW monitors, Returns(c, kicks, monitors)
      PROVE /\ PendingKept
            /\ worker'.item \in {worker.item, NoItem} /\ worker'.pc \in {worker.pc, "start"}
  BY <1>1, <1>4, ReturnsItem, ReturnsPC DEF Returns, PendingKept, Pending, Idle
<1>5. CASE CommandSaves(c) \/ CommandSavesReset(c) \/ CommandSaveFails(c)
  BY <1>3, <1>4, <1>5 DEF CommandSaves, CommandSavesReset, CommandSaveFails
<1>6. CASE ReadsActivity(c)
  <2>1. cmd[c].pc = "activity" /\ up /\ UNCHANGED <<up, created, file>>
    BY <1>6 DEF ReadsActivity
  <2>2. ASSUME NEW i, Await(c, cmd[c].op, "send", i) PROVE PendingKept
    BY <1>1, <2>2 DEF Await, PendingKept, Pending
  <2> QED
    BY <1>4, <1>6, <2>1, <2>2 DEF ReadsActivity
<1>7. CASE Continues(c) \/ RelaunchCancels(c) \/ RelaunchSubmits(c) \/ NextInterruptsLatest(c)
  BY <1>2, <1>3, <1>4, <1>7
  DEF Continues, RelaunchCancels, RelaunchSubmits, NextInterruptsLatest, At
<1>8. CASE NextSkips(c) \/ PurgesHistory(c) \/ RemovalChecked(c)
  BY <1>3, <1>4, <1>8 DEF NextSkips, PurgesHistory, RemovalChecked, At
<1> QED
  BY <1>5, <1>6, <1>7, <1>8 DEF CommandStep

\* The invariant at the start.
LEMMA InitOrder == Init => OrderInv
<1>1. /\ EmptyData.order = <<>> /\ \A i \in Item : EmptyData.state[i] = "absent"
  BY DEF EmptyData
<1>2. Ids(EmptyData) = {}
  BY <1>1 DEF Ids
<1>3. InOrder(EmptyData)
  BY <1>1 DEF InOrder, Distinct, Listed, RunningFirst, Running, Queued, InState
<1> QED
  BY <1>2, <1>3 DEF Init, OrderInv, FreshIds, HeadHeld, HostDown, Pending, Idle, NoWorker

\* A step that adds no record and takes none keeps it.
LEMMA SettledOrder ==
  ASSUME TypeOK, TypeOK', OneRunning, OrderInv,
         Tends(mem, mem'), mem'.order = mem.order, up', created' = created,
         file' \in {file, mem}, PendingKept,
         worker'.item \in Ids(mem) \cup {worker.item, NoItem},
         worker'.pc = "idle" => worker.pc = "idle" /\ worker'.item \in {worker.item, NoItem}
  PROVE OrderInv'
<1>1. mem \in Data /\ mem' \in Data
  BY DEF TypeOK
<1>2. InOrder(mem) /\ InOrder(file)
  BY DEF OrderInv
<1>3. InOrder(mem') /\ InOrder(file')
  BY <1>1, <1>2, EffectInOrder DEF OneRunning, AtMostOneRunning
<1>4. Ids(mem') = Ids(mem)
  BY SameOrder
<1>5. FreshIds'
  BY <1>4 DEF OrderInv, FreshIds, PendingKept
<1>6. HeadHeld'
  <2> SUFFICES ASSUME worker'.pc = "idle", worker'.item \in Queued(mem')
               PROVE IsHead(mem', worker'.item)
    BY DEF HeadHeld
  <2>1. worker.pc = "idle" /\ worker'.item = worker.item /\ worker.item \in Ids(mem)
    BY DEF Queued, InState, OrderInv, FreshIds, Item, NoItem
  <2>2. Running(mem) = {} /\ (worker.item \in Queued(mem) => IsHead(mem, worker.item))
    BY <2>1 DEF OneRunning, OrderInv, HeadHeld
  <2> QED
    BY <1>1, <1>2, <2>1, <2>2, EffectHead
<1> QED
  BY <1>3, <1>5, <1>6 DEF OrderInv, HostDown

\* Nor does a step that adds a record whose id is new in the array.
LEMMA AddedOrder ==
  ASSUME TypeOK, TypeOK', OneRunning, OrderInv,
         NEW i \in Item, Adds(mem, mem', i) \/ Forces(mem, mem', i),
         up', created' \in {created, created + 1}, i \in 1..created', file' = file, PendingKept,
         \A d \in Slots : Pending(d)' => cmd'[d].item # i,
         worker'.item \in {worker.item, NoItem}, worker'.pc = "idle" => worker.pc = "idle"
  PROVE OrderInv'
<1>1. mem \in Data /\ mem' \in Data /\ created \in Nat
  BY ConstantsAssumption DEF TypeOK
<1>2. InOrder(mem) /\ InOrder(file)
  BY DEF OrderInv
<1>3. InOrder(mem') /\ InOrder(file')
  BY <1>1, <1>2, EffectInOrder DEF OneRunning, AtMostOneRunning, Tends
<1>4. Ids(mem') = Ids(mem) \cup {i}
  BY <1>1, AppendedBefore, PrependedBefore DEF Adds, Forces
<1>5. 1..created \subseteq 1..created'
  BY <1>1
<1>6. FreshIds'
  BY <1>4, <1>5 DEF OrderInv, FreshIds, PendingKept
<1>7. HeadHeld'
  <2> SUFFICES ASSUME worker'.pc = "idle", worker'.item \in Queued(mem')
               PROVE IsHead(mem', worker'.item)
    BY DEF HeadHeld
  <2>1. worker.pc = "idle" /\ worker'.item = worker.item /\ worker.item \in Ids(mem)
    BY DEF Queued, InState, OrderInv, FreshIds, Item, NoItem
  <2>2. Running(mem) = {} /\ (worker.item \in Queued(mem) => IsHead(mem, worker.item))
    BY <2>1 DEF OneRunning, OrderInv, HeadHeld
  <2> QED
    BY <1>1, <1>2, <2>1, <2>2, EffectHead DEF Tends
<1> QED
  BY <1>3, <1>6, <1>7 DEF OrderInv, HostDown

\* The end of the host leaves what the file has.
LEMMA HostEndsOrder ==
  ASSUME TypeOK, OrderInv, HostEnds
  PROVE OrderInv'
<1>1. InOrder(mem') /\ InOrder(file')
  BY DEF OrderInv, HostEnds
<1>2. FreshIds'
  BY DEF OrderInv, HostEnds, FreshIds, Pending, Idle, NoWorker
<1>3. HeadHeld' /\ HostDown'
  BY DEF HostEnds, HeadHeld, HostDown, NoWorker
<1> QED
  BY <1>1, <1>2, <1>3 DEF OrderInv

\* The dispatch takes the head, with nothing else in the way, or changes nothing.
LEMMA DispatchEffect ==
  ASSUME TypeOK, OneRunning, HeadHeld, WorkerDispatches
  PROVE \/ Takes(mem, mem') /\ ~mem.paused /\ ~aborted
        \/ Keeps(mem, mem')
<1>1. CASE UNCHANGED mem
  BY <1>1 DEF Keeps, SameBut
<1>2. CASE /\ ~(aborted \/ mem.paused) /\ worker.item \in Queued(mem)
           /\ mem' = NoneExempt(Moved(mem, worker.item, "running"))
  <2> DEFINE i == worker.item
             m == Moved(mem, i, "running")
  <2>1. mem \in Data /\ m \in Data
    BY MovedType DEF TypeOK, PersistentQueueState
  <2>2. i \in Item /\ mem.state[i] = "queued"
    BY <1>2 DEF Queued, InState
  <2>3. m.order = mem.order /\ m.state[i] = "running" /\ SameBut(mem, m, {i})
    BY <2>1, <2>2 DEF Data, Moved, SameBut
  <2>4. Alike(m, mem')
    BY <1>2, <2>1, FlagsAlike
  <2>5. Running(mem) = {} /\ IsHead(mem, i)
    BY <1>2 DEF WorkerDispatches, WorkerAt, OneRunning, HeadHeld
  <2> QED
    BY <1>2, <2>2, <2>3, <2>4, <2>5 DEF Takes, SameBut, Alike
<1> QED
  BY <1>1, <1>2 DEF WorkerDispatches

\* The start of the host keeps the records of the file.
LEMMA StartEffect ==
  ASSUME TypeOK, HostDown, Start
  PROVE /\ Keeps(mem, mem') /\ file' = mem' /\ mem = file
        /\ \A c \in Slots : cmd'[c] = Idle
        /\ worker' = Worker("start", NoItem) /\ created' = created
<1>1. file \in Data /\ mem = file
  BY DEF TypeOK, HostDown, Start
<1>2. Alike(file, mem')
  BY <1>1, FlagsAlike DEF Start, Alike
<1> QED
  BY <1>1, <1>2 DEF Start, HostDown, Alike, Keeps, SameBut

\* Every step keeps the order of the queue.
LEMMA NextOrder == TypeOK /\ TypeOK' /\ OneRunning /\ OrderInv /\ [Next]_vars => OrderInv'
<1> SUFFICES ASSUME TypeOK, TypeOK', OneRunning, OrderInv, [Next]_vars PROVE OrderInv'
  OBVIOUS
<1>1. mem \in Data /\ mem' \in Data /\ Ids(mem) \subseteq 1..created /\ Listed(mem)
      /\ created \in Nat
  BY ConstantsAssumption DEF TypeOK, OrderInv, FreshIds, InOrder
<1>2. CASE UNCHANGED <<mem, file, created, up, worker, policy, aborted>> /\ UNCHANGED cmd
  BY <1>2 DEF OrderInv, FreshIds, HeadHeld, HostDown, Pending
<1>3. CASE WorkerStep /\ ~WorkerDispatches
  <2>1. WorkerEffect
    BY <1>3, WorkerEffects
  <2>2. Tends(mem, mem') /\ mem'.order = mem.order
    BY <2>1 DEF WorkerEffect, Tends, Keeps, Finishes, PutsBack
  <2>3. PendingKept
    BY <1>1, <1>3, WorkerMoves DEF PendingKept, Pending
  <2>4. CASE worker'.pc # "idle"
    BY <1>1, <1>3, <2>2, <2>3, <2>4, WorkerMoves, SettledOrder
  <2>5. CASE worker'.pc = "idle"
    <3>1. mem' = mem /\ IsHead(mem, worker'.item)
      BY <1>1, <1>3, <2>5, WorkerMoves
    <3> QED
      BY <1>1, <1>3, <2>3, <3>1, WorkerMoves
      DEF OrderInv, FreshIds, HeadHeld, HostDown, PendingKept
  <2> QED
    BY <2>4, <2>5
<1>4. CASE WorkerDispatches
  <2>1. WorkerStep /\ ~WorkerLoop /\ PendingKept
    BY <1>1, <1>4, WorkerMoves DEF WorkerStep, PendingKept, Pending, WorkerDispatches, WorkerLoop, WorkerAt
  <2>2. Takes(mem, mem') \/ Keeps(mem, mem')
    BY <1>4, DispatchEffect DEF OrderInv
  <2>3. InOrder(mem') /\ InOrder(file')
    BY <1>1, <2>1, <2>2, EffectInOrder, WorkerMoves DEF OrderInv, OneRunning, AtMostOneRunning, Tends
  <2>4. Ids(mem') = Ids(mem)
    BY <2>2, SameOrder DEF Takes, Keeps
  <2> QED
    BY <1>1, <2>1, <2>3, <2>4, WorkerMoves DEF OrderInv, FreshIds, HeadHeld, HostDown, PendingKept
<1>5. ASSUME NEW c \in Slots, IssueStep(c) PROVE OrderInv'
  <2>1. /\ up' /\ file' = file /\ worker' = worker /\ created' \in {created, created + 1}
        /\ \/ PendingKept
           \/ /\ mem' = mem /\ created' = created + 1 /\ cmd'[c].item = created + 1
              /\ \A d \in Slots \ {c} : cmd'[d] = cmd[d]
    BY <1>5, IssueMoves
  <2>2. CASE PendingKept /\ (Keeps(mem, mem') \/ Drops(mem, mem')) /\ created' = created
    BY <2>1, <2>2, SettledOrder DEF Tends, Keeps, Drops
  <2>3. CASE PendingKept /\ created' = created + 1 /\ Adds(mem, mem', created + 1)
    <3>1. \A d \in Slots : Pending(d)' => cmd'[d].item # created + 1
      BY <1>1, <2>3 DEF PendingKept, OrderInv, FreshIds
    <3>2. created + 1 \in Item /\ created + 1 \in 1..created'
      BY <1>1, <2>3 DEF Adds
    <3> QED
      BY <2>1, <2>3, <3>1, <3>2, AddedOrder
  <2>4. CASE /\ created' = created + 1 /\ Alike(mem, mem')
             /\ \/ PendingKept
                \/ /\ cmd'[c].item = created + 1
                   /\ \A d \in Slots \ {c} : cmd'[d] = cmd[d]
    <3>1. Ids(mem') = Ids(mem) /\ Keeps(mem, mem')
      BY <2>4, SameOrder DEF Alike, Keeps, SameBut
    <3>2. 1..created \subseteq 1..created' /\ created + 1 \in 1..created' /\ created + 1 \notin 1..created
      BY <1>1, <2>4
    <3>3. FreshIds'
      <4>1. ASSUME NEW d \in Slots, Pending(d)'
            PROVE \/ Pending(d) /\ cmd'[d].item = cmd[d].item
                  \/ d = c /\ cmd'[c].item = created + 1
        BY <2>4, <4>1 DEF PendingKept, Pending
      <4> QED
        BY <2>1, <2>4, <3>1, <3>2, <4>1 DEF OrderInv, FreshIds
    <3>4. InOrder(mem')
      BY <1>1, <3>1, EffectInOrder DEF OrderInv, OneRunning, AtMostOneRunning, Tends
    <3>5. HeadHeld'
      BY <2>1, <2>4, <3>1, SameOrder DEF HeadHeld, OrderInv, Alike, Keeps, IsHead, Queued, InState
    <3> QED
      BY <2>1, <3>3, <3>4, <3>5 DEF OrderInv, HostDown
  <2>5. \/ created' = created /\ (Keeps(mem, mem') \/ Drops(mem, mem'))
        \/ created' = created + 1 /\ Adds(mem, mem', created + 1)
        \/ created' = created + 1 /\ mem' = mem
    BY <1>1, <1>5, IssueEffects
  <2>6. created + 1 # created
    BY <1>1
  <2> QED
    BY <2>1, <2>2, <2>3, <2>4, <2>5, <2>6 DEF Alike
<1>6. ASSUME NEW c \in Slots, Resumed(c), ~StopContinues(c) PROVE OrderInv'
  <2> DEFINE i == cmd[c].item
  <2>1. Pending(c) => i \in (1..created) \ Ids(mem)
    BY DEF OrderInv, FreshIds
  <2>2. /\ up' /\ created' = created /\ file' = file /\ PendingKept /\ ~Pending(c)'
        /\ worker'.item \in {worker.item, NoItem} /\ (worker'.pc = "idle" => worker.pc = "idle")
    BY <1>6, ResumedMoves
  <2>3. CASE Loses(mem, mem')
    BY <2>2, <2>3, LosesTends, SettledOrder
  <2>4. CASE Pending(c) /\ (Adds(mem, mem', i) \/ Forces(mem, mem', i))
    <3>1. i \in Item /\ i \in 1..created'
      BY <2>1, <2>2, <2>4 DEF Adds, Forces
    <3>2. \A d \in Slots : Pending(d)' => cmd'[d].item # i
      BY <2>2, <2>4 DEF PendingKept, OrderInv, FreshIds
    <3> QED
      BY <2>2, <2>4, <3>1, <3>2, AddedOrder
  <2> QED
    BY <1>1, <1>6, <2>1, <2>3, <2>4, ResumedEffects
<1>7. ASSUME NEW c \in Slots, CommandStep(c) PROVE OrderInv'
  <2>1. Tends(mem, mem') /\ mem'.order = mem.order
    BY <1>7, CommandEffects, LosesTends
  <2> QED
    BY <1>7, <2>1, CommandMoves, SettledOrder
<1>8. CASE Crash \/ \E c \in Slots : StopContinues(c)
  BY <1>8, HostEndsOrder DEF Crash, StopContinues
<1>9. CASE Start
  <2>1. /\ Keeps(mem, mem') /\ file' = mem' /\ mem = file /\ \A c \in Slots : cmd'[c] = Idle
        /\ worker' = Worker("start", NoItem) /\ created' = created
    BY <1>9, StartEffect DEF OrderInv
  <2>2. Ids(mem') = Ids(mem) /\ InOrder(mem')
    BY <1>1, <2>1, SameOrder, EffectInOrder DEF OrderInv, OneRunning, AtMostOneRunning, Tends, Keeps
  <2>3. FreshIds'
    BY <1>1, <2>1, <2>2 DEF FreshIds, Pending, Idle, Worker
  <2>4. HeadHeld' /\ HostDown'
    BY <1>9, <2>1 DEF HeadHeld, HostDown, Worker, Start
  <2> QED
    BY <2>1, <2>2, <2>3, <2>4 DEF OrderInv
<1>10. CASE Drained
  <2>1. PendingKept
    BY <1>10 DEF Drained, PendingKept, Pending, TypeOK
  <2>2. Keeps(mem, mem') /\ up
    BY <1>10 DEF Drained, Keeps, SameBut, DrainCompleted, OrderInv, HostDown, Idle
  <2> QED
    BY <1>10, <2>1, <2>2, SettledOrder DEF Drained, Tends, Keeps
<1>11. CASE PolicyStops
  BY <1>1, <1>11 DEF PolicyStops, OrderInv, FreshIds, HeadHeld, HostDown, Pending
<1>12. CASE ClineStops \/ UserResumes \/ UserDeletes
  BY <1>2, <1>12 DEF ClineStops, UserResumes, UserDeletes, hostVars
<1>13. CASE UNCHANGED vars
  BY <1>2, <1>13 DEF vars
<1> QED
  BY <1>3, <1>4, <1>5, <1>6, <1>7, <1>8, <1>9, <1>10, <1>11, <1>12, <1>13 DEF Next

\* The order invariant holds in every run.
LEMMA OrderAlways == Spec => []OrderInv
  BY InitOrder, NextOrder, TypeCorrect, OneRunningAlways, PTL DEF Spec

\* No effect but Takes makes a waiting record run.
LEMMA TendsDispatchesNone ==
  ASSUME NEW m, NEW n, Tends(m, n) \/ Keeps(m, n), NEW i \in Item, m.state[i] = "queued"
  PROVE n.state[i] # "running"
<1> USE DEF Running, InState
<1>1. CASE Keeps(m, n) \/ Drops(m, n) \/ DropsAll(m, n)
  BY <1>1 DEF Keeps, Drops, DropsAll, SameBut
<1>2. CASE DropsRunning(m, n)
  BY <1>2 DEF DropsRunning, SameBut
<1>3. CASE Finishes(m, n)
  BY <1>3 DEF Finishes, SameBut, TerminalState
<1>4. CASE PutsBack(m, n)
  BY <1>4 DEF PutsBack, SameBut
<1>5. ASSUME NEW x \in Item, Adds(m, n, x) PROVE n.state[i] # "running"
  BY <1>5 DEF Adds
<1>6. ASSUME NEW x \in Item, Forces(m, n, x) PROVE n.state[i] # "running"
  BY <1>6 DEF Forces, SameBut
<1> QED
  BY <1>1, <1>2, <1>3, <1>4, <1>5, <1>6 DEF Tends

\* Every step of a host that stays up has an effect; only the worker's dispatch
\* takes a record.
LEMMA StepEffect ==
  ASSUME TypeOK, OneRunning, OrderInv, [Next]_vars, up'
  PROVE \/ Takes(mem, mem') /\ WorkerDispatches /\ ~mem.paused /\ ~aborted
        \/ Tends(mem, mem')
<1>1. Listed(mem) /\ Ids(mem) \subseteq 1..created
  BY DEF OrderInv, InOrder, FreshIds
<1>2. Keeps(mem, mem') \/ Drops(mem, mem') \/ DropsRunning(mem, mem') \/ DropsAll(mem, mem')
        \/ Finishes(mem, mem') \/ PutsBack(mem, mem') => Tends(mem, mem')
  BY DEF Tends
<1>3. CASE WorkerDispatches
  BY <1>2, <1>3, DispatchEffect DEF OrderInv
<1>4. CASE WorkerStep /\ ~WorkerDispatches
  BY <1>2, <1>4, WorkerEffects DEF WorkerEffect
<1>5. ASSUME NEW c \in Slots, IssueStep(c) PROVE Tends(mem, mem')
  BY <1>1, <1>5, IssueEffects DEF Tends, Adds, Keeps, SameBut
<1>6. ASSUME NEW c \in Slots, Resumed(c) PROVE Tends(mem, mem')
  <2>1. ~StopContinues(c)
    BY DEF StopContinues, HostEnds
  <2>2. Pending(c) => cmd[c].item \notin Ids(mem)
    BY DEF OrderInv, FreshIds
  <2>3. Adds(mem, mem', cmd[c].item) \/ Forces(mem, mem', cmd[c].item) => cmd[c].item \in Item
    BY DEF Adds, Forces
  <2> QED
    BY <1>1, <1>6, <2>1, <2>2, <2>3, ResumedEffects, LosesTends DEF Tends
<1>7. ASSUME NEW c \in Slots, CommandStep(c) PROVE Tends(mem, mem')
  BY <1>7, CommandEffects, LosesTends
<1>8. CASE Start
  BY <1>2, <1>8, StartEffect DEF OrderInv
<1>9. CASE UNCHANGED mem
  BY <1>2, <1>9 DEF Keeps, SameBut
<1>10. ~Crash
  BY DEF Crash, HostEnds
<1>11. CASE Drained \/ PolicyStops \/ ClineStops \/ UserResumes \/ UserDeletes \/ UNCHANGED vars
  BY <1>9, <1>11 DEF Drained, PolicyStops, ClineStops, UserResumes, UserDeletes, vars
<1> QED
  BY <1>3, <1>4, <1>5, <1>6, <1>7, <1>8, <1>10, <1>11 DEF Next

\* The record process() marks running is the first of those that wait at that very
\* moment, in a queue that is neither paused nor being drained, whatever the
\* commands did during the idle waits and the cooldown before it.
THEOREM DispatchInTurn == Spec => DispatchesHead
<1>1. ASSUME TypeOK, OneRunning, OrderInv, [Next]_vars
      PROVE [up' => \A i \in Item : mem.state[i] = "queued" /\ mem'.state[i] = "running" =>
               IsHead(mem, i) /\ ~mem.paused /\ ~aborted]_vars
  <2> SUFFICES ASSUME up', NEW i \in Item, mem.state[i] = "queued", mem'.state[i] = "running"
               PROVE IsHead(mem, i) /\ ~mem.paused /\ ~aborted
    OBVIOUS
  <2>1. Takes(mem, mem') /\ ~mem.paused /\ ~aborted
    BY <1>1, StepEffect, TendsDispatchesNone
  <2>2. PICK j \in Item : IsHead(mem, j) /\ SameBut(mem, mem', {j})
    BY <2>1 DEF Takes
  <2>3. i = j
    BY <2>2 DEF SameBut
  <2> QED
    BY <2>1, <2>2, <2>3
<1> QED
  BY <1>1, TypeCorrect, OneRunningAlways, OrderAlways, PTL DEF Spec, DispatchesHead

------------------------------------------------------------------------------
(* No active record is lost.                                                *)

NoneLost == \A i \in Active(mem) : mem'.state[i] # "absent"

\* These effects remove no record.
LEMMA EffectsLoseNone ==
  ASSUME Keeps(mem, mem') \/ Finishes(mem, mem') \/ PutsBack(mem, mem') \/ Takes(mem, mem')
  PROVE NoneLost
<1> USE DEF Active, Running, InState, ActiveState, NoneLost
<1>1. CASE Keeps(mem, mem')
  BY <1>1 DEF Keeps, SameBut
<1>2. CASE Finishes(mem, mem')
  BY <1>2 DEF Finishes, SameBut, TerminalState
<1>3. CASE PutsBack(mem, mem')
  BY <1>3 DEF PutsBack, SameBut
<1>4. CASE Takes(mem, mem')
  BY <1>4 DEF Takes, SameBut
<1> QED
  BY <1>1, <1>2, <1>3, <1>4

\* A command that is issued loses waiting records only, and only if its name says so.
LEMMA IssueLoses ==
  ASSUME TypeOK, NEW c \in Slots, IssueStep(c), Ids(mem) \subseteq 1..created,
         NEW i \in Active(mem), mem'.state[i] = "absent"
  PROVE cmd'[c].op \in {"replace", "trim", "remove"} /\ i \in Queued(mem)
<1>1. mem \in Data /\ cmd \in [Slots -> Command] /\ i \in Item
  BY DEF TypeOK, Active, InState
<1>2. ASSUME NEW op, NEW pc, NEW j, Await(c, op, pc, j) PROVE cmd'[c].op = op
  BY <1>1, <1>2 DEF Await
<1>3. ASSUME Alike(mem, mem') PROVE FALSE
  BY <1>3 DEF Alike, Active, ActiveState, InState
<1>4. i \in Queued(mem)
  <2>1. \/ Keeps(mem, mem') \/ Drops(mem, mem') \/ mem' = mem
        \/ Adds(mem, mem', created + 1)
    BY IssueEffects
  <2> QED
    BY <2>1 DEF Keeps, SameBut, Drops, Adds, Active, Queued, ActiveState, InState
<1>5. CASE Enqueue(c) \/ EnqueueMessage(c)
  BY <1>1, <1>5 DEF Enqueue, EnqueueMessage, Appended, Data, Active, ActiveState, InState
<1>6. CASE CleanFinished(c)
  BY <1>1, <1>6
  DEF CleanFinished, ForgettingLast, Without, Data, Active, ActiveState, InState, TerminalState
<1>7. CASE Replace(c) \/ Trim(c) \/ RemoveWaiting(c)
  BY <1>2, <1>4, <1>7 DEF Replace, Trim, RemoveWaiting
<1>8. CASE SkipWaitingTask(c) \/ Pause(c) \/ Unpause(c) \/ Relaunch(c)
  BY <1>1, <1>3, <1>8, FlagsAlike DEF SkipWaitingTask, Pause, Unpause, Relaunch
<1>9. CASE RemoveRunning(c) \/ Drain(c)
  BY <1>3, <1>9 DEF RemoveRunning, Drain, Alike
<1> QED
  BY <1>4, <1>5, <1>6, <1>7, <1>8, <1>9 DEF IssueStep

\* After a drain only a clear, and the removal of that very record, lose one.
LEMMA ResumedLoses ==
  ASSUME TypeOK, NEW c \in Slots, Resumed(c), ~StopContinues(c), Listed(mem),
         Pending(c) => cmd[c].item \notin Ids(mem),
         NEW i \in Active(mem), mem'.state[i] = "absent"
  PROVE \/ cmd[c].op \in {"clear", "purge"}
        \/ cmd[c].op = "removeRunning" /\ cmd[c].item = i
<1>1. mem \in Data /\ i \in Item /\ mem.state[i] # "absent"
  BY DEF TypeOK, Active, ActiveState, InState
<1>2. ~NoneLost
  BY DEF NoneLost
<1>3. mem' # mem
  BY <1>1
<1>4. CASE ClearContinues(c)
  BY <1>4 DEF ClearContinues, At
<1>5. CASE RemoveRunningContinues(c)
  <2>1. PICK l : mem' = Removing(Exempting(mem, {cmd[c].item} \cap mem.bound), cmd[c].item, l)
    BY <1>5 DEF RemoveRunningContinues
  <2>2. mem'.state[i] = IF i = cmd[c].item THEN "absent" ELSE mem.state[i]
    BY <1>1, <2>1 DEF Removing, Without, Exempting, Data
  <2> QED
    BY <1>1, <1>5, <2>2 DEF RemoveRunningContinues, At
<1>6. CASE OverrideContinues(c)
  <2>1. cmd[c].item \in Item /\ cmd[c].item \notin Ids(mem)
    BY <1>6, CommandHolds DEF OverrideContinues, At, Pending, TypeOK
  <2>2. ASSUME mem' = Appended(mem, cmd[c].item) PROVE FALSE
    <3>1. mem'.state = [mem.state EXCEPT ![cmd[c].item] = "queued"]
      BY <1>1, <2>2 DEF Appended, Data
    <3> QED
      BY <1>1, <2>1, <3>1 DEF Data
  <2>3. ASSUME NEW r \in Running(mem), mem' = PutFirst(Moved(mem, r, "skipped"), cmd[c].item)
        PROVE FALSE
    <3>1. r # cmd[c].item
      BY <2>1 DEF Listed, Running, InState
    <3>2. Forces(mem, mem', cmd[c].item)
      BY <1>1, <2>1, <2>3, <3>1, PutFirstEffect
    <3> QED
      BY <1>1, <3>2 DEF Forces, SameBut
  <2> QED
    BY <1>3, <1>6, <2>2, <2>3 DEF OverrideContinues
<1>7. CASE ConfirmContinues(c)
  <2>1. PICK j \in Running(mem) : mem' = Completed(mem, j)
    BY <1>3, <1>7 DEF ConfirmContinues
  <2> QED
    BY <1>1, <2>1 DEF Completed, Moved, Data
<1>8. CASE NextContinues(c)
  BY <1>3, <1>8 DEF NextContinues
<1> QED
  BY <1>4, <1>5, <1>6, <1>7, <1>8 DEF Resumed

\* Nor does anything else lose one later.
LEMMA CommandLoses ==
  ASSUME TypeOK, NEW c \in Slots, CommandStep(c),
         NEW i \in Active(mem), mem'.state[i] = "absent"
  PROVE \/ cmd[c].op \in {"clear", "purge"}
        \/ cmd[c].op = "removeRunning" /\ cmd[c].item = i
<1>1. mem \in Data /\ i \in Item /\ mem.state[i] # "absent"
  BY DEF TypeOK, Active, ActiveState, InState
<1>2. /\ mem' # mem /\ mem' # NoneExempt(mem)
      /\ \A j : mem' # Binding(mem, j)
      /\ \A S : mem' # Exempting(mem, S)
      /\ \A S \in SUBSET Item : mem' # Pausing(Exempting(mem, S), FALSE)
  <2>1. ~Alike(mem, mem')
    BY <1>1 DEF Alike
  <2>2. mem' # mem
    BY <1>1
  <2> QED
    BY <1>1, <2>1, <2>2, FlagsAlike, UnpausedAlike
<1>3. CASE PurgesHistory(c)
  BY <1>3 DEF PurgesHistory, At
<1>4. CASE RemovalChecked(c)
  <2>1. PICK l : mem' = Removing(mem, cmd[c].item, l)
    BY <1>2, <1>4 DEF RemovalChecked
  <2>2. mem'.state[i] = IF i = cmd[c].item THEN "absent" ELSE mem.state[i]
    BY <1>1, <2>1 DEF Removing, Without, Data
  <2> QED
    BY <1>1, <1>4, <2>2 DEF RemovalChecked, At
<1>5. CASE NextSkips(c)
  <2> DEFINE m == Moved(mem, cmd[c].item, "skipped")
  <2>1. m \in Data /\ m.state[i] # "absent"
    <3>1. "skipped" \in PersistentQueueState /\ "skipped" # "absent"
      BY DEF PersistentQueueState
    <3>2. m \in Data
      BY <1>1, <3>1, MovedType
    <3>3. m.state[i] \in {mem.state[i], "skipped"}
      BY <1>1 DEF Moved, Data
    <3> QED
      BY <1>1, <3>1, <3>2, <3>3
  <2>2. {cmd[c].item} \cap mem.bound \in SUBSET Item
    BY <1>1, BoundItems
  <2>3. mem' = Pausing(Exempting(m, {cmd[c].item} \cap mem.bound), FALSE)
    BY <1>2, <1>5 DEF NextSkips
  <2>4. Alike(m, mem')
    BY <2>1, <2>2, <2>3, UnpausedAlike
  <2> QED
    BY <2>1, <2>4 DEF Alike
<1>6. CASE NextInterruptsLatest(c)
  <2>1. latest # NoItem => {latest} \in SUBSET Item
    BY DEF TypeOK
  <2> QED
    BY <1>2, <1>6, <2>1 DEF NextInterruptsLatest
<1>7. CASE CommandSaves(c) \/ RelaunchSubmits(c)
  BY <1>2, <1>7 DEF CommandSaves, RelaunchSubmits
<1>8. CASE \/ CommandSavesReset(c) \/ CommandSaveFails(c) \/ ReadsActivity(c)
           \/ Continues(c) \/ RelaunchCancels(c)
  BY <1>2, <1>8
  DEF CommandSavesReset, CommandSaveFails, ReadsActivity, Continues, RelaunchCancels
<1> QED
  BY <1>3, <1>4, <1>5, <1>6, <1>7, <1>8 DEF CommandStep

\* A waiting or running record leaves the queue only by a command that removes
\* records, a running one only by a clear or by its own removal: no interleaving of
\* the worker, an error or a recovery loses one.
THEOREM ActiveKept == Spec => ActiveNotLost
<1> DEFINE Lost(i) ==
      \E c \in Slots :
         \/ cmd[c].op \in {"clear", "purge"}
         \/ cmd[c].op = "removeRunning" /\ cmd[c].item = i
         \/ cmd'[c].op \in {"replace", "trim", "remove"} /\ i \in Queued(mem)
<1>1. ASSUME TypeOK, OneRunning, OrderInv, [Next]_vars
      PROVE [up /\ up' => \A i \in Active(mem) : mem'.state[i] = "absent" => Lost(i)]_vars
  <2> SUFFICES ASSUME up, up', NEW i \in Active(mem), mem'.state[i] = "absent"
               PROVE Lost(i)
    OBVIOUS
  <2>1. ~NoneLost
    BY DEF NoneLost
  <2>2. mem' # mem
    BY DEF Active, InState, ActiveState
  <2>3. CASE WorkerStep
    BY <1>1, <2>1, <2>3, WorkerEffects, DispatchEffect, EffectsLoseNone
    DEF WorkerEffect, OrderInv
  <2>4. ASSUME NEW c \in Slots, IssueStep(c) PROVE Lost(i)
    BY <1>1, <2>4, IssueLoses DEF OrderInv, FreshIds
  <2>5. ASSUME NEW c \in Slots, Resumed(c) PROVE Lost(i)
    BY <1>1, <2>5, ResumedLoses DEF OrderInv, FreshIds, InOrder, StopContinues, HostEnds
  <2>6. ASSUME NEW c \in Slots, CommandStep(c) PROVE Lost(i)
    BY <1>1, <2>6, CommandLoses
  <2>7. ~Crash /\ ~Start
    BY DEF Crash, HostEnds, Start
  <2> QED
    BY <1>1, <2>2, <2>3, <2>4, <2>5, <2>6, <2>7
    DEF Next, Drained, PolicyStops, ClineStops, UserResumes, UserDeletes, vars
<1> QED
  BY <1>1, TypeCorrect, OneRunningAlways, OrderAlways, PTL DEF Spec, ActiveNotLost

------------------------------------------------------------------------------
(* The commands: where each operation can be, who aborts the worker, and who *)
(* goes on after the drain.                                                  *)

Fits(op, pc) ==
  \/ op = "none" /\ pc = "none"
  \/ op \in Ops \cap Draining /\ pc \in {"drain", "drained"}
  \/ op \in (Ops \cup {"enqueue"}) \ {"none", "stop"} /\ pc \in {"save", "reset"}
  \/ op \in Ops /\ op = "removeRunning" /\ pc = "status"
  \/ op \in Ops /\ op = "next" /\ pc \in {"interrupt", "interruptLatest"}
  \/ op \in Ops /\ op = "purge" /\ pc = "history"
  \/ op \in Ops /\ op = "relaunch" /\ pc \in {"cancel", "newTask"}
  \/ op \in Ops /\ op \in {"resume", "continue"} /\ pc \in {"activity", "send"}

Shape(d) == Fits(d.op, d.pc)

\* The controller is aborted exactly while a command waits for the drain; when it
\* is over and commands go on, no worker is there.
ControlInv ==
  /\ \A c \in Slots : Shape(cmd[c])
  /\ aborted <=> \E c \in Slots : cmd[c].pc = "drain"
  /\ (\E c \in Slots : cmd[c].pc = "drained") => worker.pc = "none"

OthersWait(c) == \A d \in Slots \ {c} : cmd'[d] = cmd[d]

LEMMA IdleShape == Shape(Idle)
  BY DEF Shape, Fits, Idle

\* What the three ways to write a command's slot leave in it.
LEMMA Awaits ==
  ASSUME TypeOK, NEW c \in Slots, NEW op, NEW pc, NEW i, Await(c, op, pc, i)
  PROVE OthersWait(c) /\ cmd'[c].op = op /\ cmd'[c].pc = pc
  BY DEF TypeOK, Await, OthersWait

LEMMA Steps ==
  ASSUME TypeOK, NEW c \in Slots, NEW pc, Step(c, pc)
  PROVE OthersWait(c) /\ cmd'[c].op = cmd[c].op /\ cmd'[c].pc = pc
  BY DEF TypeOK, Command, Step, OthersWait

LEMMA Returned ==
  ASSUME TypeOK, NEW c \in Slots, NEW kicks, NEW monitors, Returns(c, kicks, monitors)
  PROVE /\ OthersWait(c) /\ cmd'[c].op = "none" /\ cmd'[c].pc = "none"
        /\ worker' \in {worker, Worker("start", NoItem)}
        /\ ~kicks \/ worker.pc # "none" => worker' = worker
        /\ policy' = (policy \/ monitors)
  BY DEF TypeOK, Returns, OthersWait, Idle, Kicked

\* What a command is issued as.
LEMMA IssueControl ==
  ASSUME TypeOK, NEW c \in Slots, IssueStep(c)
  PROVE /\ OthersWait(c) /\ cmd[c] = Idle /\ Shape(cmd'[c])
        /\ cmd'[c].pc \in {"save", "drain", "status", "cancel", "newTask"}
        /\ aborted' = (aborted \/ cmd'[c].pc = "drain")
        /\ worker' = worker
<1>1. aborted \in BOOLEAN /\ "none" \notin Ops
  BY ConstantsAssumption DEF TypeOK, Operation
<1>2. ASSUME NEW op, Issue(c, op) PROVE op \in Ops /\ cmd[c] = Idle
  BY <1>2 DEF Issue
<1>3. ASSUME NEW op, NEW i, op \in Ops, op # "stop", Await(c, op, "save", i)
      PROVE OthersWait(c) /\ Shape(cmd'[c]) /\ cmd'[c].pc = "save"
  BY <1>1, <1>3, Awaits DEF Shape, Fits
<1>4. CASE Enqueue(c)
  BY <1>1, <1>2, <1>3, <1>4 DEF Enqueue, hostButCmd
<1>5. CASE EnqueueMessage(c)
  BY <1>1, <1>2, <1>3, <1>5 DEF EnqueueMessage, hostButCmd
<1>6. CASE Replace(c)
  BY <1>1, <1>2, <1>3, <1>6 DEF Replace, hostButCmd
<1>7. CASE CleanFinished(c)
  BY <1>1, <1>2, <1>3, <1>7 DEF CleanFinished, hostButCmd
<1>8. CASE Trim(c)
  BY <1>1, <1>2, <1>3, <1>8 DEF Trim, hostButCmd
<1>9. CASE RemoveWaiting(c)
  BY <1>1, <1>2, <1>3, <1>9 DEF RemoveWaiting, hostButCmd
<1>10. CASE SkipWaitingTask(c)
  BY <1>1, <1>2, <1>3, <1>10 DEF SkipWaitingTask, hostButCmd
<1>11. CASE Pause(c)
  BY <1>1, <1>2, <1>3, <1>11 DEF Pause, hostButCmd
<1>12. CASE Unpause(c)
  <2>1. PICK op \in {"resume", "continue"} : Issue(c, op) /\ Await(c, op, "save", NoItem)
    BY <1>12 DEF Unpause
  <2> QED
    BY <1>1, <1>2, <1>3, <1>12, <2>1 DEF Unpause, hostButCmd
<1>13. CASE Relaunch(c)
  <2>1. cmd[c] = Idle /\ "relaunch" \in Ops /\ aborted' = aborted /\ worker' = worker
    BY <1>2, <1>13 DEF Relaunch, hostButCmd
  <2>2. CASE Await(c, "relaunch", "save", NoItem)
    BY <1>1, <1>3, <2>1, <2>2
  <2>3. ASSUME NEW i, Await(c, "relaunch", IF i \in mem.bound THEN "cancel" ELSE "newTask", i)
        PROVE OthersWait(c) /\ Shape(cmd'[c]) /\ cmd'[c].pc \in {"cancel", "newTask"}
    BY <2>1, <2>3, Awaits DEF Shape, Fits
  <2> QED
    BY <1>1, <1>13, <2>1, <2>2, <2>3 DEF Relaunch
<1>14. CASE RemoveRunning(c)
  <2>1. cmd[c] = Idle /\ "removeRunning" \in Ops /\ aborted' = aborted /\ worker' = worker
    BY <1>2, <1>14 DEF RemoveRunning, hostButCmd
  <2>2. PICK i \in Running(mem) : Await(c, "removeRunning", "status", i)
    BY <1>14 DEF RemoveRunning
  <2>3. OthersWait(c) /\ Shape(cmd'[c]) /\ cmd'[c].pc = "status"
    BY <2>1, <2>2, Awaits DEF Shape, Fits
  <2> QED
    BY <1>1, <2>1, <2>3
<1>15. CASE Drain(c)
  <2>1. PICK op \in Draining, i \in Nat : Issue(c, op) /\ Await(c, op, "drain", i)
    BY <1>15 DEF Drain, Draining, NoItem, TypeOK
  <2>2. OthersWait(c) /\ Shape(cmd'[c]) /\ cmd'[c].pc = "drain"
    BY <1>2, <2>1, Awaits DEF Shape, Fits
  <2> QED
    BY <1>2, <1>15, <2>1, <2>2 DEF Drain
<1> QED
  BY <1>4, <1>5, <1>6, <1>7, <1>8, <1>9, <1>10, <1>11, <1>12, <1>13, <1>14, <1>15 DEF IssueStep

\* What a command does after the drain: it starts no worker.
LEMMA ResumedControl ==
  ASSUME TypeOK, ControlInv, NEW c \in Slots, Resumed(c), ~StopContinues(c)
  PROVE /\ OthersWait(c) /\ cmd[c].pc = "drained" /\ Shape(cmd'[c])
        /\ cmd'[c].pc \notin {"drain", "drained"}
        /\ aborted' = aborted /\ worker' = worker
<1>1. Shape(cmd[c])
  BY DEF ControlInv
<1>2. ASSUME cmd[c].pc = "drained"
      PROVE cmd[c].op \in Ops \cap Draining
  BY <1>1, <1>2 DEF Shape, Fits
<1>5. CASE OverrideContinues(c)
  <2>1. cmd[c].pc = "drained" /\ cmd[c].op = "override" /\ aborted' = aborted
    BY <1>5 DEF OverrideContinues, At
  <2>2. CASE Returns(c, FALSE, FALSE)
    BY <2>1, <2>2, Returned DEF Shape, Fits
  <2>3. CASE Await(c, "enqueue", "save", cmd[c].item) /\ worker' = worker
    BY <2>1, <2>3, Awaits DEF Shape, Fits
  <2>4. CASE Step(c, "save") /\ worker' = worker
    BY <1>2, <2>1, <2>4, Steps DEF Shape, Fits
  <2> QED
    BY <1>5, <2>2, <2>3, <2>4 DEF OverrideContinues
<1>6. CASE ConfirmContinues(c)
  <2>1. cmd[c].pc = "drained" /\ cmd[c].op = "confirm" /\ aborted' = aborted
    BY <1>6 DEF ConfirmContinues, At
  <2>2. CASE Returns(c, FALSE, TRUE)
    BY <2>1, <2>2, Returned DEF Shape, Fits
  <2>3. ASSUME NEW i \in Running(mem), Await(c, "confirm", "save", i), worker' = worker
        PROVE OthersWait(c) /\ Shape(cmd'[c]) /\ cmd'[c].pc = "save"
    BY <1>2, <2>1, <2>3, Awaits DEF Shape, Fits
  <2> QED
    BY <1>6, <2>1, <2>2, <2>3 DEF ConfirmContinues
<1>7. CASE NextContinues(c)
  <2>1. cmd[c].pc = "drained" /\ cmd[c].op = "next" /\ aborted' = aborted /\ worker' = worker
    BY <1>7 DEF NextContinues, At
  <2>2. ASSUME NEW pc, NEW i, pc \in {"interrupt", "interruptLatest"}, Await(c, "next", pc, i)
        PROVE OthersWait(c) /\ Shape(cmd'[c]) /\ cmd'[c].pc = pc
    BY <1>2, <2>1, <2>2, Awaits DEF Shape, Fits
  <2> QED
    BY <1>7, <2>1, <2>2 DEF NextContinues
<1>8. CASE ClearContinues(c)
  <2>1. /\ cmd[c].pc = "drained" /\ aborted' = aborted /\ worker' = worker
        /\ \/ cmd[c].op = "clear" /\ Step(c, "save")
           \/ cmd[c].op = "purge" /\ Step(c, "history")
    BY <1>8 DEF ClearContinues, At
  <2> QED
    BY <1>2, <2>1, Steps DEF Shape, Fits
<1>9. CASE RemoveRunningContinues(c)
  <2>1. /\ cmd[c].pc = "drained" /\ aborted' = aborted /\ worker' = worker
        /\ cmd[c].op = "removeRunning" /\ Step(c, "save")
    BY <1>9 DEF RemoveRunningContinues, At
  <2> QED
    BY <1>2, <2>1, Steps DEF Shape, Fits
<1> QED
  BY <1>5, <1>6, <1>7, <1>8, <1>9 DEF Resumed

\* What it does later: the removal of a running record may have to drain first.
LEMMA CommandControl ==
  ASSUME TypeOK, ControlInv, NEW c \in Slots, CommandStep(c)
  PROVE /\ OthersWait(c) /\ cmd[c].pc \notin {"none", "drain", "drained"}
        /\ Shape(cmd'[c]) /\ cmd'[c].pc \notin {"drained", "interrupt", "interruptLatest", "history"}
        /\ aborted' = (aborted \/ cmd'[c].pc = "drain")
        /\ worker' \in {worker, Worker("start", NoItem)}
        /\ cmd'[c].pc # "none" \/ worker.pc # "none" => worker' = worker
<1> DEFINE Good == /\ OthersWait(c) /\ Shape(cmd'[c])
                   /\ cmd'[c].pc \notin {"drained", "interrupt", "interruptLatest", "history"}
                   /\ worker' \in {worker, Worker("start", NoItem)}
                   /\ cmd'[c].pc # "none" \/ worker.pc # "none" => worker' = worker
<1>1. Shape(cmd[c]) /\ aborted \in BOOLEAN /\ "none" \notin Ops /\ "none" # "enqueue"
  BY ConstantsAssumption DEF TypeOK, ControlInv, Operation
<1>2. ASSUME NEW kicks, NEW monitors, Returns(c, kicks, monitors)
      PROVE Good /\ cmd'[c].pc = "none"
  BY <1>2, Returned DEF Shape, Fits
<1>3. ASSUME cmd[c].pc \in {"save", "reset"}
      PROVE cmd[c].op \in (Ops \cup {"enqueue"}) \ {"none", "stop"}
  BY <1>1, <1>3 DEF Shape, Fits
<1>4. CASE CommandSaves(c)
  <2>1. cmd[c].pc = "save" /\ aborted' = aborted
    BY <1>4 DEF CommandSaves
  <2>2. CASE Step(c, "reset") /\ worker' = worker
    BY <1>1, <1>3, <2>1, <2>2, Steps DEF Shape, Fits
  <2>3. CASE Step(c, "activity") /\ worker' = worker /\ cmd[c].op \in {"resume", "continue"}
    BY <1>1, <1>3, <2>1, <2>3, Steps DEF Shape, Fits
  <2>4. CASE \E kicks, monitors \in BOOLEAN : Returns(c, kicks, monitors)
    BY <1>1, <1>2, <2>1, <2>4
  <2>5. KicksAfterSave(c) \in BOOLEAN /\ (cmd[c].op \in Monitoring) \in BOOLEAN
    BY DEF KicksAfterSave
  <2> QED
    BY <1>4, <2>2, <2>3, <2>4, <2>5 DEF CommandSaves
<1>5. CASE CommandSavesReset(c) \/ CommandSaveFails(c)
  BY <1>1, <1>2, <1>5 DEF CommandSavesReset, CommandSaveFails
<1>6. CASE ReadsActivity(c)
  <2>1. cmd[c].pc = "activity" /\ aborted' = aborted
    BY <1>6 DEF ReadsActivity
  <2>2. cmd[c].op \in Ops \cap {"resume", "continue"}
    BY <1>1, <2>1 DEF Shape, Fits
  <2>3. ASSUME NEW i, Await(c, cmd[c].op, "send", i), worker' = worker
        PROVE Good /\ cmd'[c].pc = "send"
    BY <2>2, <2>3, Awaits DEF Shape, Fits
  <2>4. CASE Returns(c, TRUE, FALSE)
    BY <1>1, <1>2, <2>1, <2>4
  <2> QED
    BY <1>1, <1>6, <2>1, <2>3, <2>4 DEF ReadsActivity
<1>7. CASE Continues(c)
  <2>1. (cmd[c].op = "resume") \in BOOLEAN
    OBVIOUS
  <2> QED
    BY <1>1, <1>2, <1>7, <2>1 DEF Continues
<1>8. CASE RelaunchCancels(c)
  <2>1. cmd[c].pc = "cancel" /\ cmd[c].op = "relaunch" /\ aborted' = aborted
    BY <1>8 DEF RelaunchCancels, At
  <2>2. CASE Step(c, "newTask") /\ worker' = worker
    BY <1>1, <2>1, <2>2, Steps DEF Shape, Fits
  <2> QED
    BY <1>1, <1>2, <1>8, <2>1, <2>2 DEF RelaunchCancels
<1>9. CASE RelaunchSubmits(c)
  <2>1. cmd[c].pc = "newTask" /\ cmd[c].op = "relaunch" /\ aborted' = aborted
    BY <1>9 DEF RelaunchSubmits, At
  <2>2. CASE Step(c, "save") /\ worker' = worker
    BY <1>1, <2>1, <2>2, Steps DEF Shape, Fits
  <2> QED
    BY <1>1, <1>2, <1>9, <2>1, <2>2 DEF RelaunchSubmits
<1>10. CASE NextInterruptsLatest(c)
  <2>1. cmd[c].pc = "interruptLatest" /\ cmd[c].op = "next" /\ aborted' = aborted
    BY <1>10 DEF NextInterruptsLatest, At
  <2>2. CASE Await(c, "next", "save", NoItem) /\ worker' = worker
    BY <1>1, <2>1, <2>2, Awaits DEF Shape, Fits
  <2> QED
    BY <1>1, <1>2, <1>10, <2>1, <2>2 DEF NextInterruptsLatest
<1>11. CASE NextSkips(c)
  <2>1. cmd[c].pc = "interrupt" /\ cmd[c].op = "next" /\ aborted' = aborted
    BY <1>11 DEF NextSkips, At
  <2>2. CASE Step(c, "save") /\ worker' = worker
    BY <1>1, <2>1, <2>2, Steps DEF Shape, Fits
  <2> QED
    BY <1>1, <1>2, <1>11, <2>1, <2>2 DEF NextSkips
<1>12. CASE PurgesHistory(c)
  <2>1. cmd[c].pc = "history" /\ cmd[c].op = "purge" /\ aborted' = aborted
    BY <1>12 DEF PurgesHistory, At
  <2>2. CASE Step(c, "save") /\ worker' = worker
    BY <1>1, <2>1, <2>2, Steps DEF Shape, Fits
  <2> QED
    BY <1>1, <1>2, <1>12, <2>1, <2>2 DEF PurgesHistory
<1>13. CASE RemovalChecked(c)
  <2>1. cmd[c].pc = "status" /\ cmd[c].op = "removeRunning"
    BY <1>13 DEF RemovalChecked, At
  <2>2. CASE Returns(c, FALSE, FALSE) /\ aborted' = aborted
    BY <1>1, <1>2, <2>1, <2>2
  <2>3. CASE Step(c, "drain") /\ worker' = worker /\ aborted' = TRUE
    <3>1. OthersWait(c) /\ cmd'[c].pc = "drain" /\ cmd'[c].op = "removeRunning"
      BY <2>1, <2>3, Steps
    <3>2. "removeRunning" \in Ops
      BY <1>1, <2>1 DEF Shape, Fits
    <3> QED
      BY <2>1, <2>3, <3>1, <3>2 DEF Shape, Fits, Draining
  <2>4. CASE Step(c, "save") /\ worker' = worker /\ aborted' = aborted
    BY <1>1, <2>1, <2>4, Steps DEF Shape, Fits
  <2> QED
    BY <1>13, <2>2, <2>3, <2>4 DEF RemovalChecked
<1> QED
  BY <1>4, <1>5, <1>6, <1>7, <1>8, <1>9, <1>10, <1>11, <1>12, <1>13 DEF CommandStep

\* Every step keeps the commands in shape.
LEMMA NextControl == TypeOK /\ OrderInv /\ ControlInv /\ [Next]_vars => ControlInv'
<1> SUFFICES ASSUME TypeOK, OrderInv, ControlInv, [Next]_vars PROVE ControlInv'
  OBVIOUS
<1>1. cmd \in [Slots -> Command] /\ aborted \in BOOLEAN /\ HostDown
  BY DEF TypeOK, OrderInv
<1>2. CASE UNCHANGED <<cmd, aborted>> /\ (worker' = worker \/ ~Resuming)
  BY <1>2 DEF ControlInv, Resuming
<1>3. CASE ~Resuming /\ WorkerStep
  BY <1>2, <1>3
  DEF WorkerStep, WorkerStart, RecoverUnbound, RecoverBound, RecoverNone, WorkerLoop,
      WorkerDispatches, WorkerSubmits, MonitorAborts, MonitorAdopts, MonitorSeesDone,
      MonitorRetains, RetentionSent, RetentionFails, MonitorAccepts, MonitorFails,
      MonitorMissesThread, WorkerCleansUp, WorkerSaves, WorkerSavesPause, WorkerSaveFails,
      WorkerRetries, WorkerEnds, hostVars
<1>4. ASSUME NEW c \in Slots, ~Resuming, IssueStep(c) PROVE ControlInv'
  <2>1. /\ OthersWait(c) /\ cmd[c].pc = "none" /\ Shape(cmd'[c])
        /\ cmd'[c].pc \notin {"drained"}
        /\ aborted' = (aborted \/ cmd'[c].pc = "drain")
        /\ \A d \in Slots : cmd[d].pc # "drained"
    BY <1>4, IssueControl DEF Resuming, Idle
  <2> QED
    BY <1>1, <2>1 DEF ControlInv, OthersWait
<1>5. ASSUME NEW c \in Slots, ~Resuming, CommandStep(c) PROVE ControlInv'
  BY <1>1, <1>5, CommandControl DEF ControlInv, OthersWait, Resuming
<1>6. ASSUME NEW c \in Slots, Resumed(c), ~StopContinues(c) PROVE ControlInv'
  BY <1>1, <1>6, ResumedControl DEF ControlInv, OthersWait
<1>7. CASE HostEnds
  BY <1>7, IdleShape DEF HostEnds, ControlInv, Idle
<1>8. CASE Start
  BY <1>8, <1>1, IdleShape DEF Start, HostDown, ControlInv, Idle
<1>9. CASE Drained
  <2>1. \A c \in Slots : cmd[c].pc # "drain" => cmd'[c] = cmd[c]
    BY <1>1, <1>9 DEF Drained
  <2>2. \A c \in Slots : cmd[c].pc = "drain" => cmd'[c].pc = "drained" /\ cmd'[c].op = cmd[c].op
    BY <1>1, <1>9 DEF Drained, Command
  <2>3. \A c \in Slots : Shape(cmd'[c])
    BY <2>1, <2>2 DEF ControlInv, Shape, Fits
  <2>4. \A c \in Slots : cmd'[c].pc # "drain"
    BY <2>1, <2>2
  <2> QED
    BY <1>9, <2>3, <2>4 DEF Drained, DrainCompleted, ControlInv
<1>10. CASE PolicyStops \/ ClineStops \/ UserResumes \/ UserDeletes \/ UNCHANGED vars
  BY <1>2, <1>10 DEF PolicyStops, ClineStops, UserResumes, UserDeletes, vars, hostVars
<1> QED
  BY <1>3, <1>4, <1>5, <1>6, <1>7, <1>8, <1>9, <1>10 DEF Next, Crash, StopContinues

\* It holds in every run.
LEMMA ControlAlways == Spec => []ControlInv
<1>1. Init => ControlInv
  BY IdleShape DEF Init, ControlInv, Idle
<1> QED
  BY <1>1, NextControl, TypeCorrect, OrderAlways, PTL DEF Spec

------------------------------------------------------------------------------
(* The item the worker holds.                                               *)

\* `next` and the forced clear await Cline and the history after the drain, with no
\* worker there; a second command that starts one meanwhile makes them end the item
\* under it.  Where commands are issued one by one, or without these two, that
\* overlap cannot come about.
Undisturbed == (\A c, d \in Slots : c = d) \/ Ops \cap {"next", "purge"} = {}

\* Where the worker holds the record it has marked running.
HeldPC ==
  {"dispatchSave", "dispatch", "monitor", "adoptSave", "retainSave", "retainSend", "pauseSave"}

Awaiting(c) == cmd[c].pc \in {"interrupt", "interruptLatest", "history"}

HeldInv ==
  /\ \A c \in Slots : Awaiting(c) => worker.pc = "none"
  /\ \A c \in Slots : cmd[c].pc = "interrupt" => cmd[c].item \in Running(mem)
  /\ worker.pc \in HeldPC => worker.item \in Running(mem)

RunningKept == Running(mem) \subseteq Running(mem')

\* A command that awaits is alone, or waits for no Cline.
LEMMA AwaitsAlone ==
  ASSUME Undisturbed, ControlInv, NEW c \in Slots, NEW d \in Slots, Awaiting(c)
  PROVE c = d
<1>1. cmd[c].op \in Ops \cap {"next", "purge"}
  BY DEF ControlInv, Shape, Fits, Awaiting
<1> QED
  BY <1>1 DEF Undisturbed

\* Records that only change their flags keep the running one.
LEMMA AlikeKept ==
  ASSUME Alike(mem, mem')
  PROVE RunningKept
  BY DEF Alike, RunningKept, Running, InState

\* The worker holds, on, what it has marked running, until it ends or leaves it.
LEMMA WorkerHeld ==
  ASSUME TypeOK, WorkerStep, worker'.pc \in HeldPC
  PROVE \/ worker.pc \in HeldPC /\ worker'.item = worker.item /\ mem'.state = mem.state
        \/ worker'.item \in Running(mem')
<1>1. mem \in Data /\ worker \in WorkerRecord
  BY DEF TypeOK
<1>2. /\ \A pc : Goto(pc) => worker'.pc = pc /\ worker'.item = worker.item
      /\ \A pc, i : Hold(pc, i) => worker'.pc = pc /\ worker'.item = i
      /\ Exit => worker'.pc \notin HeldPC
      /\ worker' = AfterExit(mem) => worker'.pc \notin HeldPC
  BY <1>1, WorkerItems, GotoPC, HoldPC, ExitPC DEF HeldPC
<1>3. CatchesError => worker'.pc \notin HeldPC
  BY <1>2 DEF CatchesError, HeldPC
<1>4. \A S : Ends("completed", "doneSave", S) => worker'.pc \notin HeldPC
  BY <1>2, <1>3 DEF Ends, HeldPC
<1>5. \A S : Ends("completed", "cleanup", S) => worker'.pc \notin HeldPC
  BY <1>2, <1>3 DEF Ends, HeldPC
<1>6. \A S : Ends("failed", "finalSave", S) \/ Ends("failed", "doneSave", S) => worker'.pc \notin HeldPC
  BY <1>2, <1>3 DEF Ends, HeldPC
<1>7. CASE WorkerStart
  BY <1>2, <1>7 DEF WorkerStart, HeldPC
<1>8. CASE RecoverUnbound \/ RecoverBound \/ RecoverNone
  BY <1>2, <1>8 DEF RecoverUnbound, RecoverBound, RecoverNone, HeldPC
<1>9. CASE WorkerLoop
  BY <1>2, <1>9 DEF WorkerLoop, HeldPC
<1>10. CASE WorkerDispatches
  <2>1. CASE Exit \/ Goto("loop")
    BY <1>2, <2>1 DEF HeldPC
  <2>2. CASE /\ worker.item \in Queued(mem) /\ Goto("dispatchSave")
             /\ mem' = NoneExempt(Moved(mem, worker.item, "running"))
    <3>1. worker.item \in Item /\ mem'.state[worker.item] = "running"
      BY <1>1, <2>2 DEF Queued, InState, Moved, NoneExempt, Data
    <3> QED
      BY <1>2, <2>2, <3>1 DEF Running, InState
  <2> QED
    BY <1>10, <2>1, <2>2 DEF WorkerDispatches
<1>11. CASE WorkerSubmits
  BY <1>2, <1>11 DEF WorkerSubmits, WorkerAt, HeldPC
<1>12. CASE MonitorAborts \/ RetentionSent \/ RetentionFails \/ WorkerCleansUp
  BY <1>2, <1>3, <1>12
  DEF MonitorAborts, RetentionSent, RetentionFails, WorkerCleansUp, HeldPC
<1>13. CASE MonitorAdopts
  BY <1>1, <1>2, <1>13, FlagsAlike
  DEF Alike, MonitorAdopts, Watching, WorkerAt, HeldPC
<1>14. CASE MonitorRetains
  BY <1>2, <1>14 DEF MonitorRetains, Watching, WorkerAt, HeldPC
<1>15. CASE MonitorSeesDone
  BY <1>4, <1>15 DEF MonitorSeesDone
<1>16. CASE MonitorAccepts
  BY <1>5, <1>16 DEF MonitorAccepts
<1>17. CASE MonitorFails
  BY <1>6, <1>17 DEF MonitorFails
<1>18. CASE MonitorMissesThread
  BY <1>1, <1>2, <1>18, FlagsAlike
  DEF Alike, MonitorMissesThread, Watching, WorkerAt, HeldPC
<1>19. CASE WorkerSaves
  <2>1. CASE Goto("resetSave")
    BY <1>2, <2>1 DEF HeldPC
  <2>2. CASE Goto(AfterSave[worker.pc]) /\ UNCHANGED mem
    <3>1. worker'.pc = AfterSave[worker.pc] /\ worker'.item = worker.item
      BY <1>2, <2>2
    <3>2. worker.pc \in DOMAIN AfterSave
      BY <1>19 DEF WorkerSaves
    <3>3. AfterSave[worker.pc] \in HeldPC => worker.pc \in HeldPC
      BY <3>2 DEF AfterSave, HeldPC
    <3> QED
      BY <2>2, <3>1, <3>3
  <2> QED
    BY <1>19, <2>1, <2>2 DEF WorkerSaves
<1>20. CASE WorkerSavesPause \/ WorkerSaveFails \/ WorkerRetries \/ WorkerEnds
  BY <1>2, <1>3, <1>20 DEF WorkerSavesPause, WorkerSaveFails, WorkerRetries, WorkerEnds, HeldPC
<1> QED
  BY <1>7, <1>8, <1>9, <1>10, <1>11, <1>12, <1>13, <1>14, <1>15, <1>16, <1>17, <1>18,
     <1>19, <1>20 DEF WorkerStep

\* The issue of a command leaves the running record alone.
LEMMA IssueKept ==
  ASSUME TypeOK, OrderInv, NEW c \in Slots, IssueStep(c)
  PROVE RunningKept
<1>1. Ids(mem) \subseteq 1..created /\ Listed(mem)
  BY DEF OrderInv, InOrder, FreshIds
<1>2. \A i : Adds(mem, mem', i) => RunningKept
  BY <1>1 DEF Adds, RunningKept, Running, InState, Listed
<1> QED
  BY <1>1, <1>2, IssueEffects DEF Keeps, SameBut, Drops, RunningKept, Running, InState

\* So does what follows it, but for `next` and the forced clear after their await.
LEMMA CommandKept ==
  ASSUME TypeOK, NEW c \in Slots, CommandStep(c), cmd[c].pc \notin {"interrupt", "history"}
  PROVE RunningKept
<1>1. mem \in Data
  BY DEF TypeOK
<1>2. ASSUME UNCHANGED mem PROVE RunningKept
  BY <1>2 DEF RunningKept
<1>3. CASE CommandSaves(c)
  BY <1>1, <1>2, <1>3, FlagsAlike, AlikeKept DEF CommandSaves
<1>4. CASE \/ CommandSavesReset(c) \/ CommandSaveFails(c) \/ ReadsActivity(c)
           \/ Continues(c) \/ RelaunchCancels(c)
  BY <1>2, <1>4
  DEF CommandSavesReset, CommandSaveFails, ReadsActivity, Continues, RelaunchCancels
<1>5. CASE RelaunchSubmits(c)
  BY <1>1, <1>2, <1>5, FlagsAlike, AlikeKept DEF RelaunchSubmits
<1>6. CASE NextInterruptsLatest(c)
  <2>1. latest # NoItem => {latest} \in SUBSET Item
    BY DEF TypeOK
  <2>2. UNCHANGED mem \/ \E S \in SUBSET Item : mem' = Pausing(Exempting(mem, S), FALSE)
    BY <1>6, <2>1 DEF NextInterruptsLatest
  <2> QED
    BY <1>1, <1>2, <2>2, UnpausedAlike, AlikeKept
<1>7. ~NextSkips(c) /\ ~PurgesHistory(c)
  BY DEF NextSkips, PurgesHistory, At
<1>8. CASE RemovalChecked(c)
  <2>1. UNCHANGED mem \/ \E l : cmd[c].item \notin Running(mem) /\ mem' = Removing(mem, cmd[c].item, l)
    BY <1>8 DEF RemovalChecked
  <2>2. ASSUME NEW i, NEW l, i \notin Running(mem), mem' = Removing(mem, i, l) PROVE RunningKept
    <3>1. \A j \in Item : mem'.state[j] = IF j = i THEN "absent" ELSE mem.state[j]
      BY <1>1, <2>2 DEF Removing, Without, Data
    <3> QED
      BY <2>2, <3>1 DEF RunningKept, Running, InState
  <2> QED
    BY <1>2, <2>1, <2>2
<1> QED
  BY <1>3, <1>4, <1>5, <1>6, <1>7, <1>8 DEF CommandStep

\* `next` takes the running record right after the drain.
LEMMA InterruptsRunning ==
  ASSUME TypeOK, NEW c \in Slots, Resumed(c), ~StopContinues(c), cmd'[c].pc = "interrupt"
  PROVE mem' = mem /\ cmd'[c].item \in Running(mem)
<1>1. \A op, i : ~Await(c, op, "save", i) /\ ~Await(c, op, "interruptLatest", i)
  BY Awaits
<1>2. ~Step(c, "save") /\ ~Step(c, "history")
  BY Steps
<1>3. ~Returns(c, FALSE, FALSE) /\ ~Returns(c, FALSE, TRUE)
  BY Returned
<1>4. NextContinues(c)
  BY <1>1, <1>2, <1>3
  DEF Resumed, OverrideContinues, ConfirmContinues, ClearContinues, RemoveRunningContinues
<1>5. PICK i \in Running(mem) : Await(c, "next", "interrupt", i)
  BY <1>1, <1>4 DEF NextContinues
<1> QED
  BY <1>4, <1>5 DEF NextContinues, Await, TypeOK

\* No command in another slot awaits while one of them takes a step that awaits.
LEMMA NextHeld ==
  ASSUME Undisturbed
  PROVE TypeOK /\ OrderInv /\ ControlInv /\ HeldInv /\ [Next]_vars => HeldInv'
<1> SUFFICES ASSUME TypeOK, OrderInv, ControlInv, HeldInv, [Next]_vars PROVE HeldInv'
  OBVIOUS
<1>1. CASE UNCHANGED <<mem, worker, cmd>>
  BY <1>1 DEF HeldInv, Awaiting
<1>2. CASE WorkerStep
  <2>1. worker.pc # "none" /\ UNCHANGED cmd
    BY <1>2
    DEF WorkerStep, WorkerStart, RecoverUnbound, RecoverBound, RecoverNone, WorkerLoop,
        WorkerDispatches, WorkerSubmits, MonitorAborts, MonitorAdopts, MonitorSeesDone,
        MonitorRetains, RetentionSent, RetentionFails, MonitorAccepts, MonitorFails,
        MonitorMissesThread, WorkerCleansUp, WorkerSaves, WorkerSavesPause, WorkerSaveFails,
        WorkerRetries, WorkerEnds, WorkerAt, Watching, AfterSave, SavePC, hostVars
  <2>2. \A c \in Slots : ~Awaiting(c)
    BY <2>1 DEF HeldInv
  <2> QED
    BY <1>2, <2>1, <2>2, WorkerHeld DEF HeldInv, Awaiting, Running, InState
<1>3. ASSUME NEW c \in Slots, IssueStep(c) PROVE HeldInv'
  <2>1. /\ OthersWait(c) /\ cmd[c] = Idle /\ worker' = worker /\ RunningKept
        /\ cmd'[c].pc \in {"save", "drain", "status", "cancel", "newTask"}
    BY <1>3, IssueControl, IssueKept
  <2> QED
    BY <2>1 DEF HeldInv, Awaiting, OthersWait, RunningKept
<1>4. ASSUME NEW c \in Slots, CommandStep(c) PROVE HeldInv'
  <2>1. /\ OthersWait(c) /\ ~Awaiting(c)' /\ worker' \in {worker, Worker("start", NoItem)}
    BY <1>4, CommandControl DEF Awaiting
  <2>2. CASE cmd[c].pc \in {"interrupt", "history"}
    <3>1. worker.pc = "none" /\ \A d \in Slots \ {c} : ~Awaiting(d)
      BY <2>2, AwaitsAlone DEF Awaiting, HeldInv
    <3>2. worker'.pc \notin HeldPC
      BY <2>1, <3>1 DEF Worker, HeldPC
    <3> QED
      BY <2>1, <3>1, <3>2 DEF HeldInv, Awaiting, OthersWait
  <2>3. CASE cmd[c].pc \notin {"interrupt", "history"}
    <3>1. RunningKept
      BY <1>4, <2>3, CommandKept
    <3>2. CASE worker' = worker
      BY <2>1, <3>1, <3>2 DEF HeldInv, Awaiting, OthersWait, RunningKept
    <3>3. CASE worker' = Worker("start", NoItem)
      <4>1. \A d \in Slots : ~Awaiting(d)'
        BY <2>1, AwaitsAlone DEF OthersWait, Awaiting
      <4> QED
        BY <3>3, <4>1 DEF HeldInv, HeldPC, Awaiting, Worker
    <3> QED
      BY <2>1, <3>2, <3>3
  <2> QED
    BY <2>2, <2>3
<1>5. ASSUME NEW c \in Slots, Resumed(c), ~StopContinues(c) PROVE HeldInv'
  <2>1. OthersWait(c) /\ cmd[c].pc = "drained" /\ worker' = worker /\ worker.pc = "none"
    BY <1>5, ResumedControl DEF ControlInv
  <2>2. \A d \in Slots : Awaiting(d) => d = c
    BY AwaitsAlone
  <2>3. cmd'[c].pc = "interrupt" => cmd'[c].item \in Running(mem)'
    BY <1>5, InterruptsRunning
  <2>4. \A d \in Slots : cmd'[d].pc = "interrupt" => d = c
    BY <2>1, <2>2 DEF OthersWait, Awaiting
  <2> QED
    BY <2>1, <2>3, <2>4 DEF HeldInv, HeldPC
<1>6. CASE HostEnds
  BY <1>6 DEF HostEnds, HeldInv, HeldPC, Awaiting, NoWorker, Idle
<1>7. CASE Start
  BY <1>7 DEF Start, HeldInv, HeldPC, Awaiting, Worker, OrderInv, HostDown, Idle
<1>8. CASE Drained
  <2>1. \A c \in Slots : Awaiting(c)' => cmd'[c] = cmd[c]
    BY <1>8 DEF Drained, Awaiting, TypeOK, Command
  <2> QED
    BY <1>8, <2>1 DEF Drained, HeldInv, Awaiting
<1>9. CASE PolicyStops \/ ClineStops \/ UserResumes \/ UserDeletes
  BY <1>1, <1>9 DEF PolicyStops, ClineStops, UserResumes, UserDeletes, hostVars
<1> QED
  BY <1>1, <1>2, <1>3, <1>4, <1>5, <1>6, <1>7, <1>8, <1>9 DEF Next, Crash, StopContinues, vars

\* The item the worker waits on is the running record of the queue.
THEOREM MonitoredRuns == ASSUME Undisturbed PROVE Spec => []MonitoredItemRunning
<1>1. Init => HeldInv
  BY DEF Init, HeldInv, HeldPC, Awaiting, Idle, NoWorker
<1>2. TypeOK /\ OrderInv /\ ControlInv /\ HeldInv /\ [Next]_vars => HeldInv'
  BY NextHeld
<1>3. HeldInv => MonitoredItemRunning
  BY DEF HeldInv, HeldPC, MonitoredItemRunning
<1> QED
  BY <1>1, <1>2, <1>3, TypeCorrect, OrderAlways, ControlAlways, PTL DEF Spec

------------------------------------------------------------------------------
(* Submissions: what the file says before a prompt goes to Cline.           *)

\* While the worker is about to submit, a crash would find its record running.
SavedInv == worker.pc = "dispatch" => file.state[worker.item] = "running"

LEMMA ThreadsStarts ==
  ASSUME TypeOK
  PROVE /\ \A i : ContinueThread(i) => starts' = starts
        /\ Interrupts => starts' = starts
        /\ UNCHANGED clineVars => starts' = starts
        /\ \A i \in Item : StartThread(i) => \A j \in Item : j # i => starts'[j] = starts[j]
  BY DEF TypeOK, ContinueThread, Interrupts, clineVars, StartThread

\* The worker writes before it is about to submit, and then holds the same record.
LEMMA AboutToSubmit ==
  ASSUME TypeOK, WorkerStep, worker'.pc = "dispatch"
  PROVE worker.pc = "dispatchSave" /\ worker'.item = worker.item /\ file' = mem
<1>1. worker \in WorkerRecord
  BY DEF TypeOK
<1>2. /\ \A pc : Goto(pc) => pc = "dispatch" /\ worker'.item = worker.item
      /\ \A pc, i : Hold(pc, i) => pc = "dispatch"
      /\ ~Exit /\ worker' # AfterExit(mem)
  BY <1>1, WorkerItems, GotoPC, HoldPC, ExitPC
<1>3. ~CatchesError
  BY <1>2 DEF CatchesError
<1>4. \A S, next, pc : pc # "dispatch" => ~Ends(next, pc, S)
  BY <1>2, <1>3 DEF Ends
<1>5. ~WorkerStart /\ ~RecoverUnbound /\ ~RecoverBound /\ ~RecoverNone
  BY <1>2 DEF WorkerStart, RecoverUnbound, RecoverBound, RecoverNone
<1>6. ~WorkerLoop /\ ~WorkerDispatches /\ ~WorkerSubmits
  BY <1>2 DEF WorkerLoop, WorkerDispatches, WorkerSubmits
<1>7. ~MonitorAborts /\ ~MonitorAdopts /\ ~MonitorSeesDone /\ ~MonitorRetains
  BY <1>2, <1>4 DEF MonitorAborts, MonitorAdopts, MonitorSeesDone, MonitorRetains
<1>8. ~RetentionSent /\ ~RetentionFails /\ ~MonitorAccepts /\ ~MonitorFails /\ ~MonitorMissesThread
  <2>1. ~RetentionSent
    BY <1>2 DEF RetentionSent
  <2>2. ~RetentionFails
    BY <1>3 DEF RetentionFails
  <2>3. ~MonitorAccepts
    BY <1>4 DEF MonitorAccepts
  <2>4. ~MonitorFails
    BY <1>4 DEF MonitorFails
  <2>5. ~MonitorMissesThread
    BY <1>2 DEF MonitorMissesThread, Pausing
  <2> QED
    BY <2>1, <2>2, <2>3, <2>4, <2>5
<1>9. ~WorkerCleansUp /\ ~WorkerSavesPause /\ ~WorkerSaveFails /\ ~WorkerRetries /\ ~WorkerEnds
  BY <1>2, <1>3 DEF WorkerCleansUp, WorkerSavesPause, WorkerSaveFails, WorkerRetries, WorkerEnds
<1>10. WorkerSaves
  BY <1>5, <1>6, <1>7, <1>8, <1>9 DEF WorkerStep
<1>11. Goto(AfterSave[worker.pc]) /\ AfterSave[worker.pc] = "dispatch" /\ worker.pc \in DOMAIN AfterSave
  BY <1>2, <1>10 DEF WorkerSaves
<1>12. worker.pc = "dispatchSave"
  BY <1>11 DEF AfterSave
<1> QED
  BY <1>2, <1>10, <1>11, <1>12 DEF WorkerSaves

\* Whose prompt a step submits: that of the record the worker dispatches, or the
\* one that is launched again.
LEMMA Submitting ==
  ASSUME TypeOK, ControlInv, [Next]_vars, NEW i \in Item, starts'[i] > starts[i]
  PROVE \/ WorkerSubmits /\ worker.pc = "dispatch" /\ worker.item = i /\ i \notin Messages
        \/ "relaunch" \in Ops
<1>1. starts' # starts /\ starts \in [Item -> Nat]
  BY DEF TypeOK
<1>2. CASE WorkerSubmits
  <2>1. worker.pc = "dispatch" /\ worker.item \in Item
    BY <1>2, WorkerHolds DEF WorkerSubmits, WorkerAt, TypeOK
  <2>2. worker.item \notin Messages /\ StartThread(worker.item)
    BY <1>1, <1>2, ThreadsStarts DEF WorkerSubmits
  <2>3. worker.item = i
    BY <1>1, <2>1, <2>2, ThreadsStarts
  <2> QED
    BY <1>2, <2>1, <2>2, <2>3
<1>3. ~WorkerStep \/ WorkerSubmits
  BY <1>1, ThreadsStarts
  DEF WorkerStep, WorkerStart, RecoverUnbound, RecoverBound, RecoverNone, WorkerLoop,
      WorkerDispatches, MonitorAborts, MonitorAdopts, MonitorSeesDone,
      MonitorRetains, RetentionSent, RetentionFails, MonitorAccepts, MonitorFails,
      MonitorMissesThread, WorkerCleansUp, WorkerSaves, WorkerSavesPause, WorkerSaveFails,
      WorkerRetries, WorkerEnds
<1>4. \A c \in Slots : ~IssueStep(c)
  BY <1>1, ThreadsStarts
  DEF IssueStep, Enqueue, EnqueueMessage, Replace, CleanFinished, Trim, RemoveWaiting,
      SkipWaitingTask, Pause, Unpause, Relaunch, RemoveRunning, Drain
<1>5. \A c \in Slots : ~Resumed(c)
  BY <1>1, ThreadsStarts
  DEF Resumed, OverrideContinues, ConfirmContinues, NextContinues, ClearContinues,
      RemoveRunningContinues, StopContinues, HostEnds
<1>6. ASSUME NEW c \in Slots, CommandStep(c) PROVE "relaunch" \in Ops
  <2>1. RelaunchSubmits(c)
    BY <1>1, <1>6, ThreadsStarts
    DEF CommandStep, CommandSaves, CommandSavesReset, CommandSaveFails, ReadsActivity,
        Continues, RelaunchCancels, NextInterruptsLatest, NextSkips, PurgesHistory,
        RemovalChecked
  <2> QED
    BY <2>1 DEF RelaunchSubmits, At, ControlInv, Shape, Fits
<1>7. ~Crash /\ ~Start /\ ~Drained /\ ~PolicyStops /\ ~ClineStops /\ ~UserResumes /\ ~UserDeletes
  BY <1>1, ThreadsStarts
  DEF Crash, HostEnds, Start, Drained, PolicyStops, ClineStops, UserResumes, UserDeletes
<1>8. ~UNCHANGED vars
  BY <1>1 DEF vars
<1> QED
  BY <1>2, <1>3, <1>4, <1>5, <1>6, <1>7, <1>8 DEF Next

\* Nothing takes the mark out of the file while the worker is about to submit.
LEMMA NextSaved ==
  TypeOK /\ ControlInv /\ HeldInv /\ SavedInv /\ [Next]_vars => SavedInv'
<1> SUFFICES ASSUME TypeOK, ControlInv, HeldInv, SavedInv, [Next]_vars PROVE SavedInv'
  OBVIOUS
<1>1. ASSUME worker'.pc = "dispatch" => worker' = worker, file' \in {file, mem} PROVE SavedInv'
  <2>1. worker.pc = "dispatch" => mem.state[worker.item] = "running"
    BY DEF HeldInv, HeldPC, Running, InState
  <2> QED
    BY <1>1, <2>1 DEF SavedInv
<1>2. CASE WorkerStep
  <2> SUFFICES ASSUME worker'.pc = "dispatch" PROVE file'.state[worker'.item] = "running"
    BY DEF SavedInv
  <2> QED
    BY <1>2, AboutToSubmit DEF HeldInv, HeldPC, Running, InState
<1>3. ASSUME NEW c \in Slots, IssueStep(c) PROVE SavedInv'
  BY <1>1, <1>3, IssueMoves
<1>4. ASSUME NEW c \in Slots, CommandStep(c) PROVE SavedInv'
  <2>1. file' \in {file, mem} /\ worker' \in {worker, Worker("start", NoItem)}
    BY <1>4, CommandMoves, CommandControl
  <2> QED
    BY <1>1, <2>1 DEF Worker
<1>5. ASSUME NEW c \in Slots, Resumed(c), ~StopContinues(c) PROVE SavedInv'
  <2>1. file' = file /\ worker' = worker
    BY <1>5, ResumedMoves, ResumedControl
  <2> QED
    BY <1>1, <2>1
<1>6. CASE HostEnds \/ Start
  BY <1>1, <1>6 DEF HostEnds, Start, NoWorker, Worker, SavedInv
<1>7. CASE Drained \/ PolicyStops \/ ClineStops \/ UserResumes \/ UserDeletes \/ UNCHANGED vars
  BY <1>1, <1>7 DEF Drained, PolicyStops, ClineStops, UserResumes, UserDeletes, hostVars, vars
<1> QED
  BY <1>2, <1>3, <1>4, <1>5, <1>6, <1>7 DEF Next, Crash, StopContinues

\* A prompt goes to Cline only after the file says its record runs.
THEOREM SavedBeforeSubmitted ==
  ASSUME Undisturbed, "relaunch" \notin Ops
  PROVE Spec => PersistBeforeDispatch
<1>1. Init => HeldInv /\ SavedInv
  BY DEF Init, HeldInv, HeldPC, Awaiting, Idle, NoWorker, SavedInv
<1>2. TypeOK /\ OrderInv /\ ControlInv /\ HeldInv /\ [Next]_vars => HeldInv'
  BY NextHeld
<1>3. TypeOK /\ ControlInv /\ HeldInv /\ SavedInv /\ [Next]_vars => SavedInv'
  BY NextSaved
<1>4. TypeOK /\ ControlInv /\ SavedInv /\ [Next]_vars
      => [\A i \in Item : starts'[i] > starts[i] => file.state[i] = "running"]_vars
  BY Submitting DEF SavedInv
<1> QED
  BY <1>1, <1>2, <1>3, <1>4, TypeCorrect, OrderAlways, ControlAlways, PTL
  DEF Spec, PersistBeforeDispatch

------------------------------------------------------------------------------
(* Sessions: a task with one is never a waiting task again.                 *)

\* No task that waits has a session; a session belongs to a record there was.
UnboundQueue(m) == (Queued(m) \ Messages) \cap m.bound = {} /\ m.bound \subseteq Ids(m)

UnboundInv ==
  /\ UnboundQueue(mem) /\ UnboundQueue(file)
  /\ worker.pc \in {"recoverIdle", "dispatchSave", "dispatch"} /\ worker.item \notin Messages
     => worker.item \notin mem.bound
  /\ worker.pc \in HeldPC => worker.item \notin Queued(mem)

\* Only the monitor and a relaunch bind records.
LEMMA FlagsBound ==
  ASSUME NEW m \in Data
  PROVE /\ \A b : Pausing(m, b).bound = m.bound
        /\ \A S : Exempting(m, S).bound = m.bound
        /\ \A S : Without(m, S).bound = m.bound
        /\ \A i : Appended(m, i).bound = m.bound
        /\ \A i : PutFirst(m, i).bound = m.bound
        /\ \A i, s : Moved(m, i, s).bound = m.bound
        /\ \A i : Completed(m, i).bound = m.bound
        /\ \A i, l : Removing(m, i, l).bound = m.bound
        /\ NoneExempt(m).bound = m.bound
        /\ ForgettingLast(m).bound = m.bound
        /\ Emptied(m).bound = m.bound
  BY DEF Data, Pausing, Exempting, Without, Appended, PutFirst, Moved, Completed, Removing,
         NoneExempt, ForgettingLast, Emptied

\* Records keep their sessions in every step but these two.
BoundKept == mem'.bound = mem.bound

\* No record becomes a waiting one.
NoneQueued(m, n) == n.order = m.order /\ Queued(n) \subseteq Queued(m)

LEMMA LosesQueuesNone ==
  ASSUME NEW m, NEW n
  PROVE (Loses(m, n) => NoneQueued(m, n)) /\ (Alike(m, n) => NoneQueued(m, n))
  BY DEF Loses, Alike, NoneQueued, Keeps, Drops, DropsRunning, DropsAll, Finishes, SameBut,
         Queued, InState, Running, TerminalState

LEMMA UnboundKept ==
  ASSUME TypeOK, UnboundInv, BoundKept, NoneQueued(mem, mem')
  PROVE UnboundQueue(mem')
  BY DEF UnboundInv, UnboundQueue, BoundKept, NoneQueued, Ids

\* A new record has no session.
LEMMA AddedUnbound ==
  ASSUME TypeOK, UnboundInv, BoundKept, NEW i \in Item,
         Adds(mem, mem', i) \/ Forces(mem, mem', i)
  PROVE UnboundQueue(mem')
<1>1. i \notin Ids(mem) /\ Queued(mem') \subseteq Queued(mem) \cup {i}
  BY DEF Adds, Forces, SameBut, Queued, InState, Running, TerminalState
<1>2. Ids(mem) \subseteq Ids(mem')
  <2>1. mem \in Data
    BY DEF TypeOK
  <2>2. CASE Adds(mem, mem', i)
    BY <1>1, <2>1, <2>2, AppendedBefore DEF Adds
  <2>3. CASE Forces(mem, mem', i)
    BY <1>1, <2>1, <2>3, PrependedBefore DEF Forces
  <2> QED
    BY <2>2, <2>3
<1>3. i \notin mem.bound
  BY <1>1 DEF UnboundInv, UnboundQueue
<1> QED
  BY <1>1, <1>2, <1>3 DEF UnboundInv, UnboundQueue, BoundKept

\* The worker puts back only a record without a session, and binds the one it holds.
LEMMA WorkerBinds ==
  ASSUME TypeOK, OrderInv, UnboundInv, WorkerStep
  PROVE /\ UnboundQueue(mem')
        /\ BoundKept \/ MonitorAdopts
<1>1. mem \in Data /\ worker \in WorkerRecord
  BY DEF TypeOK
<1>2. ASSUME WorkerDispatches PROVE BoundKept /\ NoneQueued(mem, mem')
  <2>1. UNCHANGED mem \/ mem' = NoneExempt(Moved(mem, worker.item, "running"))
    BY <1>2 DEF WorkerDispatches
  <2>2. Moved(mem, worker.item, "running") \in Data
    BY <1>1, MovedType DEF PersistentQueueState
  <2>3. BoundKept
    BY <1>1, <2>1, <2>2, FlagsBound DEF BoundKept
  <2>4. NoneQueued(mem, Moved(mem, worker.item, "running"))
    BY <1>1 DEF NoneQueued, Moved, Data, Queued, InState
  <2>5. Alike(Moved(mem, worker.item, "running"), NoneExempt(Moved(mem, worker.item, "running")))
    BY <2>2, FlagsAlike
  <2> QED
    BY <2>1, <2>3, <2>4, <2>5 DEF NoneQueued, Alike, Queued, InState
<1>3. ASSUME RecoverUnbound PROVE BoundKept /\ UnboundQueue(mem')
  <2>1. worker.pc = "recoverIdle" /\ worker.item \in Item
    BY <1>1, <1>3, WorkerHolds DEF RecoverUnbound, WorkerAt
  <2>2. UNCHANGED mem \/ mem' = Moved(mem, worker.item, "queued")
    BY <1>3 DEF RecoverUnbound
  <2>3. BoundKept
    BY <1>1, <2>2, FlagsBound DEF BoundKept
  <2>4. mem'.order = mem.order /\ Queued(mem') \subseteq Queued(mem) \cup {worker.item}
    BY <1>1, <2>2 DEF Moved, Data, Queued, InState
  <2>5. worker.item \in Messages \/ worker.item \notin mem.bound
    BY <2>1 DEF UnboundInv
  <2> QED
    BY <2>3, <2>4, <2>5 DEF UnboundInv, UnboundQueue, BoundKept, Ids
<1>4. ASSUME MonitorAdopts PROVE UnboundQueue(mem')
  <2>1. worker.pc \in HeldPC /\ mem' = Binding(mem, worker.item)
    BY <1>4 DEF MonitorAdopts, Watching, WorkerAt, HeldPC
  <2>2. worker.item \notin Queued(mem) /\ worker.item \in Ids(mem)
    BY <1>1, <1>4, <2>1, WorkerHolds
    DEF UnboundInv, OrderInv, FreshIds, MonitorAdopts, Watching, WorkerAt, NoItem, Item
  <2>3. Alike(mem, mem') /\ mem'.bound = mem.bound \cup {worker.item}
    BY <1>1, <2>1, FlagsAlike DEF Binding, Data
  <2> QED
    BY <2>2, <2>3 DEF UnboundInv, UnboundQueue, Alike, Ids, Queued, InState
<1>5. ASSUME ~WorkerDispatches, ~RecoverUnbound PROVE NoneQueued(mem, mem')
  BY <1>5, WorkerEffects, LosesQueuesNone DEF WorkerEffect, Loses
<1>6. ASSUME ~WorkerDispatches, ~RecoverUnbound, ~MonitorAdopts PROVE BoundKept
  <2>1. /\ UNCHANGED mem => BoundKept
        /\ mem' = NoneExempt(mem) => BoundKept
        /\ mem' = Pausing(mem, TRUE) => BoundKept
        /\ mem' = Moved(mem, worker.item, "failed") => BoundKept
    BY <1>1 DEF BoundKept, NoneExempt, Pausing, Moved, Data
  <2>2. CatchesError => BoundKept
    BY <2>1 DEF CatchesError
  <2>3. ASSUME NEW next \in TerminalState, NEW pc, NEW S, WorkerAt("monitor"), Ends(next, pc, S)
        PROVE BoundKept
    <3> DEFINE m == IF next = "completed" THEN Completed(mem, worker.item)
                                          ELSE Moved(mem, worker.item, next)
    <3>1. m \in Data /\ m.bound = mem.bound
      BY <1>1, <2>3, WorkerHolds, MovedType, CompletedType, FlagsBound
      DEF WorkerAt, TerminalState, PersistentQueueState
    <3>2. CatchesError \/ mem' = Exempting(m, S)
      BY <2>3 DEF Ends
    <3> QED
      BY <2>2, <3>1, <3>2, FlagsBound DEF BoundKept
  <2>4. CASE MonitorSeesDone
    BY <2>3, <2>4 DEF MonitorSeesDone, Watching, TerminalState
  <2>5. CASE MonitorAccepts
    BY <2>3, <2>5 DEF MonitorAccepts, Watching, TerminalState
  <2>6. CASE MonitorFails
    BY <2>3, <2>6 DEF MonitorFails, Watching, TerminalState
  <2>7. CASE RetentionFails \/ WorkerSaveFails \/ MonitorMissesThread
    BY <2>1, <2>2, <2>7 DEF RetentionFails, WorkerSaveFails, MonitorMissesThread
  <2>8. CASE WorkerSubmits \/ WorkerSaves
    BY <2>1, <2>8 DEF WorkerSubmits, WorkerSaves
  <2>9. CASE \/ WorkerStart \/ RecoverBound \/ RecoverNone \/ WorkerLoop \/ MonitorAborts
             \/ MonitorRetains \/ RetentionSent \/ WorkerCleansUp \/ WorkerSavesPause
             \/ WorkerRetries \/ WorkerEnds
    BY <2>1, <2>9
    DEF WorkerStart, RecoverBound, RecoverNone, WorkerLoop, MonitorAborts,
        MonitorRetains, RetentionSent, WorkerCleansUp, WorkerSavesPause, WorkerRetries, WorkerEnds
  <2> QED
    BY <1>6, <2>4, <2>5, <2>6, <2>7, <2>8, <2>9 DEF WorkerStep
<1> QED
  BY <1>2, <1>3, <1>4, <1>5, <1>6, UnboundKept

\* And it takes up no task that has one, except to monitor it.
LEMMA WorkerUnbound ==
  ASSUME TypeOK, OrderInv, UnboundInv, WorkerStep
  PROVE UnboundInv'
<1>1. worker \in WorkerRecord /\ mem \in Data /\ file' \in {file, mem}
  BY WorkerMoves DEF TypeOK, OrderInv, InOrder
<1>2. /\ \A pc : Goto(pc) => worker'.pc = pc /\ worker'.item = worker.item
      /\ \A pc, i : Hold(pc, i) => worker'.pc = pc /\ worker'.item = i
      /\ Exit => worker'.pc \notin {"recoverIdle", "dispatchSave", "dispatch"}
      /\ worker' = AfterExit(mem) =>
           worker'.pc \notin {"recoverIdle", "dispatchSave", "dispatch"}
  BY <1>1, WorkerItems, GotoPC, HoldPC, ExitPC
<1>3. UnboundQueue(mem') /\ UnboundQueue(file') /\ (BoundKept \/ MonitorAdopts)
  BY <1>1, WorkerBinds DEF UnboundInv
<1>4. worker'.pc \in HeldPC => worker'.item \notin Queued(mem')
  BY WorkerHeld DEF UnboundInv, Queued, Running, InState
<1>5. CatchesError => worker'.pc \notin {"recoverIdle", "dispatchSave", "dispatch"}
  BY <1>2 DEF CatchesError
<1>6. \A next, S : \A pc \in {"doneSave", "cleanup", "finalSave"} :
        Ends(next, pc, S) => worker'.pc \notin {"recoverIdle", "dispatchSave", "dispatch"}
  BY <1>2, <1>5 DEF Ends
<1> DEFINE Fresh == worker'.item \in Messages \/ worker'.item \notin mem'.bound
<1>7. ASSUME worker'.pc = "dispatch" PROVE Fresh
  <2>1. worker.pc = "dispatchSave" /\ worker'.item = worker.item
    BY <1>7, AboutToSubmit
  <2>2. ~MonitorAdopts
    BY <2>1 DEF MonitorAdopts, Watching, WorkerAt
  <2> QED
    BY <1>3, <2>1, <2>2 DEF UnboundInv, BoundKept
<1>8. ASSUME WorkerDispatches, worker'.pc \in {"recoverIdle", "dispatchSave"} PROVE Fresh
  <2>1. worker.item \in Queued(mem) /\ worker'.item = worker.item
    BY <1>2, <1>8 DEF WorkerDispatches
  <2>2. ~MonitorAdopts
    BY <1>8 DEF MonitorAdopts, Watching, WorkerAt, WorkerDispatches
  <2> QED
    BY <1>3, <2>1, <2>2 DEF UnboundInv, UnboundQueue, BoundKept
<1>9. ASSUME WorkerStart, worker'.pc \in {"recoverIdle", "dispatchSave"} PROVE Fresh
  BY <1>2, <1>9 DEF WorkerStart
<1>10. ASSUME WorkerSaves PROVE worker'.pc \notin {"recoverIdle", "dispatchSave"}
  BY <1>2, <1>10 DEF WorkerSaves, AfterSave
<1>11. ASSUME RecoverUnbound \/ RecoverBound \/ RecoverNone \/ WorkerLoop
       PROVE worker'.pc \notin {"recoverIdle", "dispatchSave"}
  BY <1>2, <1>11 DEF RecoverUnbound, RecoverBound, RecoverNone, WorkerLoop
<1>12. ASSUME WorkerSubmits \/ MonitorAborts \/ MonitorAdopts \/ MonitorRetains \/ RetentionSent
       PROVE worker'.pc \notin {"recoverIdle", "dispatchSave"}
  BY <1>2, <1>12 DEF WorkerSubmits, MonitorAborts, MonitorAdopts, MonitorRetains, RetentionSent
<1>13. ASSUME MonitorSeesDone \/ MonitorAccepts \/ MonitorFails
       PROVE worker'.pc \notin {"recoverIdle", "dispatchSave"}
  BY <1>6, <1>13 DEF MonitorSeesDone, MonitorAccepts, MonitorFails
<1>14. ASSUME RetentionFails \/ WorkerCleansUp \/ WorkerSavesPause \/ WorkerSaveFails \/ WorkerRetries \/ WorkerEnds
       PROVE worker'.pc \notin {"recoverIdle", "dispatchSave"}
  BY <1>2, <1>5, <1>14
  DEF RetentionFails, WorkerCleansUp, WorkerSavesPause, WorkerSaveFails, WorkerRetries, WorkerEnds
<1>15. ASSUME MonitorMissesThread PROVE worker'.pc \notin {"recoverIdle", "dispatchSave"}
  BY <1>2, <1>15 DEF MonitorMissesThread, Pausing
<1>16. worker'.pc \in {"recoverIdle", "dispatchSave"} => Fresh
  BY <1>8, <1>9, <1>10, <1>11, <1>12, <1>13, <1>14, <1>15 DEF WorkerStep
<1> QED
  BY <1>3, <1>4, <1>7, <1>16 DEF UnboundInv

\* Commands bind only the record that is launched again.
LEMMA CommandBinds ==
  ASSUME TypeOK, NEW c \in Slots, CommandStep(c), ~RelaunchSubmits(c)
  PROVE BoundKept
<1>1. mem \in Data
  BY DEF TypeOK
<1>2. CASE CommandSaves(c) \/ CommandSavesReset(c) \/ CommandSaveFails(c)
  BY <1>1, <1>2, FlagsBound DEF CommandSaves, CommandSavesReset, CommandSaveFails, BoundKept
<1>3. CASE ReadsActivity(c) \/ Continues(c) \/ RelaunchCancels(c)
  BY <1>3 DEF ReadsActivity, Continues, RelaunchCancels, BoundKept
<1>4. CASE NextInterruptsLatest(c)
  BY <1>1, <1>4 DEF NextInterruptsLatest, Pausing, Exempting, Data, BoundKept
<1>5. CASE NextSkips(c)
  BY <1>1, <1>5 DEF NextSkips, Pausing, Exempting, Moved, Data, BoundKept
<1>6. CASE PurgesHistory(c) \/ RemovalChecked(c)
  BY <1>1, <1>6
  DEF PurgesHistory, RemovalChecked, Emptied, Removing, Without, EmptyData, Data, BoundKept
<1> QED
  BY <1>2, <1>3, <1>4, <1>5, <1>6 DEF CommandStep

LEMMA IssueBinds ==
  ASSUME TypeOK, NEW c \in Slots, IssueStep(c)
  PROVE BoundKept
<1>1. mem \in Data
  BY DEF TypeOK
<1>2. CASE Enqueue(c) \/ EnqueueMessage(c) \/ RemoveWaiting(c) \/ SkipWaitingTask(c) \/ Trim(c)
  BY <1>1, <1>2
  DEF Enqueue, EnqueueMessage, RemoveWaiting, SkipWaitingTask, Trim, Appended, Without,
      Exempting, Data, BoundKept
<1>3. CASE Replace(c) \/ CleanFinished(c)
  BY <1>1, <1>3
  DEF Replace, CleanFinished, Without, Appended, ForgettingLast, Data, BoundKept
<1>4. CASE Pause(c) \/ Unpause(c) \/ Relaunch(c)
  BY <1>1, <1>4 DEF Pause, Unpause, Relaunch, Pausing, Data, BoundKept
<1>5. CASE RemoveRunning(c) \/ Drain(c)
  BY <1>5 DEF RemoveRunning, Drain, BoundKept
<1> QED
  BY <1>2, <1>3, <1>4, <1>5 DEF IssueStep

LEMMA ResumedBinds ==
  ASSUME TypeOK, NEW c \in Slots, Resumed(c), ~StopContinues(c)
  PROVE BoundKept
<1>1. mem \in Data
  BY DEF TypeOK
<1>2. CASE OverrideContinues(c)
  BY <1>1, <1>2 DEF OverrideContinues, Appended, PutFirst, Moved, Data, BoundKept
<1>3. CASE ConfirmContinues(c) \/ NextContinues(c) \/ ClearContinues(c)
  BY <1>1, <1>3
  DEF ConfirmContinues, NextContinues, ClearContinues, Completed, Moved, Emptied, EmptyData, Data,
      BoundKept
<1>4. CASE RemoveRunningContinues(c)
  BY <1>1, <1>4 DEF RemoveRunningContinues, Removing, Without, Exempting, Data, BoundKept
<1> QED
  BY <1>2, <1>3, <1>4 DEF Resumed

\* Where no record is launched again by hand, every step keeps that.
LEMMA NextUnbound ==
  ASSUME "relaunch" \notin Ops
  PROVE TypeOK /\ OrderInv /\ ControlInv /\ UnboundInv /\ [Next]_vars => UnboundInv'
<1> SUFFICES ASSUME TypeOK, OrderInv, ControlInv, UnboundInv, [Next]_vars PROVE UnboundInv'
  OBVIOUS
<1>1. /\ mem \in Data /\ file \in Data /\ worker \in WorkerRecord
      /\ Ids(mem) \subseteq 1..created /\ Listed(mem)
      /\ worker.pc \in HeldPC => worker.item \in Ids(mem)
  BY WorkerHolds DEF TypeOK, OrderInv, InOrder, FreshIds, HeldPC, NoItem, Item
<1>2. CASE UNCHANGED <<mem, file, worker>>
  BY <1>2 DEF UnboundInv
<1>3. CASE WorkerStep
  BY <1>3, WorkerUnbound
<1>4. ASSUME BoundKept, NoneQueued(mem, mem'), file' \in {file, mem},
             worker' \in {worker, Worker("start", NoItem)}
      PROVE UnboundInv'
  <2>1. UnboundQueue(mem') /\ UnboundQueue(file')
    BY <1>4, UnboundKept DEF UnboundInv
  <2>2. CASE worker' = worker
    BY <1>4, <2>1, <2>2 DEF UnboundInv, BoundKept, NoneQueued
  <2>3. CASE worker' = Worker("start", NoItem)
    BY <2>1, <2>3 DEF UnboundInv, Worker, HeldPC
  <2> QED
    BY <1>4, <2>2, <2>3
<1>5. ASSUME NEW i \in Item, BoundKept, Adds(mem, mem', i) \/ Forces(mem, mem', i),
             file' = file, worker' = worker
      PROVE UnboundInv'
  <2>1. UnboundQueue(mem') /\ UnboundQueue(file')
    BY <1>5, AddedUnbound DEF UnboundInv
  <2>2. i \notin Ids(mem) /\ Queued(mem') \subseteq Queued(mem) \cup {i}
    BY <1>5 DEF Adds, Forces, SameBut, Queued, InState, Running, TerminalState
  <2> QED
    BY <1>1, <1>5, <2>1, <2>2 DEF UnboundInv, BoundKept
<1>6. ASSUME NEW c \in Slots, IssueStep(c) PROVE UnboundInv'
  <2>1. BoundKept /\ file' = file /\ worker' = worker
    BY <1>6, IssueBinds, IssueMoves
  <2>2. CASE Keeps(mem, mem') \/ Drops(mem, mem') \/ mem' = mem
    BY <1>4, <2>1, <2>2, LosesQueuesNone DEF Loses, Alike
  <2>3. CASE Adds(mem, mem', created + 1)
    BY <1>5, <2>1, <2>3 DEF Adds
  <2> QED
    BY <1>1, <1>6, <2>2, <2>3, IssueEffects
<1>7. ASSUME NEW c \in Slots, CommandStep(c) PROVE UnboundInv'
  <2>1. ~RelaunchSubmits(c)
    BY DEF RelaunchSubmits, At, ControlInv, Shape, Fits
  <2>2. BoundKept /\ NoneQueued(mem, mem')
    BY <1>7, <2>1, CommandBinds, CommandEffects, LosesQueuesNone
  <2> QED
    BY <1>4, <1>7, <2>2, CommandMoves, CommandControl
<1>8. ASSUME NEW c \in Slots, Resumed(c), ~StopContinues(c) PROVE UnboundInv'
  <2>1. BoundKept /\ file' = file /\ worker' = worker
    BY <1>8, ResumedBinds, ResumedMoves, ResumedControl
  <2>2. Pending(c) => cmd[c].item \notin Ids(mem)
    BY DEF OrderInv, FreshIds
  <2>3. CASE Loses(mem, mem')
    BY <1>4, <2>1, <2>3, LosesQueuesNone
  <2>4. CASE Adds(mem, mem', cmd[c].item) \/ Forces(mem, mem', cmd[c].item)
    BY <1>5, <2>1, <2>4 DEF Adds, Forces
  <2> QED
    BY <1>1, <1>8, <2>2, <2>3, <2>4, ResumedEffects
<1>9. CASE HostEnds
  BY <1>9 DEF HostEnds, UnboundInv, HeldPC, NoWorker
<1>10. CASE Start
  <2>1. PICK S \in SUBSET Item : mem' \in {file, Exempting(file, S)} /\ file' = mem'
    BY <1>10 DEF Start
  <2>2. Alike(file, mem') /\ mem'.bound = file.bound
    BY <1>1, <2>1, FlagsAlike DEF Exempting, Data, Alike
  <2>3. UnboundQueue(mem') /\ UnboundQueue(file')
    BY <2>1, <2>2 DEF UnboundInv, UnboundQueue, Alike, Queued, InState, Ids
  <2> QED
    BY <1>10, <2>3 DEF Start, UnboundInv, HeldPC, Worker
<1>11. CASE Drained \/ PolicyStops \/ ClineStops \/ UserResumes \/ UserDeletes \/ UNCHANGED vars
  BY <1>2, <1>11 DEF Drained, PolicyStops, ClineStops, UserResumes, UserDeletes, hostVars, vars
<1> QED
  BY <1>3, <1>6, <1>7, <1>8, <1>9, <1>10, <1>11 DEF Next, Crash, StopContinues

\* A task a Cline session was ever bound to is not submitted again from scratch.
THEOREM SubmittedUnbound ==
  ASSUME "relaunch" \notin Ops
  PROVE Spec => ResubmitsOnlyUnbound
<1>1. Init => UnboundInv
  BY DEF Init, UnboundInv, UnboundQueue, EmptyData, HeldPC, NoWorker
<1>2. TypeOK /\ OrderInv /\ ControlInv /\ UnboundInv /\ [Next]_vars => UnboundInv'
  BY NextUnbound
<1>3. TypeOK /\ ControlInv /\ UnboundInv /\ [Next]_vars
      => [\A i \in Item : starts'[i] > starts[i] => i \notin mem.bound]_vars
  BY Submitting DEF UnboundInv
<1> QED
  BY <1>1, <1>2, <1>3, TypeCorrect, OrderAlways, ControlAlways, PTL
  DEF Spec, ResubmitsOnlyUnbound

------------------------------------------------------------------------------
(* Durability: who is about to write what the file does not have yet.       *)

WritesPC == SavePC \cup {"cleanup"}
Writing(c) == cmd[c].pc \in {"save", "reset", "cancel", "newTask"}

\* What memory has and the file has not, a command or the worker is about to write.
DurableInv == up => file = mem \/ (\E c \in Slots : Writing(c)) \/ worker.pc \in WritesPC

\* No write and no call to Cline fails.
LEMMA NoFault == TypeOK /\ MaxFaults = 0 => ~MayFault
  BY DEF TypeOK, Usage, MayFault

\* The worker writes what it changed, and leaves no write out.
LEMMA WorkerWrites ==
  ASSUME TypeOK, ~MayFault, WorkerStep
  PROVE \/ file' = mem' \/ worker'.pc \in WritesPC
        \/ worker.pc \notin WritesPC /\ UNCHANGED <<mem, file>>
<1>1. \A pc : Goto(pc) => worker'.pc = pc
  BY GotoPC DEF TypeOK
<1>2. CatchesError => worker'.pc \in WritesPC \/ UNCHANGED mem
  BY <1>1 DEF CatchesError, WritesPC, SavePC, AfterSave
<1>3. ASSUME NEW next, NEW pc \in {"doneSave", "cleanup", "finalSave"}, NEW S, Ends(next, pc, S)
      PROVE worker'.pc \in WritesPC \/ UNCHANGED mem
  BY <1>1, <1>2, <1>3 DEF Ends, WritesPC, SavePC, AfterSave
<1>4. "monitor" \notin WritesPC
  BY DEF WritesPC, SavePC, AfterSave
<1>5. CASE WorkerStart \/ RecoverBound \/ RecoverNone \/ WorkerLoop \/ WorkerRetries \/ WorkerEnds
  BY <1>5
  DEF WorkerStart, RecoverBound, RecoverNone, WorkerLoop, WorkerRetries, WorkerEnds, WorkerAt, WritesPC,
      SavePC, AfterSave
<1>6. CASE RecoverUnbound
  BY <1>1, <1>6 DEF RecoverUnbound, WorkerAt, WritesPC, SavePC, AfterSave
<1>7. CASE WorkerDispatches
  BY <1>1, <1>7 DEF WorkerDispatches, WorkerAt, WritesPC, SavePC, AfterSave
<1>8. CASE WorkerSubmits
  BY <1>1, <1>8 DEF WorkerSubmits, WorkerAt, WritesPC, SavePC, AfterSave
<1>9. CASE MonitorAborts \/ RetentionSent
  BY <1>9 DEF MonitorAborts, RetentionSent, WorkerAt, WritesPC, SavePC, AfterSave
<1>10. CASE MonitorAdopts
  BY <1>1, <1>10 DEF MonitorAdopts, WritesPC, SavePC, AfterSave
<1>11. CASE MonitorRetains
  BY <1>1, <1>11 DEF MonitorRetains, WritesPC, SavePC, AfterSave
<1>12. CASE MonitorMissesThread
  BY <1>1, <1>12 DEF MonitorMissesThread, Pausing, WritesPC, SavePC, AfterSave
<1>13. CASE MonitorSeesDone
  BY <1>3, <1>4, <1>13 DEF MonitorSeesDone, Watching, WorkerAt
<1>14. CASE MonitorAccepts
  BY <1>3, <1>4, <1>14 DEF MonitorAccepts, Watching, WorkerAt
<1>15. CASE MonitorFails
  BY <1>3, <1>4, <1>15 DEF MonitorFails, Watching, WorkerAt
<1>16. CASE WorkerCleansUp
  BY <1>1, <1>16 DEF WorkerCleansUp, WritesPC, SavePC, AfterSave
<1>17. CASE WorkerSaves
  BY <1>1, <1>17 DEF WorkerSaves, WritesPC, SavePC, AfterSave
<1>18. CASE WorkerSavesPause
  BY <1>18 DEF WorkerSavesPause
<1>19. ~RetentionFails /\ ~WorkerSaveFails
  BY DEF RetentionFails, WorkerSaveFails
<1> QED
  BY <1>5, <1>6, <1>7, <1>8, <1>9, <1>10, <1>11, <1>12, <1>13, <1>14, <1>15, <1>16, <1>17,
     <1>18, <1>19 DEF WorkerStep

\* A command is issued before its write.
LEMMA IssueWrites ==
  ASSUME TypeOK, NEW c \in Slots, IssueStep(c)
  PROVE Writing(c)' \/ UNCHANGED mem
<1>1. ASSUME NEW op, NEW pc, NEW i, Await(c, op, pc, i), pc \in {"save", "cancel", "newTask"}
      PROVE Writing(c)'
  BY <1>1, Awaits DEF Writing
<1>2. CASE Enqueue(c) \/ EnqueueMessage(c) \/ Replace(c) \/ CleanFinished(c) \/ Trim(c)
  BY <1>1, <1>2 DEF Enqueue, EnqueueMessage, Replace, CleanFinished, Trim
<1>3. CASE RemoveWaiting(c) \/ SkipWaitingTask(c) \/ Unpause(c)
  BY <1>1, <1>3 DEF RemoveWaiting, SkipWaitingTask, Unpause
<1>4. CASE Pause(c) \/ Relaunch(c)
  BY <1>1, <1>4 DEF Pause, Relaunch
<1>5. CASE RemoveRunning(c) \/ Drain(c)
  BY <1>5 DEF RemoveRunning, Drain
<1> QED
  BY <1>2, <1>3, <1>4, <1>5 DEF IssueStep

\* What a command changed after the drain it is about to write.
LEMMA ResumedWrites ==
  ASSUME TypeOK, NEW c \in Slots, Resumed(c), ~StopContinues(c)
  PROVE Writing(c)' \/ UNCHANGED mem
<1>1. \A op, i : Await(c, op, "save", i) => Writing(c)'
  BY Awaits DEF Writing
<1>2. Step(c, "save") => Writing(c)'
  BY Steps DEF Writing
<1> QED
  BY <1>1, <1>2
  DEF Resumed, OverrideContinues, ConfirmContinues, NextContinues, ClearContinues,
      RemoveRunningContinues

\* So it is later; only the relaunch of a record may give up before its write.
LEMMA CommandWrites ==
  ASSUME TypeOK, ~MayFault, HeldInv, NEW c \in Slots, CommandStep(c),
         cmd[c].pc \in {"cancel", "newTask"} => ~aborted
  PROVE \/ file' = mem' \/ Writing(c)'
        \/ ~Writing(c) /\ UNCHANGED <<mem, file>>
<1>1. /\ \A op, i : Await(c, op, "save", i) => Writing(c)'
      /\ \A pc \in {"save", "reset", "newTask"} : Step(c, pc) => Writing(c)'
  BY Awaits, Steps DEF Writing
<1>2. CASE CommandSaves(c)
  BY <1>1, <1>2 DEF CommandSaves
<1>3. CASE CommandSavesReset(c)
  BY <1>3 DEF CommandSavesReset
<1>4. ~CommandSaveFails(c)
  BY DEF CommandSaveFails
<1>5. CASE ReadsActivity(c) \/ Continues(c)
  BY <1>5 DEF ReadsActivity, Continues, Writing
<1>6. CASE RelaunchCancels(c)
  BY <1>1, <1>6 DEF RelaunchCancels, At
<1>7. CASE RelaunchSubmits(c)
  BY <1>1, <1>7 DEF RelaunchSubmits, At
<1>8. CASE NextInterruptsLatest(c)
  BY <1>1, <1>8 DEF NextInterruptsLatest
<1>9. CASE NextSkips(c)
  <2>1. cmd[c].item \in Running(mem)
    BY <1>9 DEF NextSkips, At, HeldInv
  <2>2. ~MoveThrows(mem, cmd[c].item, "skipped")
    BY <2>1
    DEF Running, InState, MoveThrows, TransitionAccepted, ALLOWED_TRANSITIONS, PersistentQueueState
  <2> QED
    BY <1>1, <1>9, <2>2 DEF NextSkips
<1>10. CASE PurgesHistory(c)
  BY <1>1, <1>10 DEF PurgesHistory
<1>11. CASE RemovalChecked(c)
  BY <1>1, <1>11 DEF RemovalChecked, At, Writing
<1> QED
  BY <1>2, <1>3, <1>4, <1>5, <1>6, <1>7, <1>8, <1>9, <1>10, <1>11 DEF CommandStep

\* Every step leaves someone who writes.
LEMMA NextDurable ==
  ASSUME MaxFaults = 0, (\A c, d \in Slots : c = d) \/ "relaunch" \notin Ops
  PROVE TypeOK /\ OrderInv /\ ControlInv /\ HeldInv /\ DurableInv /\ [Next]_vars => DurableInv'
<1> SUFFICES ASSUME TypeOK, OrderInv, ControlInv, HeldInv, DurableInv, [Next]_vars
             PROVE DurableInv'
  OBVIOUS
<1>1. ~MayFault /\ "none" \notin WritesPC
  BY NoFault DEF WritesPC, SavePC, AfterSave
<1>2. CASE UNCHANGED <<mem, file, up, worker, cmd>>
  BY <1>2 DEF DurableInv, Writing
<1>3. CASE WorkerStep
  <2>1. cmd' = cmd /\ up' = up
    BY <1>3, WorkerMoves DEF OrderInv, InOrder
  <2> QED
    BY <1>1, <1>3, <2>1, WorkerWrites DEF DurableInv, Writing
<1>4. ASSUME NEW c \in Slots, IssueStep(c) PROVE DurableInv'
  <2>1. /\ OthersWait(c) /\ cmd[c] = Idle /\ worker' = worker /\ file' = file /\ up
        /\ Writing(c)' \/ UNCHANGED mem
    BY <1>4, IssueControl, IssueMoves, IssueWrites
  <2> QED
    BY <2>1 DEF DurableInv, Writing, OthersWait, Idle
<1>5. ASSUME NEW c \in Slots, CommandStep(c) PROVE DurableInv'
  <2>1. OthersWait(c) /\ up /\ (worker.pc # "none" => worker' = worker)
    BY <1>5, CommandControl, CommandMoves
  <2>2. ASSUME cmd[c].pc \in {"cancel", "newTask"} PROVE ~aborted
    <3>1. "relaunch" \in Ops
      BY <2>2 DEF ControlInv, Shape, Fits
    <3>2. \A d \in Slots : d = c
      BY <3>1
    <3> QED
      BY <2>2, <3>2 DEF ControlInv
  <2>3. \/ file' = mem' \/ Writing(c)'
        \/ ~Writing(c) /\ UNCHANGED <<mem, file>>
    BY <1>1, <1>5, <2>2, CommandWrites
  <2> QED
    BY <1>1, <2>1, <2>3 DEF DurableInv, Writing, OthersWait
<1>6. ASSUME NEW c \in Slots, Resumed(c), ~StopContinues(c) PROVE DurableInv'
  <2>1. /\ OthersWait(c) /\ cmd[c].pc = "drained" /\ worker' = worker /\ file' = file /\ up
        /\ Writing(c)' \/ UNCHANGED mem
    BY <1>6, ResumedControl, ResumedMoves, ResumedWrites
  <2> QED
    BY <2>1 DEF DurableInv, Writing, OthersWait
<1>7. CASE HostEnds \/ Start
  BY <1>7 DEF HostEnds, Start, DurableInv
<1>8. CASE Drained
  <2>1. \A c \in Slots : Writing(c) => Writing(c)'
    BY <1>8 DEF Drained, Writing, TypeOK
  <2> QED
    BY <1>8, <2>1 DEF Drained, DurableInv
<1>9. CASE PolicyStops \/ ClineStops \/ UserResumes \/ UserDeletes \/ UNCHANGED vars
  BY <1>2, <1>9 DEF PolicyStops, ClineStops, UserResumes, UserDeletes, hostVars, vars
<1> QED
  BY <1>3, <1>4, <1>5, <1>6, <1>7, <1>8, <1>9 DEF Next, Crash, StopContinues

\* Where no write fails, what was acknowledged is in the file.
THEOREM AcknowledgedSaved ==
  ASSUME MaxFaults = 0, Undisturbed, (\A c, d \in Slots : c = d) \/ "relaunch" \notin Ops
  PROVE Spec => []AcknowledgedDurable
<1>1. Init => HeldInv /\ DurableInv
  BY DEF Init, HeldInv, HeldPC, Awaiting, Idle, NoWorker, DurableInv
<1>2. TypeOK /\ OrderInv /\ ControlInv /\ HeldInv /\ [Next]_vars => HeldInv'
  BY NextHeld
<1>3. TypeOK /\ OrderInv /\ ControlInv /\ HeldInv /\ DurableInv /\ [Next]_vars => DurableInv'
  BY NextDurable
<1>4. DurableInv => AcknowledgedDurable
  BY DEF DurableInv, AcknowledgedDurable, Writing, WritesPC, Idle
<1> QED
  BY <1>1, <1>2, <1>3, <1>4, TypeCorrect, OrderAlways, ControlAlways, PTL DEF Spec

------------------------------------------------------------------------------
(* The policy monitor: who starts it again after a drain.                   *)

\* A command that has stopped the monitor, or will find it stopped, starts it in
\* its last step.
WillMonitor(c) ==
  /\ cmd[c].op \in {"confirm", "next", "clear", "purge", "removeRunning", "stop"}
  /\ cmd[c].pc \in {"drained", "interrupt", "interruptLatest", "history", "save", "reset"}

PolicyInv == up /\ ~aborted /\ ~policy => \E c \in Slots : WillMonitor(c)

\* The ways to leave a command's slot keep that, or start the monitor.
LEMMA StillMonitors ==
  ASSUME TypeOK, NEW c \in Slots, WillMonitor(c)
  PROVE /\ \A pc \in {"save", "reset", "history"} : Step(c, pc) => WillMonitor(c)'
        /\ \A i : \A pc \in {"save", "interrupt", "interruptLatest"} :
             Await(c, cmd[c].op, pc, i) => WillMonitor(c)'
  BY Steps, Awaits DEF WillMonitor

\* A returning command starts the monitor if it has to.
LEMMA ReturnMonitors ==
  ASSUME TypeOK, NEW c \in Slots, NEW kicks
  PROVE Returns(c, kicks, TRUE) => policy'
  BY DEF Returns

\* No command stops the monitor.
LEMMA CommandMonitors ==
  ASSUME TypeOK, ControlInv, HeldInv \/ "next" \notin Ops, ~MayFault,
         NEW c \in Slots, CommandStep(c), WillMonitor(c)
  PROVE policy' \/ WillMonitor(c)'
<1>1. cmd[c].op \in Monitoring \cup {"stop"} /\ ~(cmd[c].op \in {"resume", "continue"})
  BY DEF WillMonitor, Monitoring
<1>2. cmd[c].pc = "save" => cmd[c].op # "stop"
  BY DEF ControlInv, Shape, Fits
<1>3. CASE CommandSaves(c)
  <2>1. cmd[c].op \in Monitoring /\ cmd[c].pc = "save"
    BY <1>1, <1>2, <1>3 DEF CommandSaves
  <2>2. (cmd[c].op \in Monitoring) = TRUE
    BY <2>1
  <2>3. Step(c, "reset") \/ Returns(c, KicksAfterSave(c), TRUE)
    BY <1>1, <1>3, <2>2 DEF CommandSaves
  <2> QED
    BY <2>3, StillMonitors, ReturnMonitors
<1>4. CASE CommandSavesReset(c)
  BY <1>4, ReturnMonitors DEF CommandSavesReset
<1>5. ~CommandSaveFails(c)
  BY DEF CommandSaveFails
<1>6. ~ReadsActivity(c) /\ ~Continues(c) /\ ~RelaunchCancels(c) /\ ~RelaunchSubmits(c)
  BY DEF WillMonitor, ReadsActivity, Continues, RelaunchCancels, RelaunchSubmits, At
<1>7. CASE NextInterruptsLatest(c)
  <2>1. cmd[c].op = "next" /\ Await(c, "next", "save", NoItem)
    BY <1>7 DEF NextInterruptsLatest, At
  <2> QED
    BY <2>1, StillMonitors
<1>8. CASE NextSkips(c)
  <2>1. cmd[c].op = "next" /\ cmd[c].pc = "interrupt"
    BY <1>8 DEF NextSkips, At
  <2>2. "next" \in Ops
    BY <2>1 DEF ControlInv, Shape, Fits
  <2>3. cmd[c].item \in Running(mem)
    BY <2>1, <2>2 DEF HeldInv
  <2>4. ~MoveThrows(mem, cmd[c].item, "skipped")
    BY <2>3
    DEF Running, InState, MoveThrows, TransitionAccepted, ALLOWED_TRANSITIONS, PersistentQueueState
  <2>5. Step(c, "save")
    BY <1>8, <2>4 DEF NextSkips
  <2> QED
    BY <2>5, StillMonitors
<1>9. CASE PurgesHistory(c)
  BY <1>9, StillMonitors DEF PurgesHistory
<1>10. ~RemovalChecked(c)
  BY DEF WillMonitor, RemovalChecked, At
<1> QED
  BY <1>3, <1>4, <1>5, <1>6, <1>7, <1>8, <1>9, <1>10 DEF CommandStep

\* After a drain every command but enqueue --force starts the monitor in the end.
LEMMA ResumedMonitors ==
  ASSUME TypeOK, ControlInv, "override" \notin Ops,
         NEW c \in Slots, Resumed(c), ~StopContinues(c)
  PROVE policy' \/ WillMonitor(c)'
<1>1. cmd[c].pc = "drained"
  BY ResumedControl
<1>2. WillMonitor(c)
  BY <1>1 DEF ControlInv, Shape, Fits, Draining, WillMonitor
<1>3. ~OverrideContinues(c)
  BY <1>2 DEF OverrideContinues, At, WillMonitor
<1>4. CASE ConfirmContinues(c)
  <2>1. cmd[c].op = "confirm"
    BY <1>4 DEF ConfirmContinues, At
  <2> QED
    BY <1>2, <1>4, <2>1, StillMonitors, ReturnMonitors DEF ConfirmContinues
<1>5. CASE NextContinues(c)
  <2>1. cmd[c].op = "next"
    BY <1>5 DEF NextContinues, At
  <2> QED
    BY <1>2, <1>5, <2>1, StillMonitors DEF NextContinues
<1>6. CASE ClearContinues(c) \/ RemoveRunningContinues(c)
  BY <1>2, <1>6, StillMonitors DEF ClearContinues, RemoveRunningContinues
<1> QED
  BY <1>3, <1>4, <1>5, <1>6 DEF Resumed

\* A command leaves a monitor that runs alone.
LEMMA MonitorKept ==
  ASSUME TypeOK, NEW c \in Slots,
         IssueStep(c) \/ CommandStep(c) \/ (Resumed(c) /\ ~StopContinues(c))
  PROVE policy => policy'
<1>1. \A kicks, monitors \in BOOLEAN : Returns(c, kicks, monitors) => (policy => policy')
  BY DEF Returns
<1>2. CASE IssueStep(c)
  BY <1>2
  DEF IssueStep, Enqueue, EnqueueMessage, Replace, CleanFinished, Trim, RemoveWaiting,
      SkipWaitingTask, Pause, Unpause, Relaunch, RemoveRunning, Drain, hostButCmd
<1>3. CASE CommandStep(c)
  <2>1. CASE CommandSaves(c) \/ CommandSavesReset(c) \/ CommandSaveFails(c)
    BY <2>1 DEF CommandSaves, CommandSavesReset, CommandSaveFails, Returns
  <2>2. CASE ReadsActivity(c) \/ Continues(c) \/ RelaunchCancels(c) \/ RelaunchSubmits(c)
    BY <2>2 DEF ReadsActivity, Continues, RelaunchCancels, RelaunchSubmits, Returns
  <2>3. CASE NextInterruptsLatest(c) \/ NextSkips(c) \/ PurgesHistory(c) \/ RemovalChecked(c)
    BY <2>3 DEF NextInterruptsLatest, NextSkips, PurgesHistory, RemovalChecked, Returns
  <2> QED
    BY <1>3, <2>1, <2>2, <2>3 DEF CommandStep
<1>4. CASE Resumed(c) /\ ~StopContinues(c)
  BY <1>4
  DEF Resumed, OverrideContinues, ConfirmContinues, NextContinues, ClearContinues,
      RemoveRunningContinues, Returns
<1> QED
  BY <1>2, <1>3, <1>4

\* Every step leaves the monitor running, or someone who starts it.
LEMMA NextPolicy ==
  ASSUME MaxFaults = 0, "override" \notin Ops
  PROVE TypeOK /\ OrderInv /\ ControlInv /\ (HeldInv \/ "next" \notin Ops) /\ PolicyInv /\ [Next]_vars
        => PolicyInv'
<1> SUFFICES ASSUME TypeOK, OrderInv, ControlInv, HeldInv \/ "next" \notin Ops, PolicyInv, [Next]_vars
             PROVE PolicyInv'
  OBVIOUS
<1>1. ~MayFault
  BY NoFault
<1>2. CASE UNCHANGED <<up, policy, aborted, cmd>>
  BY <1>2 DEF PolicyInv, WillMonitor
<1>3. CASE WorkerStep
  BY <1>2, <1>3
  DEF WorkerStep, WorkerStart, RecoverUnbound, RecoverBound, RecoverNone, WorkerLoop,
      WorkerDispatches, WorkerSubmits, MonitorAborts, MonitorAdopts, MonitorSeesDone,
      MonitorRetains, RetentionSent, RetentionFails, MonitorAccepts, MonitorFails,
      MonitorMissesThread, WorkerCleansUp, WorkerSaves, WorkerSavesPause, WorkerSaveFails,
      WorkerRetries, WorkerEnds, hostVars
<1>4. ASSUME NEW c \in Slots, IssueStep(c) PROVE PolicyInv'
  <2>1. /\ OthersWait(c) /\ cmd[c] = Idle /\ up /\ (policy => policy')
        /\ aborted' = (aborted \/ cmd'[c].pc = "drain")
    BY <1>4, IssueControl, IssueMoves, MonitorKept
  <2>2. ~WillMonitor(c) /\ \A d \in Slots \ {c} : WillMonitor(d) => WillMonitor(d)'
    BY <2>1 DEF WillMonitor, OthersWait, Idle
  <2> QED
    BY <2>1, <2>2 DEF PolicyInv
<1>5. ASSUME NEW c \in Slots, CommandStep(c) PROVE PolicyInv'
  <2>1. /\ OthersWait(c) /\ up /\ (policy => policy')
        /\ aborted' = (aborted \/ cmd'[c].pc = "drain")
    BY <1>5, CommandControl, CommandMoves, MonitorKept
  <2>2. WillMonitor(c) => policy' \/ WillMonitor(c)'
    BY <1>1, <1>5, CommandMonitors
  <2> QED
    BY <2>1, <2>2 DEF PolicyInv, WillMonitor, OthersWait
<1>6. ASSUME NEW c \in Slots, Resumed(c), ~StopContinues(c) PROVE PolicyInv'
  BY <1>6, ResumedMonitors DEF PolicyInv
<1>7. CASE HostEnds \/ Start \/ PolicyStops
  <2>1. ~up' \/ policy' \/ aborted'
    BY <1>7 DEF HostEnds, Start, PolicyStops
  <2> QED
    BY <2>1 DEF PolicyInv
<1>8. CASE Drained
  <2>1. PICK c \in Slots : cmd[c].pc = "drain"
    BY <1>8 DEF Drained, DrainCompleted
  <2>2. cmd[c].op \in Draining \ {"override"}
    BY <2>1 DEF ControlInv, Shape, Fits
  <2>3. cmd'[c].op = cmd[c].op /\ cmd'[c].pc = "drained"
    BY <1>8, <2>1 DEF Drained, TypeOK, Command
  <2>4. WillMonitor(c)'
    BY <2>2, <2>3 DEF WillMonitor, Draining
  <2> QED
    BY <2>4 DEF PolicyInv
<1>9. CASE ClineStops \/ UserResumes \/ UserDeletes \/ UNCHANGED vars
  BY <1>2, <1>9 DEF ClineStops, UserResumes, UserDeletes, hostVars, vars
<1> QED
  BY <1>3, <1>4, <1>5, <1>6, <1>7, <1>8, <1>9 DEF Next, Crash, StopContinues

\* Where nothing fails and no enqueue is forced, the monitor runs whenever no command
\* is at work.
THEOREM PolicyMonitored ==
  ASSUME MaxFaults = 0, "override" \notin Ops, (\A c, d \in Slots : c = d) \/ "next" \notin Ops
  PROVE Spec => []PolicyAlongside
<1>1. Init => HeldInv /\ PolicyInv
  BY DEF Init, HeldInv, HeldPC, Awaiting, Idle, NoWorker, PolicyInv
<1>2. PolicyInv => PolicyAlongside
  BY DEF PolicyInv, PolicyAlongside, Quiet, WillMonitor, Idle
<1>3. TypeOK /\ OrderInv /\ ControlInv /\ (HeldInv \/ "next" \notin Ops) /\ PolicyInv /\ [Next]_vars
      => PolicyInv'
  BY NextPolicy
<1>4. CASE \A c, d \in Slots : c = d
  <2>1. TypeOK /\ OrderInv /\ ControlInv /\ HeldInv /\ [Next]_vars => HeldInv'
    BY <1>4, NextHeld DEF Undisturbed
  <2> QED
    BY <1>1, <1>2, <1>3, <2>1, TypeCorrect, OrderAlways, ControlAlways, PTL DEF Spec
<1>5. CASE "next" \notin Ops
  <2>1. TypeOK /\ OrderInv /\ ControlInv /\ PolicyInv /\ [Next]_vars => PolicyInv'
    BY <1>3, <1>5
  <2> QED
    BY <1>1, <1>2, <2>1, TypeCorrect, OrderAlways, ControlAlways, PTL DEF Spec
<1> QED
  BY <1>4, <1>5
=============================================================================
