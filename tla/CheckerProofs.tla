--------------------------- MODULE CheckerProofs ---------------------------
(***************************************************************************)
(* What the notification checker promises of the order and number of what  *)
(* it sends, for any number of apps, passes, faults and minutes.           *)
(*                                                                         *)
(* The argument: a document never decides on a notice that was already     *)
(* decided on, because the record of an open incident is at least as late  *)
(* as every notice of it, wherever that is: sent, waiting or given up.     *)
(* This holds of what is saved and of what a pass has in memory alike, so  *)
(* it survives a pass that ends anywhere.                                  *)
(***************************************************************************)
EXTENDS Checker, FiniteSetTheorems, TLAPS

(* Two notices of one incident, and what may be told after what.           *)
Same(m, n) == m.subject = n.subject /\ m.since = n.since
Follows(m, n) ==
  n.type = "incident" => m.type = "incident" /\ (m = n \/ n.at - m.at >= Reminder)

(* What waits in a document, by its place.                                 *)
Slots(st) == DOMAIN st.pending
At(st, i) == st.pending[i].key.notice
IsCopy(st, i) == st.pending[i].key.copy
Noted(st) == {At(st, i) : i \in Slots(st)}
Ours(st) == {At(st, i) : i \in {i \in Slots(st) : ~IsCopy(st, i)}}
Told(st, P, C) == P \cup C \cup Noted(st)

(* The platform's notices, with those in P sent already, are in order.     *)
InLine(st, P) ==
  /\ \A i, j \in Slots(st) : i < j /\ ~IsCopy(st, i) /\ ~IsCopy(st, j) /\ Same(At(st, i), At(st, j))
       => Follows(At(st, i), At(st, j))
  /\ \A j \in Slots(st), p \in P : ~IsCopy(st, j) /\ Same(p, At(st, j)) => Follows(p, At(st, j))
  /\ \A j \in Slots(st) : ~IsCopy(st, j) /\ At(st, j).type = "recovery" =>
       \/ \E p \in P : Same(p, At(st, j))
       \/ \E i \in Slots(st) : i < j /\ ~IsCopy(st, i) /\ Same(At(st, i), At(st, j))
  /\ \A entry \in st.seen : ~entry.key.copy => entry.key.notice \in P

(* The record of a subject is as late as every notice of its incident, and *)
(* an incident marked as notified has a notice.                            *)
RecordOK(st, P, C, now, s) ==
  LET r == st.records[s]
  IN  /\ r.since = NoTime => r.last = NoTime /\ ~r.notified
      /\ r.since # NoTime => r.since <= now
      /\ r.last # NoTime => r.since < r.last /\ r.last <= now
      /\ \A n \in Told(st, P, C) : n.subject = s /\ n.since = r.since
           => n.type = "incident" /\ r.last # NoTime /\ n.at <= r.last
      /\ r.notified => r.last # NoTime /\ \E n \in P \cup Ours(st) : n.subject = s /\ n.since = r.since

Typed(st) == st \in State /\ IsFiniteSet(st.seen) /\ Distinct(st)

Doc(st, P, C, now) ==
  /\ Typed(st)
  /\ \A n \in Told(st, P, C) : n.since < now
  /\ \A s \in Subjects : RecordOK(st, P, C, now, s)
  /\ InLine(st, P)

-----------------------------------------------------------------------------
(* What the operations on a document do to its queue.                      *)

Entries == [key : Keys, queued : Nat]

LEMMA Constants ==
  /\ Apps \subseteq Subjects /\ Monitor \in Subjects /\ Service \in Subjects
  /\ Monitor \notin Apps /\ Service \notin Apps /\ Monitor # Service
  /\ Grace \in Nat /\ ConsoleGrace \in Nat /\ Recovery \in Nat /\ Reminder \in Nat /\ History \in Nat
  /\ Grace >= 1 /\ ConsoleGrace >= 1 /\ Recovery >= 1 /\ Reminder >= 1 /\ History >= 1
  /\ \A s : GraceOf(s) \in Nat /\ GraceOf(s) >= 1
  /\ NoTime \in Times /\ NoTime \notin Nat /\ NoTime = -1
  BY IncidentAssumption DEF Subjects, GraceOf, NoTime, Times

LEMMA Queue ==
  ASSUME NEW st \in State
  PROVE  /\ st.records \in [Subjects -> Records]
         /\ st.pending \in Seq(Entries) /\ Len(st.pending) \in Nat /\ Slots(st) = 1 .. Len(st.pending)
         /\ \A i \in Slots(st) :
              /\ st.pending[i] \in Entries /\ st.pending[i].key \in Keys /\ st.pending[i].queued \in Nat
              /\ At(st, i) \in Notices /\ IsCopy(st, i) \in BOOLEAN
              /\ st.pending[i].key = [notice |-> At(st, i), copy |-> IsCopy(st, i)]
         /\ Waiting(st) = {st.pending[i].key : i \in Slots(st)}
         /\ Noted(st) \subseteq Notices /\ Ours(st) \subseteq Noted(st)
PROOF
  <1>1. st.records \in [Subjects -> Records] /\ st.pending \in Seq(Entries)
    BY DEF State, Entries
  <1>2. Len(st.pending) \in Nat /\ Slots(st) = 1 .. Len(st.pending)
        /\ \A i \in Slots(st) : st.pending[i] \in Entries
    BY <1>1 DEF Slots
  <1>3. ASSUME NEW i \in Slots(st)
        PROVE  /\ st.pending[i].key \in Keys /\ st.pending[i].queued \in Nat
               /\ At(st, i) \in Notices /\ IsCopy(st, i) \in BOOLEAN
               /\ st.pending[i].key = [notice |-> At(st, i), copy |-> IsCopy(st, i)]
    BY <1>2 DEF Entries, Keys, At, IsCopy
  <1> QED BY <1>1, <1>2, <1>3 DEF Waiting, Slots, Noted, Ours

(* A document with more waiting at its end, all of it notice n.            *)
Extends(st, st2, n) ==
  /\ st2 \in State /\ st2.seen = st.seen /\ Distinct(st2)
  /\ Len(st2.pending) >= Len(st.pending)
  /\ \A i \in Slots(st) : st2.pending[i] = st.pending[i]
  /\ \A i \in Slots(st2) \ Slots(st) : At(st2, i) = n

LEMMA QueueEntryExtends ==
  ASSUME NEW st \in State, Distinct(st), NEW key \in Keys, NEW now \in Nat
  PROVE  LET st2 == QueueEntry(st, key, now)
         IN  /\ Extends(st, st2, key.notice) /\ st2.records = st.records
             /\ key \in Waiting(st2) \cup Remembered(st)
             /\ Waiting(st) \subseteq Waiting(st2) /\ Waiting(st2) \subseteq Waiting(st) \cup {key}
PROOF
  <1> DEFINE st2 == QueueEntry(st, key, now)
  <1>1. CASE key \in Waiting(st) \cup Remembered(st)
    <2>1. st2 = st
      BY <1>1 DEF QueueEntry
    <2> QED BY <1>1, <2>1, Queue DEF Extends
  <1>2. CASE key \notin Waiting(st) \cup Remembered(st)
    <2> DEFINE entry == [key |-> key, queued |-> now]
               p == st.pending
               q == Append(p, entry)
    <2>1. st2 = [st EXCEPT !.pending = q]
      BY <1>2 DEF QueueEntry
    <2>2. entry \in Entries /\ p \in Seq(Entries) /\ Len(p) \in Nat /\ Slots(st) = 1 .. Len(p)
      BY Queue DEF Entries
    <2>3. /\ q \in Seq(Entries) /\ Len(q) = Len(p) + 1 /\ DOMAIN q = 1 .. Len(p) + 1
          /\ \A i \in 1 .. Len(p) : q[i] = p[i]
          /\ q[Len(p) + 1] = entry
      BY <2>2
    <2>4. st2 \in State /\ st2.pending = q /\ st2.seen = st.seen /\ st2.records = st.records
      BY <2>1, <2>3 DEF State, Entries
    <2> HIDE DEF q, st2
    <2>5. \A i \in Slots(st2) : i \in Slots(st) \/ i = Len(p) + 1
      BY <2>2, <2>3, <2>4 DEF Slots
    <2>6. Slots(st) \subseteq Slots(st2) /\ Len(p) + 1 \in Slots(st2) /\ Len(p) + 1 \notin Slots(st)
      BY <2>2, <2>3, <2>4 DEF Slots
    <2>7. \A i \in Slots(st) : st2.pending[i] = p[i]
      BY <2>2, <2>3, <2>4
    <2>8. st2.pending[Len(p) + 1].key = key
      BY <2>3, <2>4
    <2>9. Waiting(st2) = Waiting(st) \cup {key}
      BY <2>5, <2>6, <2>7, <2>8 DEF Waiting, Slots
    <2>10. \A i \in Slots(st) : st2.pending[i].key # key
      BY <1>2, <2>7 DEF Waiting, Slots
    <2>11. Distinct(st2)
      <3>1. \A i, j \in Slots(st2) : st2.pending[i].key = st2.pending[j].key => i = j
        BY <2>5, <2>7, <2>8, <2>10 DEF Distinct, Slots
      <3>2. Waiting(st2) \cap Remembered(st2) = {}
        BY <1>2, <2>4, <2>9 DEF Distinct, Remembered
      <3> QED BY <3>1, <3>2 DEF Distinct, Slots
    <2>12. \A i \in Slots(st2) \ Slots(st) : At(st2, i) = key.notice
      BY <2>5, <2>8 DEF At
    <2> QED BY <2>2, <2>3, <2>4, <2>7, <2>9, <2>11, <2>12 DEF Extends, st2
  <1> QED BY <1>1, <1>2

LEMMA ExtendsTwice ==
  ASSUME NEW st \in State, NEW st1, NEW st2, NEW n, Extends(st, st1, n), Extends(st1, st2, n)
  PROVE  Extends(st, st2, n)
PROOF
  <1>1. /\ Slots(st) = 1 .. Len(st.pending) /\ Len(st.pending) \in Nat
        /\ Slots(st1) = 1 .. Len(st1.pending) /\ Len(st1.pending) \in Nat
        /\ Slots(st2) = 1 .. Len(st2.pending) /\ Len(st2.pending) \in Nat
    BY Queue DEF Extends
  <1>2. Slots(st) \subseteq Slots(st1) /\ Len(st2.pending) >= Len(st.pending)
    BY <1>1 DEF Extends
  <1>3. \A i \in Slots(st2) \ Slots(st) : At(st2, i) = n
    <2> SUFFICES ASSUME NEW i \in Slots(st2), i \notin Slots(st) PROVE At(st2, i) = n
      OBVIOUS
    <2>1. CASE i \in Slots(st1)
      BY <2>1 DEF Extends, At
    <2>2. CASE i \notin Slots(st1)
      BY <2>2 DEF Extends
    <2> QED BY <2>1, <2>2
  <1> QED BY <1>1, <1>2, <1>3 DEF Extends

LEMMA EnqueueExtends ==
  ASSUME NEW st \in State, Distinct(st), NEW n \in Notices, NEW now \in Nat
  PROVE  LET st2 == Enqueue(st, n, now)
         IN  /\ Extends(st, st2, n) /\ st2.records = st.records
             /\ [notice |-> n, copy |-> FALSE] \in Waiting(st2) \cup Remembered(st)
PROOF
  <1> DEFINE ours == [notice |-> n, copy |-> FALSE]
             theirs == [notice |-> n, copy |-> TRUE]
             st1 == QueueEntry(st, ours, now)
             st2 == QueueEntry(st1, theirs, now)
  <1>1. ours \in Keys /\ theirs \in Keys /\ ours.notice = n /\ theirs.notice = n
    BY DEF Keys
  <1>2. Extends(st, st1, n) /\ st1.records = st.records /\ ours \in Waiting(st1) \cup Remembered(st)
    BY <1>1, QueueEntryExtends
  <1>3. st1 \in State /\ Distinct(st1)
    BY <1>2 DEF Extends
  <1>4. Extends(st1, st2, n) /\ st2.records = st1.records /\ Waiting(st1) \subseteq Waiting(st2)
    BY <1>1, <1>3, QueueEntryExtends, ZenonT(60)
  <1>5. Extends(st, st2, n)
    BY <1>2, <1>4, ExtendsTwice
  <1>6. Enqueue(st, n, now) = IF n.subject \in Copied THEN st2 ELSE st1
    BY DEF Enqueue
  <1> HIDE DEF st1, st2, ours
  <1> QED BY <1>2, <1>4, <1>5, <1>6 DEF ours

-----------------------------------------------------------------------------
(* What deciding on a notice does to a document.                           *)

(* A notice is timely when it is none of those told already: they are all  *)
(* of the incident, and a reminder comes after them.                       *)
Timely(st, P, C, n) ==
  \A m \in Told(st, P, C) : Same(m, n) =>
    m.type = "incident" /\ (n.type = "incident" => n.at - m.at >= Reminder)

LEMMA Slotted ==
  ASSUME NEW st \in State, NEW st2, NEW n, Extends(st, st2, n)
  PROVE  /\ Slots(st) \subseteq Slots(st2)
         /\ \A i \in Slots(st2) : i \in Nat
         /\ \A i \in Slots(st), j \in Slots(st2) : j \notin Slots(st) => i < j
         /\ \A i \in Slots(st) : At(st2, i) = At(st, i) /\ IsCopy(st2, i) = IsCopy(st, i)
         /\ Noted(st2) \subseteq Noted(st) \cup {n}
         /\ Noted(st) \subseteq Noted(st2) /\ Ours(st) \subseteq Ours(st2)
         /\ Waiting(st) \subseteq Waiting(st2)
         /\ \A key \in Waiting(st2) : key \notin Waiting(st) => key.notice = n
PROOF
  <1>1. /\ Slots(st) = 1 .. Len(st.pending) /\ Len(st.pending) \in Nat
        /\ Slots(st2) = 1 .. Len(st2.pending) /\ Len(st2.pending) \in Nat
        /\ st2 \in State
    BY Queue DEF Extends
  <1>2. Slots(st) \subseteq Slots(st2)
        /\ \A i \in Slots(st), j \in Slots(st2) : j \notin Slots(st) => i < j
    BY <1>1 DEF Extends
  <1>3. \A i \in Slots(st) : At(st2, i) = At(st, i) /\ IsCopy(st2, i) = IsCopy(st, i)
                             /\ st2.pending[i].key = st.pending[i].key
    BY DEF Extends, At, IsCopy
  <1>4. \A i \in Slots(st2) : i \notin Slots(st) => At(st2, i) = n /\ st2.pending[i].key.notice = n
    BY DEF Extends, At
  <1>5. Noted(st2) \subseteq Noted(st) \cup {n} /\ Noted(st) \subseteq Noted(st2) /\ Ours(st) \subseteq Ours(st2)
    BY <1>2, <1>3, <1>4 DEF Noted, Ours
  <1>6. Waiting(st) = {st.pending[i].key : i \in Slots(st)} /\ Waiting(st2) = {st2.pending[i].key : i \in Slots(st2)}
    BY DEF Waiting, Slots
  <1>7. Waiting(st) \subseteq Waiting(st2)
        /\ \A key \in Waiting(st2) : key \notin Waiting(st) => key.notice = n
    BY <1>2, <1>3, <1>4, <1>6
  <1>8. \A i \in Slots(st2) : i \in Nat
    BY <1>1
  <1> QED BY <1>2, <1>3, <1>5, <1>7, <1>8

(* A document to whose end a timely notice is added.                       *)
LEMMA DocExtends ==
  ASSUME NEW st, NEW st2, NEW P, NEW C, NEW now \in Nat, NEW n \in Notices,
         Doc(st, P, C, now), Extends(st, st2, n), n.since < now, Timely(st, P, C, n),
         n.type = "recovery" => \E m \in P \cup Ours(st) : Same(m, n),
         \A s \in Subjects : RecordOK(st2, P, C, now, s)
  PROVE  Doc(st2, P, C, now)
PROOF
  <1>1. st \in State /\ st2 \in State /\ Distinct(st2) /\ st2.seen = st.seen /\ IsFiniteSet(st.seen)
    BY DEF Doc, Typed, Extends
  <1>2. /\ Slots(st) \subseteq Slots(st2)
        /\ \A i \in Slots(st2) : i \in Nat
        /\ \A i \in Slots(st), j \in Slots(st2) : j \notin Slots(st) => i < j
        /\ \A i \in Slots(st) : At(st2, i) = At(st, i) /\ IsCopy(st2, i) = IsCopy(st, i)
        /\ Noted(st2) \subseteq Noted(st) \cup {n}
    BY <1>1, Slotted
  <1>3. \A i \in Slots(st2) : i \notin Slots(st) => At(st2, i) = n
    BY DEF Extends
  <1>4. Typed(st2)
    BY <1>1 DEF Typed
  <1>5. \A m \in Told(st2, P, C) : m.since < now
    BY <1>2 DEF Doc, Told
  <1>6. InLine(st, P)
    BY DEF Doc
  <1>7. \A m \in P \cup Noted(st) : Same(m, n) => Follows(m, n)
    BY DEF Timely, Told, Follows
  <1>8. Follows(n, n)
    BY DEF Follows
  <1>9. ASSUME NEW i \in Slots(st2), NEW j \in Slots(st2), i < j, ~IsCopy(st2, i), ~IsCopy(st2, j),
               Same(At(st2, i), At(st2, j))
        PROVE  Follows(At(st2, i), At(st2, j))
    <2>1. CASE j \in Slots(st)
      <3>1. i \in Slots(st)
        <4>1. CASE i \notin Slots(st)
          BY <1>2, <1>9, <2>1, <4>1
        <4> QED BY <4>1
      <3> QED BY <1>2, <1>6, <1>9, <2>1, <3>1 DEF InLine
    <2>2. CASE j \notin Slots(st)
      <3>1. At(st2, j) = n
        BY <1>3, <2>2
      <3>2. CASE i \in Slots(st)
        <4>1. At(st2, i) \in Noted(st)
          BY <1>2, <3>2 DEF Noted
        <4> QED BY <1>7, <1>9, <3>1, <4>1
      <3>3. CASE i \notin Slots(st)
        BY <1>3, <1>8, <3>1, <3>3
      <3> QED BY <3>2, <3>3
    <2> QED BY <2>1, <2>2
  <1>10. ASSUME NEW j \in Slots(st2), NEW p \in P, ~IsCopy(st2, j), Same(p, At(st2, j))
         PROVE  Follows(p, At(st2, j))
    <2>1. CASE j \in Slots(st)
      BY <1>2, <1>6, <1>10, <2>1 DEF InLine
    <2>2. CASE j \notin Slots(st)
      BY <1>3, <1>7, <1>10, <2>2
    <2> QED BY <2>1, <2>2
  <1>11. ASSUME NEW j \in Slots(st2), ~IsCopy(st2, j), At(st2, j).type = "recovery"
         PROVE  \/ \E p \in P : Same(p, At(st2, j))
                \/ \E i \in Slots(st2) : i < j /\ ~IsCopy(st2, i) /\ Same(At(st2, i), At(st2, j))
    <2>1. CASE j \in Slots(st)
      <3>1. \/ \E p \in P : Same(p, At(st, j))
            \/ \E i \in Slots(st) : i < j /\ ~IsCopy(st, i) /\ Same(At(st, i), At(st, j))
        BY <1>2, <1>6, <1>11, <2>1 DEF InLine
      <3> QED BY <1>2, <2>1, <3>1
    <2>2. CASE j \notin Slots(st)
      <3>1. PICK m \in P \cup Ours(st) : Same(m, n)
        BY <1>3, <1>11, <2>2
      <3>2. CASE m \in Ours(st)
        <4>1. PICK i \in Slots(st) : ~IsCopy(st, i) /\ m = At(st, i)
          BY <3>2 DEF Ours
        <4> QED BY <1>2, <1>3, <2>2, <3>1, <4>1
      <3> QED BY <1>3, <2>2, <3>1, <3>2
    <2> QED BY <2>1, <2>2
  <1>12. \A entry \in st2.seen : ~entry.key.copy => entry.key.notice \in P
    BY <1>1, <1>6 DEF InLine
  <1>13. InLine(st2, P)
    BY <1>9, <1>10, <1>11, <1>12 DEF InLine
  <1> QED BY <1>4, <1>5, <1>13 DEF Doc

(* Changing a record leaves the queue alone.                               *)
LEMMA SetQueue ==
  ASSUME NEW st \in State, NEW s \in Subjects, NEW r \in Records
  PROVE  LET st2 == Set(st, s, r)
         IN  /\ st2 \in State /\ st2.pending = st.pending /\ st2.seen = st.seen
             /\ st2.records = [st.records EXCEPT ![s] = r]
PROOF
  <1>1. st.records \in [Subjects -> Records]
    BY DEF State
  <1>2. [st.records EXCEPT ![s] = r] \in [Subjects -> Records]
    BY <1>1
  <1> QED BY <1>1, <1>2 DEF Set, State

LEMMA SameQueue ==
  ASSUME NEW st \in State, Distinct(st), NEW st2 \in State, st2.pending = st.pending, st2.seen = st.seen, NEW n
  PROVE  Distinct(st2) /\ Extends(st, st2, n) /\ Waiting(st2) = Waiting(st) /\ Remembered(st2) = Remembered(st)
         /\ Noted(st2) = Noted(st) /\ Ours(st2) = Ours(st)
PROOF
  <1>1. Waiting(st2) = Waiting(st) /\ Remembered(st2) = Remembered(st)
    BY DEF Waiting, Remembered
  <1>2. Noted(st2) = Noted(st) /\ Ours(st2) = Ours(st) /\ Slots(st2) = Slots(st)
    BY DEF Noted, Ours, At, IsCopy, Slots
  <1>3. Distinct(st2)
    BY <1>1 DEF Distinct
  <1>4. Len(st.pending) \in Nat
    BY Queue
  <1> QED BY <1>1, <1>2, <1>3, <1>4 DEF Extends

LEMMA SetEnqueue ==
  ASSUME NEW st \in State, Distinct(st), NEW s \in Subjects, NEW r \in Records, NEW n \in Notices, NEW now \in Nat
  PROVE  LET st2 == Enqueue(Set(st, s, r), n, now)
         IN  /\ Extends(st, st2, n) /\ st2.records = [st.records EXCEPT ![s] = r]
             /\ n \in Ours(st2) \/ [notice |-> n, copy |-> FALSE] \in Remembered(st)
PROOF
  <1> DEFINE st1 == Set(st, s, r)
             st2 == Enqueue(st1, n, now)
             key == [notice |-> n, copy |-> FALSE]
  <1>1. st1 \in State /\ st1.pending = st.pending /\ st1.seen = st.seen
        /\ st1.records = [st.records EXCEPT ![s] = r]
    BY SetQueue
  <1> HIDE DEF st1
  <1>2. Distinct(st1) /\ Extends(st, st1, n) /\ Remembered(st1) = Remembered(st)
    BY <1>1, SameQueue
  <1>3. Extends(st1, st2, n) /\ st2.records = st1.records /\ key \in Waiting(st2) \cup Remembered(st1)
    BY <1>1, <1>2, EnqueueExtends
  <1> HIDE DEF st2, key
  <1>4. Extends(st, st2, n)
    BY <1>1, <1>2, <1>3, ExtendsTwice
  <1>5. st2 \in State
    BY <1>4 DEF Extends
  <1>6. CASE key \in Waiting(st2)
    <2>1. PICK i \in Slots(st2) : st2.pending[i].key = key
      BY <1>5, <1>6, Queue
    <2>2. At(st2, i) = n /\ ~IsCopy(st2, i)
      BY <2>1 DEF key, At, IsCopy
    <2>3. n \in Ours(st2)
      BY <2>2 DEF Ours
    <2> QED BY <1>1, <1>3, <1>4, <2>3 DEF st1, st2
  <1>7. CASE key \in Remembered(st1)
    BY <1>1, <1>2, <1>3, <1>4, <1>7 DEF st1, st2, key
  <1> QED BY <1>3, <1>6, <1>7

(* The record of another subject, or one that changes in what its incident *)
(* does not depend on, is as good as before.                               *)
LEMMA RecordExtends ==
  ASSUME NEW st \in State, NEW st2, NEW P, NEW C, NEW now \in Nat, NEW n, NEW s \in Subjects,
         RecordOK(st, P, C, now, s), Extends(st, st2, n),
         n \in Noted(st) \/ n.subject # s,
         st2.records[s].since = st.records[s].since,
         st2.records[s].last = st.records[s].last,
         st2.records[s].notified = st.records[s].notified
  PROVE  RecordOK(st2, P, C, now, s)
PROOF
  <1>1. Noted(st2) \subseteq Noted(st) \cup {n} /\ Ours(st) \subseteq Ours(st2)
    BY Slotted
  <1>2. \A m \in Told(st2, P, C) : m.subject = s => m \in Told(st, P, C)
    BY <1>1 DEF Told
  <1>3. \A m \in P \cup Ours(st) : m \in P \cup Ours(st2)
    BY <1>1
  <1> QED BY <1>2, <1>3 DEF RecordOK

(* A subject without an incident, or with one that starts now.             *)
LEMMA RecordClosed ==
  ASSUME NEW st \in State, NEW P \in SUBSET Notices, NEW C \in SUBSET Notices, NEW now \in Nat, NEW s \in Subjects,
         \A m \in Told(st, P, C) : m.since < now,
         st.records[s].since = NoTime \/ st.records[s].since = now,
         st.records[s].last = NoTime, ~st.records[s].notified
  PROVE  RecordOK(st, P, C, now, s)
PROOF
  <1>1. \A n \in Told(st, P, C) : n.since \in Nat
    BY Queue DEF Told, Notices
  <1>2. \A n \in Told(st, P, C) : n.since # st.records[s].since
    BY <1>1, Constants
  <1> QED BY <1>2 DEF RecordOK

(* A document in which nothing but such things changes.                    *)
LEMMA DocRecords ==
  ASSUME NEW st, NEW st2 \in State, NEW P, NEW C, NEW now \in Nat,
         Doc(st, P, C, now), st2.pending = st.pending, st2.seen = st.seen,
         \A s \in Subjects : RecordOK(st2, P, C, now, s)
  PROVE  Doc(st2, P, C, now)
PROOF
  <1>1. st \in State /\ IsFiniteSet(st.seen) /\ Distinct(st)
    BY DEF Doc, Typed
  <1>2. Distinct(st2) /\ Noted(st2) = Noted(st)
    BY <1>1, SameQueue
  <1>3. \A i \in Slots(st) : At(st2, i) = At(st, i) /\ IsCopy(st2, i) = IsCopy(st, i)
    BY DEF At, IsCopy
  <1>4. Slots(st2) = Slots(st)
    BY DEF Slots
  <1>5. InLine(st, P)
    BY DEF Doc
  <1>6. InLine(st2, P)
    BY <1>3, <1>4, <1>5 DEF InLine
  <1> QED BY <1>1, <1>2, <1>6 DEF Doc, Typed, Told

-----------------------------------------------------------------------------
(* What each operation on a document does to it.                           *)

(* The records of the others.                                              *)
Others(st, st2, s) == \A t \in Subjects \ {s} : st2.records[t] = st.records[t]

(* A step that decides at most on one timely notice of subject s, and      *)
(* leaves the records of the others.                                       *)
Decides(st, st2, P, C, now, s) ==
  /\ Doc(st2, P, C, now)
  /\ st2.seen = st.seen
  /\ Others(st, st2, s)
  /\ \E n \in Notices : /\ n.subject = s /\ Extends(st, st2, n)
                        /\ st2.pending = st.pending \/ Timely(st, P, C, n)

NewKeys(st, st2) == Waiting(st2) \ Waiting(st)
Recovers(st, st2) == \E key \in NewKeys(st, st2) : key.notice.type = "recovery"

LEMMA Closes ==
  ASSUME NEW st, NEW P \in SUBSET Notices, NEW C \in SUBSET Notices, NEW now \in Nat, NEW s \in Subjects,
         Doc(st, P, C, now), NEW r \in Records,
         r.since = NoTime \/ r.since = now, r.last = NoTime, ~r.notified
  PROVE  LET st2 == Set(st, s, r)
         IN  Decides(st, st2, P, C, now, s) /\ st2.records[s] = r /\ st2.pending = st.pending
PROOF
  <1> DEFINE st2 == Set(st, s, r)
  <1>1. st \in State /\ Distinct(st)
    BY DEF Doc, Typed
  <1>2. st2 \in State /\ st2.pending = st.pending /\ st2.seen = st.seen
        /\ st2.records = [st.records EXCEPT ![s] = r]
    BY <1>1, SetQueue
  <1> HIDE DEF st2
  <1>3. st.records \in [Subjects -> Records]
    BY <1>1, Queue
  <1>4. st2.records[s] = r /\ \A t \in Subjects \ {s} : st2.records[t] = st.records[t]
    BY <1>2, <1>3
  <1>5. PICK n \in Notices : n.subject = s
    <2>1. [type |-> "incident", subject |-> s, since |-> 0, at |-> 0] \in Notices
      BY DEF Notices, Times
    <2> QED BY <2>1
  <1>6. Extends(st, st2, n)
    BY <1>1, <1>2, SameQueue
  <1>7. ASSUME NEW t \in Subjects PROVE RecordOK(st2, P, C, now, t)
    <2>1. CASE t = s
      <3>1. \A m \in Told(st2, P, C) : m.since < now
        BY <1>1, <1>2, SameQueue DEF Told, Doc
      <3> QED BY <1>2, <1>4, <2>1, <3>1, RecordClosed
    <2>2. CASE t # s
      <3>1. RecordOK(st, P, C, now, t)
        BY DEF Doc
      <3> QED BY <1>1, <1>4, <1>5, <1>6, <2>2, <3>1, RecordExtends
    <2> QED BY <2>1, <2>2
  <1>8. Doc(st2, P, C, now)
    BY <1>2, <1>7, DocRecords
  <1> QED BY <1>2, <1>4, <1>5, <1>6, <1>8 DEF Decides, Others, st2

LEMMA ClosesAny ==
  ASSUME NEW st, NEW P \in SUBSET Notices, NEW C \in SUBSET Notices, NEW now \in Nat, NEW s \in Subjects,
         Doc(st, P, C, now)
  PROVE  LET st2 == Set(st, s, Closed)
         IN  Decides(st, st2, P, C, now, s) /\ st2.records[s] = Closed /\ st2.pending = st.pending
PROOF
  <1>1. \A x \in Records :
          /\ x.since = NoTime \/ x.since = now
          /\ x.last = NoTime /\ ~x.notified
          => /\ Decides(st, Set(st, s, x), P, C, now, s) /\ Set(st, s, x).records[s] = x
             /\ Set(st, s, x).pending = st.pending
    BY Closes
  <1>2. Closed \in Records /\ Closed.since = NoTime /\ Closed.last = NoTime /\ ~Closed.notified
    BY DEF Closed, Records, Times
  <1> QED BY <1>1, <1>2

(* A record whose incident stays as it is.                                 *)
LEMMA Keeps ==
  ASSUME NEW st, NEW P \in SUBSET Notices, NEW C \in SUBSET Notices, NEW now \in Nat, NEW s \in Subjects,
         Doc(st, P, C, now), NEW r \in Records,
         r.since = st.records[s].since, r.last = st.records[s].last, r.notified = st.records[s].notified
  PROVE  LET st2 == Set(st, s, r)
         IN  Decides(st, st2, P, C, now, s) /\ st2.records[s] = r /\ st2.pending = st.pending
PROOF
  <1> DEFINE st2 == Set(st, s, r)
  <1>1. st \in State /\ Distinct(st)
    BY DEF Doc, Typed
  <1>2. st2 \in State /\ st2.pending = st.pending /\ st2.seen = st.seen
        /\ st2.records = [st.records EXCEPT ![s] = r]
    BY <1>1, SetQueue
  <1> HIDE DEF st2
  <1>3. st.records \in [Subjects -> Records]
    BY <1>1, Queue
  <1>4. st2.records[s] = r /\ \A t \in Subjects \ {s} : st2.records[t] = st.records[t]
    BY <1>2, <1>3
  <1>5. ASSUME NEW t \in Subjects PROVE RecordOK(st2, P, C, now, t)
    <2>1. PICK n \in Notices : n.subject # t
      <3>1. \A x \in Subjects : [type |-> "incident", subject |-> x, since |-> 0, at |-> 0] \in Notices
        BY DEF Notices, Times
      <3> QED BY <3>1, Constants
    <2>2. Extends(st, st2, n)
      BY <1>1, <1>2, SameQueue
    <2>3. RecordOK(st, P, C, now, t)
      BY DEF Doc
    <2>4. st2.records[t].since = st.records[t].since /\ st2.records[t].last = st.records[t].last
          /\ st2.records[t].notified = st.records[t].notified
      BY <1>4
    <2> QED BY <1>1, <2>1, <2>2, <2>3, <2>4, RecordExtends
  <1>6. Doc(st2, P, C, now)
    BY <1>2, <1>5, DocRecords
  <1>7. PICK n \in Notices : n.subject = s
    <2>1. [type |-> "incident", subject |-> s, since |-> 0, at |-> 0] \in Notices
      BY DEF Notices, Times
    <2> QED BY <2>1
  <1>8. Extends(st, st2, n)
    BY <1>1, <1>2, SameQueue
  <1> QED BY <1>2, <1>4, <1>6, <1>7, <1>8 DEF Decides, Others, st2

(* Telling of an incident: what was told of it before was told Reminder    *)
(* ago or earlier.                                                         *)
LEMMA TellsIncident ==
  ASSUME NEW st, NEW P \in SUBSET Notices, NEW C \in SUBSET Notices, NEW now \in Nat, NEW s \in Subjects,
         Doc(st, P, C, now), NEW r \in Records, NEW n \in Notices,
         n.type = "incident", n.subject = s, n.since = r.since, n.at = now,
         r.since = st.records[s].since, r.since < now, r.last = now,
         st.records[s].last = NoTime \/ now - st.records[s].last >= Reminder
  PROVE  LET st2 == Enqueue(Set(st, s, r), n, now)
         IN  /\ Decides(st, st2, P, C, now, s) /\ st2.records[s] = r
             /\ Extends(st, st2, n)
PROOF
  <1> DEFINE st2 == Enqueue(Set(st, s, r), n, now)
             old == st.records[s]
  <1>1. st \in State /\ Distinct(st) /\ InLine(st, P) /\ RecordOK(st, P, C, now, s)
    BY DEF Doc, Typed
  <1>2. Extends(st, st2, n) /\ st2.records = [st.records EXCEPT ![s] = r]
        /\ (n \in Ours(st2) \/ [notice |-> n, copy |-> FALSE] \in Remembered(st))
    BY <1>1, SetEnqueue
  <1> HIDE DEF st2
  <1>3. st.records \in [Subjects -> Records]
    BY <1>1, Queue
  <1>4. st2.records[s] = r /\ \A t \in Subjects \ {s} : st2.records[t] = st.records[t]
    BY <1>2, <1>3
  <1>5. n.since \in Nat /\ old.last \in Times /\ NoTime = -1 /\ Reminder \in Nat /\ Reminder >= 1
    BY <1>3, Constants DEF Notices, Records
  <1>6. \A m \in Told(st, P, C) : m \in Notices /\ m.at \in Times
    BY <1>1, Queue DEF Told, Notices
  <1>7. ASSUME NEW m \in Told(st, P, C), Same(m, n)
        PROVE  m.type = "incident" /\ n.at - m.at >= Reminder /\ m.at <= now
    <2>1. m.type = "incident" /\ old.last # NoTime /\ m.at <= old.last /\ old.last <= now
      BY <1>1, <1>7 DEF RecordOK, Same
    <2>2. now - old.last >= Reminder
      BY <2>1
    <2>3. old.last \in Int /\ m.at \in Int /\ Reminder \in Int
      BY <1>5, <1>6, <1>7 DEF Times
    <2>4. \A a, b, c \in Int : a <= b /\ b <= now /\ now - b >= c => now - a >= c /\ a <= now
      OBVIOUS
    <2> QED BY <2>1, <2>2, <2>3, <2>4
  <1>8. Timely(st, P, C, n)
    BY <1>7 DEF Timely
  <1>9. n \in P \cup Ours(st2)
    <2>1. CASE [notice |-> n, copy |-> FALSE] \in Remembered(st)
      <3>1. PICK entry \in st.seen : entry.key = [notice |-> n, copy |-> FALSE]
        BY <2>1 DEF Remembered
      <3>2. ~entry.key.copy /\ entry.key.notice = n
        BY <3>1
      <3>3. entry.key.notice \in P
        BY <1>1, <3>2 DEF InLine
      <3> QED BY <3>2, <3>3
    <2> QED BY <1>2, <2>1
  <1>10. Noted(st2) \subseteq Noted(st) \cup {n}
    BY <1>1, <1>2, Slotted
  <1>11. ASSUME NEW t \in Subjects PROVE RecordOK(st2, P, C, now, t)
    <2>1. CASE t = s
      <3>1. r.since # NoTime /\ r.last # NoTime /\ r.since <= now /\ r.last <= now /\ r.since < r.last
        BY <1>5
      <3>2. ASSUME NEW m \in Told(st2, P, C), m.subject = s, m.since = r.since
            PROVE  m.type = "incident" /\ m.at <= r.last
        <4>1. CASE m = n
          BY <4>1
        <4>2. CASE m # n
          <5>1. m \in Told(st, P, C) /\ Same(m, n)
            BY <1>10, <3>2, <4>2 DEF Told, Same
          <5> QED BY <1>7, <5>1
        <4> QED BY <4>1, <4>2
      <3> QED BY <1>4, <1>9, <2>1, <3>1, <3>2 DEF RecordOK
    <2>2. CASE t # s
      <3>1. RecordOK(st, P, C, now, t)
        BY DEF Doc
      <3> QED BY <1>1, <1>2, <1>4, <2>2, <3>1, RecordExtends
    <2> QED BY <2>1, <2>2
  <1>12. Doc(st2, P, C, now)
    BY <1>2, <1>8, <1>11, DocExtends
  <1> QED BY <1>2, <1>4, <1>8, <1>12 DEF Decides, Others, st2, Extends

(* Telling of the recovery of a notified incident.                         *)
LEMMA TellsRecovery ==
  ASSUME NEW st, NEW P \in SUBSET Notices, NEW C \in SUBSET Notices, NEW now \in Nat, NEW s \in Subjects,
         Doc(st, P, C, now), NEW n \in Notices, st.records[s].notified,
         n.type = "recovery", n.subject = s, n.since = st.records[s].since
  PROVE  LET st2 == Enqueue(Set(st, s, Closed), n, now)
         IN  /\ Decides(st, st2, P, C, now, s) /\ st2.records[s] = Closed
             /\ Extends(st, st2, n)
PROOF
  <1> DEFINE st2 == Enqueue(Set(st, s, Closed), n, now)
             old == st.records[s]
  <1>0. Closed \in Records
    BY DEF Closed, Records, Times
  <1>1. st \in State /\ Distinct(st) /\ InLine(st, P) /\ RecordOK(st, P, C, now, s)
    BY DEF Doc, Typed
  <1>2. Extends(st, st2, n) /\ st2.records = [st.records EXCEPT ![s] = Closed]
        /\ (n \in Ours(st2) \/ [notice |-> n, copy |-> FALSE] \in Remembered(st))
    BY <1>0, <1>1, SetEnqueue
  <1> HIDE DEF st2
  <1>3. st.records \in [Subjects -> Records]
    BY <1>1, Queue
  <1>4. st2.records[s] = Closed /\ \A t \in Subjects \ {s} : st2.records[t] = st.records[t]
    BY <1>2, <1>3
  <1>5. st2 \in State
    BY <1>2 DEF Extends
  <1>6. \A m \in Told(st, P, C) : Same(m, n) => m.type = "incident"
    BY <1>1 DEF RecordOK, Same
  <1>7. Timely(st, P, C, n)
    BY <1>6 DEF Timely
  <1>8. PICK m \in P \cup Ours(st) : Same(m, n)
    BY <1>1 DEF RecordOK, Same
  <1>9. n.since < now
    <2>1. m \in Told(st, P, C)
      BY <1>1, <1>8, Queue DEF Told
    <2> QED BY <1>8, <2>1 DEF Doc, Same
  <1>10. ASSUME NEW t \in Subjects PROVE RecordOK(st2, P, C, now, t)
    <2>1. CASE t = s
      <3>1. st2.records[s].since = NoTime /\ st2.records[s].last = NoTime /\ ~st2.records[s].notified
        BY <1>4 DEF Closed
      <3>2. \A x \in Told(st2, P, C) : x.since < now
        BY <1>1, <1>2, <1>9, Slotted DEF Told, Doc
      <3> QED BY <1>5, <2>1, <3>1, <3>2, RecordClosed
    <2>2. CASE t # s
      <3>1. RecordOK(st, P, C, now, t)
        BY DEF Doc
      <3> QED BY <1>1, <1>2, <1>4, <2>2, <3>1, RecordExtends
    <2> QED BY <2>1, <2>2
  <1>11. Doc(st2, P, C, now)
    BY <1>2, <1>7, <1>8, <1>9, <1>10, DocExtends
  <1> QED BY <1>2, <1>4, <1>7, <1>11 DEF Decides, Others, st2, Extends

LEMMA FaultDecides ==
  ASSUME NEW st, NEW P \in SUBSET Notices, NEW C \in SUBSET Notices, NEW now \in Nat, NEW s \in Subjects,
         Doc(st, P, C, now), NEW f \in Faults \cup {"none", "unreadable", "unreachable"}
  PROVE  LET st2 == Fault(st, s, f, now)
         IN  /\ Decides(st, st2, P, C, now, s) /\ st2.records[s].healthy = NoTime
             /\ ~Recovers(st, st2)
PROOF
  <1> DEFINE old == st.records[s]
             record == [old EXCEPT !.healthy = NoTime, !.since = Since(old, now), !.fault = f]
             r == [record EXCEPT !.last = now, !.notified = TRUE]
             n == [type |-> "incident", subject |-> s, since |-> record.since, at |-> now]
  <1>1. st \in State /\ RecordOK(st, P, C, now, s)
    BY DEF Doc, Typed
  <1>2. old \in Records
    BY <1>1, Queue
  <1>3. Since(old, now) \in Times /\ old.last \in Times /\ now \in Times
    BY <1>2 DEF Since, Records, Times
  <1>4. record \in Records /\ record.since = Since(old, now) /\ record.last = old.last
        /\ record.notified = old.notified /\ record.healthy = NoTime
    BY <1>2, <1>3, Constants DEF Records
  <1>5. r \in Records /\ r.since = Since(old, now) /\ r.last = now /\ r.healthy = NoTime
    BY <1>2, <1>3, Constants DEF Records
  <1>6. Fault(st, s, f, now) = IF Due(old, s, now) THEN Enqueue(Set(st, s, r), n, now) ELSE Set(st, s, record)
    BY DEF Fault
  <1>7. CASE Due(old, s, now)
    <2>1. now - Since(old, now) >= GraceOf(s) /\ (old.last = NoTime \/ now - old.last >= Reminder)
      BY <1>7 DEF Due
    <2>2. Since(old, now) = old.since /\ old.since \in Nat /\ old.since < now
      <3>1. GraceOf(s) \in Nat /\ GraceOf(s) >= 1 /\ NoTime = -1
        BY Constants
      <3>2. Since(old, now) # now
        <4>1. now - now < GraceOf(s)
          BY <3>1
        <4> QED BY <2>1, <3>1, <4>1
      <3>3. Since(old, now) = old.since /\ old.since # NoTime
        BY <3>2 DEF Since
      <3>4. old.since \in Nat
        BY <1>2, <3>3 DEF Records, Times
      <3>5. \A a, b \in Nat : now - a >= b /\ b >= 1 => a < now
        OBVIOUS
      <3> QED BY <2>1, <3>1, <3>3, <3>4, <3>5
    <2>3. n \in Notices
      BY <1>3, <1>4, <2>2 DEF Notices
    <2>4. n.type = "incident" /\ n.subject = s /\ n.since = r.since /\ n.at = now
      BY <1>4, <1>5
    <2>5. r.since = st.records[s].since /\ r.since < now /\ r.last = now
          /\ (st.records[s].last = NoTime \/ now - st.records[s].last >= Reminder)
      BY <1>5, <2>1, <2>2
    <2> HIDE DEF n, r, record, old
    <2>6. LET st2 == Enqueue(Set(st, s, r), n, now)
          IN  /\ Decides(st, st2, P, C, now, s) /\ st2.records[s] = r
              /\ Extends(st, st2, n)
      <3>1. \A x \in Records, m \in Notices :
              /\ m.type = "incident" /\ m.subject = s /\ m.since = x.since /\ m.at = now
              /\ x.since = st.records[s].since /\ x.since < now /\ x.last = now
              /\ st.records[s].last = NoTime \/ now - st.records[s].last >= Reminder
              => /\ Decides(st, Enqueue(Set(st, s, x), m, now), P, C, now, s)
                 /\ Enqueue(Set(st, s, x), m, now).records[s] = x
                 /\ Extends(st, Enqueue(Set(st, s, x), m, now), m)
        BY TellsIncident
      <3> QED BY <1>5, <2>3, <2>4, <2>5, <3>1
    <2>7. \A key \in NewKeys(st, Enqueue(Set(st, s, r), n, now)) : key.notice = n
      BY <1>1, <2>6, Slotted DEF NewKeys
    <2> QED BY <1>5, <1>6, <1>7, <2>4, <2>6, <2>7 DEF Recovers
  <1>8. CASE ~Due(old, s, now)
    <2>1. Fault(st, s, f, now) = Set(st, s, record)
      BY <1>6, <1>8
    <2>2. CASE old.since = NoTime
      <3>1. record.since = now /\ record.last = NoTime /\ ~record.notified
        BY <1>1, <1>4, <2>2 DEF Since, RecordOK
      <3>2. record.since = NoTime \/ record.since = now
        BY <3>1
      <3> HIDE DEF record, old
      <3>3. LET st2 == Set(st, s, record)
            IN  Decides(st, st2, P, C, now, s) /\ st2.records[s] = record /\ st2.pending = st.pending
        <4>1. \A x \in Records :
                /\ x.since = NoTime \/ x.since = now
                /\ x.last = NoTime /\ ~x.notified
                => /\ Decides(st, Set(st, s, x), P, C, now, s) /\ Set(st, s, x).records[s] = x
                   /\ Set(st, s, x).pending = st.pending
          BY Closes
        <4> QED BY <1>4, <3>1, <3>2, <4>1
      <3> QED BY <1>4, <2>1, <3>3 DEF Recovers, NewKeys, Waiting
    <2>3. CASE old.since # NoTime
      <3>1. record.since = st.records[s].since /\ record.last = st.records[s].last
            /\ record.notified = st.records[s].notified
        BY <1>4, <2>3 DEF Since
      <3> HIDE DEF record, old
      <3>2. LET st2 == Set(st, s, record)
            IN  Decides(st, st2, P, C, now, s) /\ st2.records[s] = record /\ st2.pending = st.pending
        BY <1>4, <3>1, Keeps
      <3> QED BY <1>4, <2>1, <3>2 DEF Recovers, NewKeys, Waiting
    <2> QED BY <2>2, <2>3
  <1> QED BY <1>7, <1>8

LEMMA WellDecides ==
  ASSUME NEW st, NEW P \in SUBSET Notices, NEW C \in SUBSET Notices, NEW now \in Nat, NEW s \in Subjects,
         Doc(st, P, C, now), NEW healthy \in Int, healthy \in Times \/ now - healthy >= Recovery
  PROVE  LET st2 == WellSince(st, s, healthy, now)
         IN  /\ Decides(st, st2, P, C, now, s)
             /\ st2.records[s].healthy = NoTime \/ st2.records[s].healthy = healthy
             /\ NewKeys(st, st2) # {} => now - healthy >= Recovery
PROOF
  <1> DEFINE old == st.records[s]
             r == [old EXCEPT !.healthy = healthy]
             n == [type |-> "recovery", subject |-> s, since |-> old.since, at |-> NoTime]
             st2 == WellSince(st, s, healthy, now)
  <1>1. st \in State /\ RecordOK(st, P, C, now, s)
    BY DEF Doc, Typed
  <1>2. old \in Records
    BY <1>1, Queue
  <1>3. Closed \in Records /\ Closed.since = NoTime /\ Closed.last = NoTime /\ ~Closed.notified
        /\ Closed.healthy = NoTime
    BY DEF Closed, Records, Times
  <1>4. Recovery \in Nat /\ NoTime = -1
    BY Constants
  <1>5. CASE ~old.notified
    <2>1. st2 = Set(st, s, Closed)
      BY <1>5 DEF WellSince
    <2>4. Decides(st, st2, P, C, now, s) /\ st2.records[s] = Closed /\ st2.pending = st.pending
      BY <2>1, ClosesAny
    <2> QED BY <1>3, <2>4 DEF NewKeys, Waiting
  <1>6. CASE old.notified /\ now - healthy < Recovery
    <2>1. st2 = Set(st, s, r)
      BY <1>6 DEF WellSince
    <2>2. healthy \in Times
      BY <1>4, <1>6
    <2>3. r \in Records /\ r.since = old.since /\ r.last = old.last /\ r.notified = old.notified /\ r.healthy = healthy
      BY <1>2, <2>2 DEF Records
    <2>4. LET st3 == Set(st, s, r)
          IN  Decides(st, st3, P, C, now, s) /\ st3.records[s] = r /\ st3.pending = st.pending
      <3>1. \A x \in Records :
              x.since = st.records[s].since /\ x.last = st.records[s].last /\ x.notified = st.records[s].notified
              => /\ Decides(st, Set(st, s, x), P, C, now, s) /\ Set(st, s, x).records[s] = x
                 /\ Set(st, s, x).pending = st.pending
        BY Keeps
      <3> QED BY <2>3, <3>1
    <2> HIDE DEF st2, r
    <2>5. NewKeys(st, st2) = {}
      BY <2>1, <2>4 DEF NewKeys, Waiting
    <2>6. Decides(st, st2, P, C, now, s) /\ st2.records[s].healthy = healthy
      BY <2>1, <2>3, <2>4
    <2> QED BY <2>5, <2>6 DEF st2
  <1>7. CASE old.notified /\ ~(now - healthy < Recovery)
    <2>1. st2 = Enqueue(Set(st, s, Closed), n, now)
      BY <1>7 DEF WellSince
    <2>2. old.since \in Nat
      <3>1. old.last # NoTime /\ old.since # NoTime
        BY <1>1, <1>7 DEF RecordOK
      <3> QED BY <1>2, <3>1 DEF Records, Times
    <2>3. n \in Notices /\ n.type = "recovery" /\ n.subject = s /\ n.since = st.records[s].since
      BY <2>2 DEF Notices, Times
    <2>4. st.records[s].notified
      BY <1>7
    <2> HIDE DEF n, r, old, st2
    <2>5. LET st3 == Enqueue(Set(st, s, Closed), n, now)
          IN  /\ Decides(st, st3, P, C, now, s) /\ st3.records[s] = Closed
              /\ Extends(st, st3, n)
      <3>1. \A m \in Notices :
              /\ st.records[s].notified
              /\ m.type = "recovery" /\ m.subject = s /\ m.since = st.records[s].since
              => /\ Decides(st, Enqueue(Set(st, s, Closed), m, now), P, C, now, s)
                 /\ Enqueue(Set(st, s, Closed), m, now).records[s] = Closed
                 /\ Extends(st, Enqueue(Set(st, s, Closed), m, now), m)
        BY TellsRecovery
      <3> QED BY <2>3, <2>4, <3>1
    <2>6. now - healthy >= Recovery
      BY <1>4, <1>7
    <2>7. \A key \in NewKeys(st, st2) : key.notice = n
      BY <1>1, <2>1, <2>5, Slotted DEF NewKeys, st2
    <2> QED BY <1>3, <2>1, <2>3, <2>5, <2>6, <2>7 DEF st2
  <1> QED BY <1>5, <1>6, <1>7

-----------------------------------------------------------------------------
(* What the passes need of these operations.                               *)

(* The order in which copies will be sent when the first n are still to be *)
(* offered in this pass, and the others were refused in it.                *)
Ahead(i, j, n) == IF (i <= n) = (j <= n) THEN i < j ELSE i > n
CopyOrder(st, C, n) ==
  /\ \A i, j \in Slots(st) :
       Ahead(i, j, n) /\ IsCopy(st, i) /\ IsCopy(st, j) /\ Same(At(st, i), At(st, j))
       /\ At(st, i).type = "recovery" => At(st, j).type = "recovery"
  /\ \A c \in C, j \in Slots(st) :
       IsCopy(st, j) /\ Same(c, At(st, j)) /\ c.type = "recovery" => At(st, j).type = "recovery"
Straight(st, C) == CopyOrder(st, C, Len(st.pending))

Builds(st, st2, P, C, now, s) ==
  /\ Doc(st2, P, C, now)
  /\ Waiting(st) \subseteq Waiting(st2)
  /\ \A key \in NewKeys(st, st2) : key.notice.subject = s /\ key.notice \notin P \cup C
  /\ Straight(st, C) => Straight(st2, C)

LEMMA AheadStraight ==
  ASSUME NEW n \in Nat, NEW i \in 1 .. n, NEW j \in 1 .. n
  PROVE  Ahead(i, j, n) <=> i < j
BY DEF Ahead

LEMMA DecidesBuilds ==
  ASSUME NEW st \in State, NEW st2, NEW P, NEW C, NEW now, NEW s, Decides(st, st2, P, C, now, s)
  PROVE  Builds(st, st2, P, C, now, s) /\ Others(st, st2, s)
PROOF
  <1>1. PICK n \in Notices : /\ n.subject = s /\ Extends(st, st2, n)
                             /\ st2.pending = st.pending \/ Timely(st, P, C, n)
    BY DEF Decides
  <1>2. st2 \in State
    BY <1>1 DEF Extends
  <1>3. /\ Slots(st) \subseteq Slots(st2)
        /\ \A i \in Slots(st), j \in Slots(st2) : j \notin Slots(st) => i < j
        /\ \A i \in Slots(st) : At(st2, i) = At(st, i) /\ IsCopy(st2, i) = IsCopy(st, i)
        /\ Waiting(st) \subseteq Waiting(st2)
        /\ \A key \in Waiting(st2) : key \notin Waiting(st) => key.notice = n
    BY <1>1, Slotted
  <1>4. CASE st2.pending = st.pending
    <2>1. Waiting(st2) = Waiting(st) /\ Slots(st2) = Slots(st)
      BY <1>4 DEF Waiting, Slots
    <2>2. Straight(st, C) => Straight(st2, C)
      BY <1>3, <1>4, <2>1 DEF Straight, CopyOrder
    <2> QED BY <2>1, <2>2 DEF Builds, Decides, NewKeys
  <1>5. CASE Timely(st, P, C, n)
    <2>1. n \notin P \cup C
      <3>1. ~(n.type = "incident" /\ n.at - n.at >= Reminder)
        <4>1. CASE n.type = "incident"
          <5>1. n.at \in Int /\ Reminder \in Nat /\ Reminder >= 1
            BY Constants DEF Notices, Times
          <5> QED BY <5>1
        <4> QED BY <4>1
      <3>2. Same(n, n)
        BY DEF Same
      <3>3. n \in Told(st, P, C) => n.type = "incident" /\ n.at - n.at >= Reminder
        BY <1>5, <3>2 DEF Timely
      <3> QED BY <3>1, <3>3 DEF Told
    <2>2. Len(st.pending) \in Nat /\ Slots(st) = 1 .. Len(st.pending)
          /\ Len(st2.pending) \in Nat /\ Slots(st2) = 1 .. Len(st2.pending)
      BY <1>2, Queue
    <2>3. ASSUME Straight(st, C) PROVE Straight(st2, C)
      <3>1. \A i, j \in Slots(st) : i < j /\ IsCopy(st, i) /\ IsCopy(st, j) /\ Same(At(st, i), At(st, j))
              /\ At(st, i).type = "recovery" => At(st, j).type = "recovery"
        BY <2>2, <2>3, AheadStraight DEF Straight, CopyOrder
      <3>2. ASSUME NEW i \in Slots(st2), NEW j \in Slots(st2), i < j, IsCopy(st2, i), IsCopy(st2, j),
                   Same(At(st2, i), At(st2, j)), At(st2, i).type = "recovery"
            PROVE  At(st2, j).type = "recovery"
        <4>1. CASE j \in Slots(st)
          <5>1. i \in Slots(st)
            BY <2>2, <3>2, <4>1
          <5> QED BY <1>3, <3>1, <3>2, <4>1, <5>1
        <4>2. CASE j \notin Slots(st) /\ i \in Slots(st)
          <5>1. At(st2, j) = n
            BY <1>1, <4>2 DEF Extends
          <5>2. At(st, i) \in Told(st, P, C) /\ At(st2, i) = At(st, i)
            BY <1>3, <4>2 DEF Told, Noted
          <5> QED BY <1>5, <3>2, <5>1, <5>2 DEF Timely
        <4>3. CASE j \notin Slots(st) /\ i \notin Slots(st)
          BY <1>1, <3>2, <4>3 DEF Extends
        <4> QED BY <4>1, <4>2, <4>3
      <3>3. ASSUME NEW c \in C, NEW j \in Slots(st2), IsCopy(st2, j), Same(c, At(st2, j)), c.type = "recovery"
            PROVE  At(st2, j).type = "recovery"
        <4>1. CASE j \in Slots(st)
          BY <1>3, <2>3, <3>3, <4>1 DEF Straight, CopyOrder
        <4>2. CASE j \notin Slots(st)
          <5>1. At(st2, j) = n
            BY <1>1, <4>2 DEF Extends
          <5> QED BY <1>5, <3>3, <5>1 DEF Timely, Told
        <4> QED BY <4>1, <4>2
      <3>4. \A i, j \in Slots(st2) : Ahead(i, j, Len(st2.pending)) <=> i < j
        BY <2>2, AheadStraight
      <3> QED BY <3>2, <3>3, <3>4 DEF Straight, CopyOrder
    <2> QED BY <1>1, <1>3, <2>1, <2>3 DEF Builds, Decides, NewKeys
  <1> QED BY <1>1, <1>4, <1>5 DEF Decides

LEMMA BuildsTwice ==
  ASSUME NEW st, NEW st1, NEW st2, NEW P, NEW C, NEW now, NEW s,
         Builds(st, st1, P, C, now, s), Builds(st1, st2, P, C, now, s)
  PROVE  Builds(st, st2, P, C, now, s)
BY DEF Builds, NewKeys

(* Observing an app.                                                       *)
Viewed(st, st2, P, C, now, app, view) ==
  LET old == st.records[app].healthy
  IN  /\ Builds(st, st2, P, C, now, app)
      /\ Others(st, st2, app)
      /\ \/ st2.records[app].healthy = NoTime
         \/ view \in {"well", "suspended"} /\ st2.records[app].healthy \in {now, old}
      /\ Recovers(st, st2) =>
           view \in {"well", "suspended"} /\ old # NoTime /\ now - old >= Recovery

LEMMA ViewBuilds ==
  ASSUME NEW st, NEW P \in SUBSET Notices, NEW C \in SUBSET Notices, NEW now \in Nat, NEW app \in Apps,
         Doc(st, P, C, now), NEW view \in Views
  PROVE  Viewed(st, Observe(st, app, view, now), P, C, now, app, view)
PROOF
  <1> DEFINE st2 == Observe(st, app, view, now)
             old == st.records[app].healthy
             r == [st.records[app] EXCEPT !.healthy = NoTime]
             healthy == IF old = NoTime THEN now ELSE old
  <1>1. st \in State /\ app \in Subjects
    BY Constants DEF Doc, Typed
  <1>2. st.records \in [Subjects -> Records] /\ st.records[app] \in Records
    BY <1>1, Queue
  <1>4. CASE view \in Faults
    <2>1. st2 = Fault(st, app, view, now)
      BY <1>4 DEF Observe
    <2>2. view \in Faults \cup {"none", "unreadable", "unreachable"}
      BY <1>4
    <2>3. LET st3 == Fault(st, app, view, now)
          IN  /\ Decides(st, st3, P, C, now, app) /\ st3.records[app].healthy = NoTime
              /\ ~Recovers(st, st3)
      BY <1>1, <2>2, FaultDecides
    <2>4. Builds(st, st2, P, C, now, app) /\ Others(st, st2, app)
      BY <1>1, <2>1, <2>3, DecidesBuilds
    <2> QED BY <2>1, <2>3, <2>4 DEF Viewed
  <1>5. CASE view \notin Faults /\ view = "unknown"
    <2>1. st2 = Set(st, app, r)
      BY <1>1, <1>5 DEF Observe, Unsure, Set
    <2>2. r \in Records /\ r.since = st.records[app].since /\ r.last = st.records[app].last
          /\ r.notified = st.records[app].notified /\ r.healthy = NoTime
      BY <1>2, Constants DEF Records
    <2>3. \A x \in Records :
            x.since = st.records[app].since /\ x.last = st.records[app].last /\ x.notified = st.records[app].notified
            => /\ Decides(st, Set(st, app, x), P, C, now, app) /\ Set(st, app, x).records[app] = x
               /\ Set(st, app, x).pending = st.pending
      BY <1>1, Keeps
    <2>4. Decides(st, st2, P, C, now, app) /\ st2.records[app] = r /\ st2.pending = st.pending
      BY <2>1, <2>2, <2>3
    <2>5. Builds(st, st2, P, C, now, app) /\ Others(st, st2, app)
      BY <1>1, <2>4, DecidesBuilds
    <2> QED BY <2>2, <2>4, <2>5 DEF Viewed, Recovers, NewKeys, Waiting
  <1>6. CASE view \notin Faults /\ view # "unknown" /\ Heals(view, st.records[app].fault)
    <2>1. st2 = WellSince(st, app, healthy, now)
      BY <1>6 DEF Observe, Well
    <2>2. view \in {"well", "suspended"}
      BY <1>6 DEF Heals
    <2>3. healthy \in Int /\ healthy \in Times
      BY <1>2 DEF Records, Times, NoTime
    <2> HIDE DEF healthy
    <2>4. \A h \in Int : h \in Times \/ now - h >= Recovery =>
            LET st3 == WellSince(st, app, h, now)
            IN  /\ Decides(st, st3, P, C, now, app)
                /\ st3.records[app].healthy = NoTime \/ st3.records[app].healthy = h
                /\ NewKeys(st, st3) # {} => now - h >= Recovery
      BY <1>1, WellDecides
    <2>5. /\ Decides(st, st2, P, C, now, app)
          /\ st2.records[app].healthy = NoTime \/ st2.records[app].healthy = healthy
          /\ NewKeys(st, st2) # {} => now - healthy >= Recovery
      BY <2>1, <2>3, <2>4
    <2>6. Builds(st, st2, P, C, now, app) /\ Others(st, st2, app)
      BY <1>1, <2>5, DecidesBuilds
    <2>7. healthy = now \/ healthy = old
      BY DEF healthy
    <2>8. now - healthy >= Recovery => old # NoTime /\ now - old >= Recovery
      <3>1. Recovery \in Nat /\ Recovery >= 1
        BY Constants
      <3> QED BY <3>1 DEF healthy
    <2> QED BY <2>2, <2>5, <2>6, <2>7, <2>8 DEF Viewed, Recovers
  <1>7. CASE view \notin Faults /\ view # "unknown" /\ ~Heals(view, st.records[app].fault)
    <2>1. st2 = Set(st, app, Closed)
      BY <1>7 DEF Observe
    <2>2. Closed \in Records /\ Closed.since = NoTime /\ Closed.last = NoTime /\ ~Closed.notified
          /\ Closed.healthy = NoTime
      BY DEF Closed, Records, Times
    <2>3. Decides(st, st2, P, C, now, app) /\ st2.records[app] = Closed /\ st2.pending = st.pending
      BY <1>1, <2>1, ClosesAny
    <2>4. Builds(st, st2, P, C, now, app) /\ Others(st, st2, app)
      BY <1>1, <2>3, DecidesBuilds
    <2> QED BY <2>2, <2>3, <2>4 DEF Viewed, Recovers, NewKeys, Waiting
  <1> QED BY <1>4, <1>5, <1>6, <1>7

LEMMA ObserveBuilds ==
  ASSUME NEW st, NEW P \in SUBSET Notices, NEW C \in SUBSET Notices, NEW now \in Nat, NEW app \in Apps,
         Doc(st, P, C, now), NEW view \in Views, NEW replaced \in BOOLEAN
  PROVE  Viewed(st, ObserveRelease(st, app, replaced, view, now), P, C, now, app, view)
PROOF
  <1> DEFINE st1 == Set(st, app, Closed)
             st2 == ObserveRelease(st, app, replaced, view, now)
             old == st.records[app].healthy
  <1>1. CASE ~replaced
    <2>1. st2 = Observe(st, app, view, now)
      BY <1>1 DEF ObserveRelease
    <2> QED BY <2>1, ViewBuilds
  <1>2. CASE replaced
    <2>1. st2 = Observe(st1, app, view, now)
      BY <1>2 DEF ObserveRelease
    <2>2. st \in State /\ app \in Subjects
      BY Constants DEF Doc, Typed
    <2>3. Closed \in Records /\ Closed.since = NoTime /\ Closed.last = NoTime /\ ~Closed.notified
          /\ Closed.healthy = NoTime
      BY DEF Closed, Records, Times
    <2>5. Decides(st, st1, P, C, now, app) /\ st1.records[app] = Closed /\ st1.pending = st.pending
      BY <2>2, ClosesAny
    <2>6. Builds(st, st1, P, C, now, app) /\ Others(st, st1, app)
      BY <2>2, <2>5, DecidesBuilds
    <2>7. Doc(st1, P, C, now)
      BY <2>6 DEF Builds
    <2> HIDE DEF st1
    <2>14. Viewed(st1, Observe(st1, app, view, now), P, C, now, app, view)
      BY <2>7, ViewBuilds
    <2>8. /\ Builds(st1, st2, P, C, now, app)
          /\ Others(st1, st2, app)
          /\ \/ st2.records[app].healthy = NoTime
             \/ view \in {"well", "suspended"} /\ st2.records[app].healthy \in {now, st1.records[app].healthy}
          /\ Recovers(st1, st2) =>
               view \in {"well", "suspended"} /\ st1.records[app].healthy # NoTime
               /\ now - st1.records[app].healthy >= Recovery
      BY <2>1, <2>14 DEF Viewed
    <2>9. Builds(st, st2, P, C, now, app)
      BY <2>6, <2>8, BuildsTwice
    <2>10. NewKeys(st, st2) = NewKeys(st1, st2) /\ st1.records[app].healthy = NoTime
      BY <2>3, <2>5 DEF NewKeys, Waiting
    <2>11. ~Recovers(st, st2)
      BY <2>8, <2>10 DEF Recovers
    <2>12. \/ st2.records[app].healthy = NoTime
           \/ view \in {"well", "suspended"} /\ st2.records[app].healthy \in {now, old}
      BY <2>8, <2>10
    <2>13. Others(st, st2, app)
      BY <2>6, <2>8 DEF Others
    <2> QED BY <2>9, <2>11, <2>12, <2>13 DEF Viewed, st1
  <1> QED BY <1>1, <1>2

LEMMA SameBuilds ==
  ASSUME NEW st \in State, NEW st2, NEW P, NEW C, NEW now, NEW s, Doc(st2, P, C, now), st2.pending = st.pending
  PROVE  Builds(st, st2, P, C, now, s) /\ NewKeys(st, st2) = {}
PROOF
  <1>1. Waiting(st2) = Waiting(st) /\ NewKeys(st, st2) = {}
    BY DEF Waiting, NewKeys
  <1>2. \A i \in Slots(st) : At(st2, i) = At(st, i) /\ IsCopy(st2, i) = IsCopy(st, i)
    BY DEF At, IsCopy
  <1>3. Slots(st2) = Slots(st)
    BY DEF Slots
  <1>4. Straight(st, C) => Straight(st2, C)
    BY <1>2, <1>3 DEF Straight, CopyOrder
  <1> QED BY <1>1, <1>4 DEF Builds

LEMMA UnknownBuilds ==
  ASSUME NEW st, NEW P \in SUBSET Notices, NEW C \in SUBSET Notices, NEW now \in Nat, Doc(st, P, C, now)
  PROVE  LET st2 == Unknown(st, now)
         IN  /\ Builds(st, st2, P, C, now, Monitor)
             /\ \A a \in Apps : st2.records[a].healthy = NoTime
PROOF
  <1> DEFINE told == Fault(st, Monitor, "unreadable", now)
             records == [s \in Subjects |-> IF s \in Apps THEN [told.records[s] EXCEPT !.healthy = NoTime]
                                            ELSE told.records[s]]
             st2 == Unknown(st, now)
  <1>0. st \in State /\ Monitor \in Subjects /\ "unreadable" \in Faults \cup {"none", "unreadable", "unreachable"}
    BY Constants DEF Doc, Typed
  <1>1. LET st3 == Fault(st, Monitor, "unreadable", now)
        IN  Decides(st, st3, P, C, now, Monitor) /\ st3.records[Monitor].healthy = NoTime /\ ~Recovers(st, st3)
    BY <1>0, FaultDecides
  <1>2. Builds(st, told, P, C, now, Monitor)
    BY <1>0, <1>1, DecidesBuilds
  <1>3. st2 = [told EXCEPT !.records = records]
    BY DEF Unknown
  <1> HIDE DEF told
  <1>4. Doc(told, P, C, now) /\ told \in State /\ Distinct(told)
    BY <1>2 DEF Builds, Doc, Typed
  <1>5. told.records \in [Subjects -> Records]
    BY <1>4, Queue
  <1>6. records \in [Subjects -> Records]
    BY <1>5, Constants DEF Records
  <1>7. st2 \in State /\ st2.records = records /\ st2.pending = told.pending /\ st2.seen = told.seen
    BY <1>3, <1>4, <1>6 DEF State
  <1> HIDE DEF st2
  <1>8. ASSUME NEW t \in Subjects PROVE RecordOK(st2, P, C, now, t)
    <2>1. PICK n \in Notices : n.subject # t
      <3>1. \A x \in Subjects : [type |-> "incident", subject |-> x, since |-> 0, at |-> 0] \in Notices
        BY DEF Notices, Times
      <3> QED BY <3>1, Constants
    <2>2. Extends(told, st2, n)
      BY <1>4, <1>7, SameQueue
    <2>3. RecordOK(told, P, C, now, t)
      BY <1>4 DEF Doc
    <2>4. st2.records[t].since = told.records[t].since /\ st2.records[t].last = told.records[t].last
          /\ st2.records[t].notified = told.records[t].notified
      <3>1. told.records[t] \in Records
        BY <1>5
      <3> QED BY <1>7, <3>1 DEF Records
    <2> QED BY <1>4, <2>1, <2>2, <2>3, <2>4, RecordExtends
  <1>9. Doc(st2, P, C, now)
    BY <1>4, <1>7, <1>8, DocRecords
  <1>10. Builds(told, st2, P, C, now, Monitor)
    BY <1>4, <1>7, <1>9, SameBuilds
  <1>11. Builds(st, st2, P, C, now, Monitor)
    BY <1>2, <1>10, BuildsTwice
  <1>12. ASSUME NEW a \in Apps PROVE st2.records[a].healthy = NoTime
    <2>1. a \in Subjects /\ told.records[a] \in Records
      BY <1>5, Constants
    <2> QED BY <1>7, <2>1 DEF Records
  <1> QED BY <1>11, <1>12 DEF st2

LEMMA MonitorBuilds ==
  ASSUME NEW st, NEW P \in SUBSET Notices, NEW C \in SUBSET Notices, NEW now \in Nat, Doc(st, P, C, now)
  PROVE  LET st2 == Well(st, Monitor, now)
         IN  Builds(st, st2, P, C, now, Monitor) /\ Others(st, st2, Monitor)
PROOF
  <1> DEFINE old == st.records[Monitor].healthy
             healthy == IF old = NoTime THEN now ELSE old
             st2 == Well(st, Monitor, now)
  <1>1. st \in State /\ Monitor \in Subjects
    BY Constants DEF Doc, Typed
  <1>2. st.records[Monitor] \in Records
    BY <1>1, Queue
  <1>3. healthy \in Int /\ healthy \in Times
    BY <1>2 DEF Records, Times, NoTime
  <1>4. st2 = WellSince(st, Monitor, healthy, now)
    BY DEF Well
  <1> HIDE DEF healthy
  <1>5. \A h \in Int : h \in Times \/ now - h >= Recovery =>
          LET st3 == WellSince(st, Monitor, h, now)
          IN  /\ Decides(st, st3, P, C, now, Monitor)
              /\ st3.records[Monitor].healthy = NoTime \/ st3.records[Monitor].healthy = h
              /\ NewKeys(st, st3) # {} => now - h >= Recovery
    BY <1>1, WellDecides
  <1>6. Decides(st, st2, P, C, now, Monitor)
    BY <1>3, <1>4, <1>5
  <1> HIDE DEF st2
  <1>7. Builds(st, st2, P, C, now, Monitor) /\ Others(st, st2, Monitor)
    BY <1>1, <1>6, DecidesBuilds
  <1> QED BY <1>7 DEF st2

LEMMA CopyHealthBuilds ==
  ASSUME NEW st, NEW P \in SUBSET Notices, NEW C \in SUBSET Notices, NEW now \in Nat, Doc(st, P, C, now),
         NEW refused \in Nat
  PROVE  LET st2 == CopyHealth(st, refused, now)
         IN  Builds(st, st2, P, C, now, Service) /\ Others(st, st2, Service)
PROOF
  <1> DEFINE st2 == CopyHealth(st, refused, now)
             healthy == now - Recovery
  <1>1. st \in State /\ Service \in Subjects /\ "unreachable" \in Faults \cup {"none", "unreadable", "unreachable"}
    BY Constants DEF Doc, Typed
  <1>2. Decides(st, st2, P, C, now, Service)
    <2>1. CASE refused = 0
      <3>1. healthy \in Int /\ now - healthy >= Recovery
        <4>1. Recovery \in Nat
          BY Constants
        <4> QED BY <4>1
      <3>2. st2 = WellSince(st, Service, healthy, now)
        BY <2>1 DEF CopyHealth
      <3> HIDE DEF healthy
      <3>3. \A h \in Int : h \in Times \/ now - h >= Recovery =>
              LET st3 == WellSince(st, Service, h, now)
              IN  /\ Decides(st, st3, P, C, now, Service)
                  /\ st3.records[Service].healthy = NoTime \/ st3.records[Service].healthy = h
                  /\ NewKeys(st, st3) # {} => now - h >= Recovery
        BY <1>1, WellDecides
      <3> QED BY <3>1, <3>2, <3>3
    <2>2. CASE refused # 0
      <3>1. st2 = Fault(st, Service, "unreachable", now)
        BY <2>2 DEF CopyHealth
      <3>2. LET st3 == Fault(st, Service, "unreachable", now)
            IN  Decides(st, st3, P, C, now, Service) /\ st3.records[Service].healthy = NoTime /\ ~Recovers(st, st3)
        BY <1>1, FaultDecides
      <3> QED BY <3>1, <3>2
    <2> QED BY <2>1, <2>2
  <1> HIDE DEF st2
  <1>3. Builds(st, st2, P, C, now, Service) /\ Others(st, st2, Service)
    BY <1>1, <1>2, DecidesBuilds
  <1> QED BY <1>3 DEF st2

(* Time that passes, what a pass forgets at its start and at its end, and  *)
(* what was sent.                                                          *)
LEMMA DocLater ==
  ASSUME NEW st, NEW P \in SUBSET Notices, NEW C \in SUBSET Notices, NEW now \in Nat, NEW later \in Nat,
         Doc(st, P, C, now), now <= later
  PROVE  Doc(st, P, C, later)
PROOF
  <1>1. st \in State
    BY DEF Doc, Typed
  <1>2. \A n \in Told(st, P, C) : n.since \in Nat
    BY <1>1, Queue DEF Told, Notices
  <1>3. \A a \in Nat : a < now => a < later
    OBVIOUS
  <1>4. \A n \in Told(st, P, C) : n.since < later
    BY <1>2, <1>3 DEF Doc
  <1>5. ASSUME NEW s \in Subjects PROVE RecordOK(st, P, C, later, s)
    <2>1. st.records[s] \in Records
      BY <1>1, Queue
    <2>2. st.records[s].since \in Int /\ st.records[s].last \in Int
      BY <2>1 DEF Records, Times, NoTime
    <2>3. \A a \in Int : a <= now => a <= later
      OBVIOUS
    <2>4. RecordOK(st, P, C, now, s)
      BY DEF Doc
    <2>5. /\ st.records[s].since <= now => st.records[s].since <= later
          /\ st.records[s].last <= now => st.records[s].last <= later
      BY <2>2, <2>3
    <2> QED BY <2>4, <2>5 DEF RecordOK
  <1> QED BY <1>4, <1>5 DEF Doc

LEMMA FreshState == Fresh \in State /\ Waiting(Fresh) = {} /\ Slots(Fresh) = {}
                    /\ \A s \in Subjects : Fresh.records[s] = Closed
PROOF
  <1>1. Closed \in Records
    BY DEF Closed, Records, Times
  <1>2. Fresh.records \in [Subjects -> Records] /\ Fresh.pending = <<>> /\ Fresh.seen = {}
    BY <1>1 DEF Fresh
  <1>3. <<>> \in Seq([key : Keys, queued : Nat]) /\ DOMAIN <<>> = {}
    OBVIOUS
  <1>4. Fresh \in State
    BY <1>1, <1>3 DEF Fresh, State
  <1> QED BY <1>2, <1>3, <1>4 DEF Waiting, Slots, Fresh

LEMMA DocFresh ==
  ASSUME NEW P \in SUBSET Notices, NEW C \in SUBSET Notices, NEW now \in Nat,
         \A n \in P \cup C : n.since < now
  PROVE  Doc(Fresh, P, C, now) /\ Straight(Fresh, C)
PROOF
  <1>1. Fresh \in State /\ Waiting(Fresh) = {} /\ Slots(Fresh) = {} /\ Fresh.seen = {}
    BY FreshState DEF Fresh
  <1>2. Distinct(Fresh)
    BY <1>1 DEF Distinct, Slots
  <1>3. Noted(Fresh) = {}
    BY <1>1 DEF Noted
  <1>4. \A s \in Subjects : RecordOK(Fresh, P, C, now, s)
    BY <1>1, <1>3, FreshState, RecordClosed DEF Told, Closed
  <1>5. InLine(Fresh, P) /\ Straight(Fresh, C)
    BY <1>1 DEF InLine, Straight, CopyOrder
  <1> QED BY <1>1, <1>2, <1>3, <1>4, <1>5, FS_EmptySet DEF Doc, Typed, Told

LEMMA DocExpire ==
  ASSUME NEW st, NEW P \in SUBSET Notices, NEW C \in SUBSET Notices, NEW now \in Nat, NEW t \in Nat, Doc(st, P, C, now)
  PROVE  LET st2 == Expire(st, t)
         IN  Doc(st2, P, C, now) /\ st2.pending = st.pending /\ st2.records = st.records
PROOF
  <1> DEFINE kept == {entry \in st.seen : entry.until > t}
             st2 == Expire(st, t)
  <1>1. st \in State /\ IsFiniteSet(st.seen) /\ Distinct(st) /\ InLine(st, P)
    BY DEF Doc, Typed
  <1>2. st2 = [st EXCEPT !.seen = kept]
    BY DEF Expire
  <1>3. kept \subseteq st.seen
    OBVIOUS
  <1>4. IsFiniteSet(kept)
    BY <1>1, <1>3, FS_Subset
  <1> HIDE DEF kept, st2
  <1>5. st2 \in State /\ st2.pending = st.pending /\ st2.records = st.records /\ st2.seen = kept
    BY <1>1, <1>2, <1>3 DEF State
  <1>6. Waiting(st2) = Waiting(st) /\ Slots(st2) = Slots(st) /\ Noted(st2) = Noted(st) /\ Ours(st2) = Ours(st)
    BY <1>5 DEF Waiting, Slots, Noted, Ours, At, IsCopy
  <1>7. Remembered(st2) \subseteq Remembered(st)
    BY <1>3, <1>5 DEF Remembered
  <1>8. Distinct(st2)
    BY <1>1, <1>5, <1>6, <1>7 DEF Distinct
  <1>9. \A i \in Slots(st) : At(st2, i) = At(st, i) /\ IsCopy(st2, i) = IsCopy(st, i)
    BY <1>5 DEF At, IsCopy
  <1>10. InLine(st2, P)
    BY <1>1, <1>3, <1>5, <1>6, <1>9 DEF InLine
  <1>11. Told(st2, P, C) = Told(st, P, C)
    BY <1>6 DEF Told
  <1>12. \A s \in Subjects : RecordOK(st2, P, C, now, s)
    BY <1>5, <1>6, <1>11 DEF Doc, RecordOK
  <1>13. Doc(st2, P, C, now)
    BY <1>4, <1>5, <1>8, <1>10, <1>11, <1>12 DEF Doc, Typed
  <1> QED BY <1>5, <1>13 DEF st2

LEMMA DocSent ==
  ASSUME NEW st, NEW P \in SUBSET Notices, NEW C \in SUBSET Notices, NEW now \in Nat,
         Doc(st, P, C, now), 1 \in Slots(st)
  PROVE  /\ ~IsCopy(st, 1) => Doc(st, P \cup {At(st, 1)}, C, now)
         /\ Doc(st, P, C \cup {At(st, 1)}, now)
PROOF
  <1> DEFINE h == At(st, 1)
  <1>1. st \in State /\ InLine(st, P) /\ h \in Noted(st)
    BY DEF Doc, Typed, Noted
  <1>2. Told(st, P, C \cup {h}) = Told(st, P, C) /\ Told(st, P \cup {h}, C) = Told(st, P, C)
    BY <1>1 DEF Told
  <1>3. Doc(st, P, C \cup {h}, now)
    BY <1>2 DEF Doc, RecordOK
  <1>4. ASSUME ~IsCopy(st, 1) PROVE Doc(st, P \cup {h}, C, now)
    <2>1. \A i \in Slots(st) : i \in Nat /\ i >= 1
      BY <1>1, Queue
    <2>2. ASSUME NEW j \in Slots(st), ~IsCopy(st, j), Same(h, At(st, j))
          PROVE  Follows(h, At(st, j))
      <3>1. CASE j = 1
        BY <3>1 DEF Follows
      <3>2. CASE j # 1
        <4>1. 1 < j
          BY <2>1, <3>2
        <4> QED BY <1>1, <1>4, <2>2, <4>1 DEF InLine
      <3> QED BY <3>1, <3>2
    <2>3. InLine(st, P \cup {h})
      BY <1>1, <2>2 DEF InLine
    <2>4. \A s \in Subjects : RecordOK(st, P \cup {h}, C, now, s)
      BY <1>2 DEF Doc, RecordOK
    <2> QED BY <1>2, <2>3, <2>4 DEF Doc
  <1> QED BY <1>3, <1>4

-----------------------------------------------------------------------------
(* Settling the head of the queue.                                         *)

(* Where an entry of the settled queue was before.                         *)
From(st, i) == IF i < Len(st.pending) THEN i + 1 ELSE 1

Popped(st, st2, sent, now) ==
  /\ ~KeepsTrying(st.pending[1], sent, now)
  /\ Len(st2.pending) = Len(st.pending) - 1
  /\ st2.seen = Remember(st.seen, st.pending[1].key, now + History)
  /\ st.pending[1].key \notin Waiting(st2)
Rotated(st, st2, sent, now) ==
  /\ KeepsTrying(st.pending[1], sent, now)
  /\ Len(st2.pending) = Len(st.pending)
  /\ st2.seen = st.seen

LEMMA SettleShape ==
  ASSUME NEW st \in State, 1 \in Slots(st), Distinct(st), IsFiniteSet(st.seen), NEW sent \in BOOLEAN, NEW now \in Nat
  PROVE  LET st2 == Settle(st, sent, now)
         IN  /\ st2 \in State /\ st2.records = st.records
             /\ \A i \in Slots(st2) : From(st, i) \in Slots(st) /\ st2.pending[i] = st.pending[From(st, i)]
             /\ \/ Popped(st, st2, sent, now)
                \/ Rotated(st, st2, sent, now)
PROOF
  <1> DEFINE p == st.pending
             h == p[1]
             st2 == Settle(st, sent, now)
             gone == Remember(st.seen, h.key, now + History)
  <1>1. p \in Seq(Entries) /\ Len(p) \in Nat /\ Slots(st) = 1 .. Len(p) /\ Len(p) >= 1
    BY Queue
  <1>2. h \in Entries /\ h.key \in Keys
    BY Queue
  <1>3. /\ Head(p) = h /\ Tail(p) \in Seq(Entries) /\ Len(Tail(p)) = Len(p) - 1
        /\ DOMAIN Tail(p) = 1 .. Len(p) - 1
        /\ \A i \in 1 .. Len(p) - 1 : Tail(p)[i] = p[i + 1]
    BY <1>1
  <1>4. Settle(st, sent, now) = IF KeepsTrying(h, sent, now)
                                THEN [st EXCEPT !.pending = Append(Tail(p), h)]
                                ELSE [st EXCEPT !.pending = Tail(p), !.seen = gone]
    BY <1>3 DEF Settle
  <1>5. CASE KeepsTrying(h, sent, now)
    <2> DEFINE q == Append(Tail(p), h)
    <2>1. /\ q \in Seq(Entries) /\ Len(q) = Len(p) /\ DOMAIN q = 1 .. Len(p)
          /\ \A i \in 1 .. Len(p) - 1 : q[i] = p[i + 1]
          /\ q[Len(p)] = h
      BY <1>1, <1>2, <1>3
    <2> HIDE DEF q
    <2>2. st2 = [st EXCEPT !.pending = q]
      BY <1>4, <1>5 DEF q
    <2>3. st2 \in State /\ st2.pending = q /\ st2.seen = st.seen /\ st2.records = st.records
      BY <2>1, <2>2 DEF State, Entries
    <2> HIDE DEF st2
    <2>4. ASSUME NEW i \in Slots(st2)
          PROVE  From(st, i) \in Slots(st) /\ st2.pending[i] = st.pending[From(st, i)]
      <3>1. i \in 1 .. Len(p)
        BY <2>1, <2>3 DEF Slots
      <3>2. CASE i < Len(p)
        BY <1>1, <2>1, <2>3, <3>1, <3>2 DEF From
      <3>3. CASE ~(i < Len(p))
        <4>1. i = Len(p)
          BY <1>1, <3>1, <3>3
        <4> QED BY <1>1, <2>1, <2>3, <3>3, <4>1 DEF From
      <3> QED BY <3>2, <3>3
    <2>5. Rotated(st, st2, sent, now)
      BY <1>5, <2>1, <2>3 DEF Rotated
    <2> QED BY <2>3, <2>4, <2>5 DEF st2
  <1>6. CASE ~KeepsTrying(h, sent, now)
    <2>1. st2 = [st EXCEPT !.pending = Tail(p), !.seen = gone]
      BY <1>4, <1>6
    <2>2. now + History \in Nat
      BY Constants
    <2>3. gone \subseteq [key : Keys, until : Nat]
      BY <1>2, <2>2 DEF Remember, State
    <2>4. st2 \in State /\ st2.pending = Tail(p) /\ st2.seen = gone /\ st2.records = st.records
      BY <1>3, <2>1, <2>3 DEF State, Entries
    <2> HIDE DEF st2
    <2>5. ASSUME NEW i \in Slots(st2)
          PROVE  From(st, i) \in Slots(st) /\ st2.pending[i] = st.pending[From(st, i)] /\ From(st, i) # 1
      <3>1. i \in 1 .. Len(p) - 1
        BY <1>3, <2>4 DEF Slots
      <3> QED BY <1>1, <1>3, <2>4, <3>1 DEF From
    <2>6. h.key \notin Waiting(st2)
      <3>1. SUFFICES ASSUME NEW i \in Slots(st2), st2.pending[i].key = h.key PROVE FALSE
        BY DEF Waiting, Slots
      <3>2. st.pending[From(st, i)].key = st.pending[1].key /\ From(st, i) \in Slots(st) /\ From(st, i) # 1
        BY <2>5, <3>1
      <3> QED BY <3>2 DEF Distinct, Slots
    <2>7. Popped(st, st2, sent, now)
      BY <1>3, <1>6, <2>4, <2>6 DEF Popped
    <2> QED BY <2>4, <2>5, <2>7 DEF st2
  <1> QED BY <1>5, <1>6

Settles(st, st2, sent, now) ==
  /\ 1 \in Slots(st) /\ Distinct(st) /\ IsFiniteSet(st.seen)
  /\ st2 \in State /\ st2.records = st.records
  /\ \A i \in Slots(st2) : From(st, i) \in Slots(st) /\ st2.pending[i] = st.pending[From(st, i)]
  /\ Popped(st, st2, sent, now) \/ Rotated(st, st2, sent, now)

LEMMA SettleWaits ==
  ASSUME NEW st, NEW st2, NEW sent, NEW now, Settles(st, st2, sent, now)
  PROVE  Waiting(st2) \subseteq Waiting(st)
PROOF
  <1>1. \A i \in Slots(st2) : From(st, i) \in Slots(st) /\ st2.pending[i].key = st.pending[From(st, i)].key
    BY DEF Settles
  <1>2. Waiting(st) = {st.pending[i].key : i \in Slots(st)} /\ Waiting(st2) = {st2.pending[i].key : i \in Slots(st2)}
    BY DEF Waiting, Slots
  <1> QED BY <1>1, <1>2

LEMMA SettleSlots ==
  ASSUME NEW st \in State, NEW st2, NEW sent \in BOOLEAN, NEW now \in Nat, Settles(st, st2, sent, now)
  PROVE  /\ Slots(st) = 1 .. Len(st.pending) /\ Len(st.pending) \in Nat /\ Len(st.pending) >= 1
         /\ Slots(st2) = 1 .. Len(st2.pending) /\ Len(st2.pending) \in Nat
         /\ \A i \in Slots(st2) : /\ From(st, i) \in Slots(st)
                                  /\ At(st2, i) = At(st, From(st, i)) /\ IsCopy(st2, i) = IsCopy(st, From(st, i))
                                  /\ st2.pending[i].key = st.pending[From(st, i)].key
         /\ \A i \in Slots(st) : i # 1 => i - 1 \in Slots(st2) /\ From(st, i - 1) = i
         /\ \A i, j \in Slots(st2) : From(st, i) = From(st, j) => i = j
         /\ Noted(st2) \subseteq Noted(st)
         /\ Waiting(st2) \subseteq Waiting(st)
         /\ Waiting(st) \subseteq Waiting(st2) \cup {st.pending[1].key}
         /\ Rotated(st, st2, sent, now) => Waiting(st2) = Waiting(st)
PROOF
  <1>1. /\ Slots(st) = 1 .. Len(st.pending) /\ Len(st.pending) \in Nat /\ Len(st.pending) >= 1
        /\ Slots(st2) = 1 .. Len(st2.pending) /\ Len(st2.pending) \in Nat
    BY Queue DEF Settles
  <1>2. Len(st2.pending) = Len(st.pending) \/ Len(st2.pending) = Len(st.pending) - 1
    BY DEF Settles, Popped, Rotated
  <1>3. \A i \in Slots(st2) : /\ From(st, i) \in Slots(st)
                              /\ At(st2, i) = At(st, From(st, i)) /\ IsCopy(st2, i) = IsCopy(st, From(st, i))
                              /\ st2.pending[i].key = st.pending[From(st, i)].key
    BY DEF Settles, At, IsCopy
  <1>4. \A i \in Slots(st) : i # 1 => i - 1 \in Slots(st2) /\ From(st, i - 1) = i
    BY <1>1, <1>2 DEF From
  <1>5. \A i, j \in Slots(st2) : From(st, i) = From(st, j) => i = j
    BY <1>1, <1>2 DEF From
  <1>6. Noted(st2) \subseteq Noted(st)
    BY <1>3 DEF Noted
  <1>7. Waiting(st) = {st.pending[i].key : i \in Slots(st)} /\ Waiting(st2) = {st2.pending[i].key : i \in Slots(st2)}
    BY DEF Waiting, Slots
  <1>8. Waiting(st2) \subseteq Waiting(st)
    BY SettleWaits
  <1>9. Waiting(st) \subseteq Waiting(st2) \cup {st.pending[1].key}
    <2>1. SUFFICES ASSUME NEW i \in Slots(st), i # 1 PROVE st.pending[i].key \in Waiting(st2)
      BY <1>7
    <2>2. i - 1 \in Slots(st2) /\ From(st, i - 1) = i
      BY <1>4, <2>1
    <2>3. st2.pending[i - 1].key = st.pending[i].key
      BY <1>3, <2>2
    <2> QED BY <1>7, <2>2, <2>3
  <1>10. ASSUME Rotated(st, st2, sent, now) PROVE Waiting(st2) = Waiting(st)
    <2>1. Len(st.pending) \in Slots(st2) /\ From(st, Len(st.pending)) = 1
      BY <1>1, <1>10 DEF Rotated, From
    <2>2. st.pending[1].key \in Waiting(st2)
      BY <1>3, <1>7, <2>1
    <2> QED BY <1>8, <1>9, <2>2
  <1> QED BY <1>1, <1>3, <1>4, <1>5, <1>6, <1>8, <1>9, <1>10

LEMMA SettleSound ==
  ASSUME NEW st \in State, NEW st2, NEW sent \in BOOLEAN, NEW now \in Nat, Settles(st, st2, sent, now)
  PROVE  Typed(st2) /\ (Fits(st) => Fits(st2))
PROOF
  <1> DEFINE key == st.pending[1].key
             new == [key |-> key, until |-> now + History]
             n == Cardinality(st.seen)
             m == Cardinality(st2.seen)
             len == Len(st.pending)
  <1>1. /\ st2 \in State /\ Distinct(st) /\ IsFiniteSet(st.seen)
        /\ len \in Nat /\ len >= 1 /\ Len(st2.pending) \in Nat
        /\ Waiting(st2) \subseteq Waiting(st)
        /\ \A i \in Slots(st2) : From(st, i) \in Slots(st) /\ st2.pending[i].key = st.pending[From(st, i)].key
        /\ \A i, j \in Slots(st2) : From(st, i) = From(st, j) => i = j
    BY SettleSlots DEF Settles
  <1>2. \A i, j \in Slots(st2) : st2.pending[i].key = st2.pending[j].key => i = j
    BY <1>1 DEF Distinct, Slots
  <1>3. CASE Rotated(st, st2, sent, now)
    <2>1. st2.seen = st.seen /\ Len(st2.pending) = len
      BY <1>3 DEF Rotated
    <2>2. Remembered(st2) = Remembered(st)
      BY <2>1 DEF Remembered
    <2>3. Distinct(st2)
      BY <1>1, <1>2, <2>2 DEF Distinct, Slots
    <2> QED BY <1>1, <2>1, <2>3 DEF Typed, Fits, Size
  <1>4. CASE Popped(st, st2, sent, now)
    <2>1. st2.seen = Remember(st.seen, key, now + History) /\ Len(st2.pending) = len - 1 /\ key \notin Waiting(st2)
      BY <1>4 DEF Popped
    <2>2. st2.seen \subseteq st.seen \cup {new}
      BY <2>1 DEF Remember
    <2>3. Remembered(st2) \subseteq Remembered(st) \cup {key}
      BY <2>2 DEF Remembered
    <2>4. Distinct(st2)
      BY <1>1, <1>2, <2>1, <2>3 DEF Distinct, Slots
    <2>5. /\ IsFiniteSet(st.seen \cup {new}) /\ n \in Nat
          /\ Cardinality(st.seen \cup {new}) = IF new \in st.seen THEN n ELSE n + 1
      BY <1>1, FS_AddElement, FS_CardinalityType
    <2>6. IsFiniteSet(st2.seen) /\ m <= Cardinality(st.seen \cup {new})
      BY <2>2, <2>5, FS_Subset
    <2>7. m \in Nat
      BY <2>6, FS_CardinalityType
    <2> HIDE DEF n, m, new, len
    <2>8. m <= n + 1
      BY <2>5, <2>6, <2>7
    <2>9. ASSUME Fits(st) PROVE Fits(st2)
      <3> DEFINE a == EntryBytes * len
                 b == SeenBytes * n
                 d == SeenBytes * m
      <3>1. EntryBytes \in Nat /\ SeenBytes \in Nat /\ SeenBytes <= EntryBytes /\ MaxStateBytes \in Nat
        BY IncidentAssumption
      <3>2. a + b <= MaxStateBytes
        BY <2>9 DEF Fits, Size, n, len
      <3>3. EntryBytes * (len - 1) = a - EntryBytes
        BY <1>1, <3>1
      <3>4. d <= b + SeenBytes
        <4>1. SeenBytes * m <= SeenBytes * (n + 1)
          BY <2>5, <2>7, <2>8, <3>1
        <4> QED BY <2>5, <2>7, <3>1, <4>1
      <3>5. a \in Int /\ b \in Int /\ d \in Int
        BY <1>1, <2>5, <2>7, <3>1
      <3>6. Size(st2) = EntryBytes * (len - 1) + d
        BY <2>1 DEF Size, m
      <3> HIDE DEF a, b, d
      <3>7. (a - EntryBytes) + d <= MaxStateBytes
        BY <3>1, <3>2, <3>4, <3>5
      <3> QED BY <3>3, <3>6, <3>7 DEF Fits
    <2> QED BY <1>1, <2>4, <2>6, <2>9 DEF Typed
  <1> QED BY <1>3, <1>4 DEF Settles

LEMMA DocSettle ==
  ASSUME NEW st, NEW st2, NEW P, NEW C, NEW now \in Nat, NEW sent \in BOOLEAN,
         Doc(st, P, C, now), Settles(st, st2, sent, now),
         ~IsCopy(st, 1) => sent /\ At(st, 1) \in P
  PROVE  Doc(st2, P, C, now)
PROOF
  <1>1. st \in State /\ InLine(st, P) /\ 1 \in Slots(st)
    BY DEF Doc, Typed, Settles
  <1>2. /\ Slots(st) = 1 .. Len(st.pending) /\ Len(st.pending) \in Nat /\ Len(st.pending) >= 1
        /\ Slots(st2) = 1 .. Len(st2.pending) /\ Len(st2.pending) \in Nat
        /\ \A i \in Slots(st2) : /\ From(st, i) \in Slots(st)
                                 /\ At(st2, i) = At(st, From(st, i)) /\ IsCopy(st2, i) = IsCopy(st, From(st, i))
        /\ \A i \in Slots(st) : i # 1 => i - 1 \in Slots(st2) /\ From(st, i - 1) = i
        /\ Noted(st2) \subseteq Noted(st)
    BY <1>1, SettleSlots
  <1>3. Typed(st2)
    BY <1>1, SettleSound
  <1>4. ASSUME NEW j \in Slots(st2), ~IsCopy(st2, j)
        PROVE  j < Len(st.pending) /\ From(st, j) = j + 1
    <2>1. From(st, j) # 1 \/ Popped(st, st2, sent, now)
      <3>1. ASSUME From(st, j) = 1 PROVE ~Rotated(st, st2, sent, now)
        BY <1>2, <1>4, <3>1 DEF Rotated, KeepsTrying
      <3> QED BY <3>1 DEF Settles
    <2>2. CASE From(st, j) # 1
      BY <1>2, <2>2 DEF From
    <2>3. CASE Popped(st, st2, sent, now)
      BY <1>2, <2>3 DEF From, Popped
    <2> QED BY <2>1, <2>2, <2>3
  <1>5. ASSUME NEW i \in Slots(st2), NEW j \in Slots(st2), i < j, ~IsCopy(st2, i), ~IsCopy(st2, j),
               Same(At(st2, i), At(st2, j))
        PROVE  Follows(At(st2, i), At(st2, j))
    <2>1. From(st, i) < From(st, j)
      BY <1>2, <1>4, <1>5
    <2>2. From(st, i) \in Slots(st) /\ From(st, j) \in Slots(st)
          /\ ~IsCopy(st, From(st, i)) /\ ~IsCopy(st, From(st, j))
          /\ At(st2, i) = At(st, From(st, i)) /\ At(st2, j) = At(st, From(st, j))
      BY <1>2, <1>5
    <2> QED BY <1>1, <1>5, <2>1, <2>2 DEF InLine
  <1>6. ASSUME NEW j \in Slots(st2), NEW p \in P, ~IsCopy(st2, j), Same(p, At(st2, j))
        PROVE  Follows(p, At(st2, j))
    <2>1. From(st, j) \in Slots(st) /\ ~IsCopy(st, From(st, j)) /\ At(st2, j) = At(st, From(st, j))
      BY <1>2, <1>6
    <2> QED BY <1>1, <1>6, <2>1 DEF InLine
  <1>7. ASSUME NEW j \in Slots(st2), ~IsCopy(st2, j), At(st2, j).type = "recovery"
        PROVE  \/ \E p \in P : Same(p, At(st2, j))
               \/ \E i \in Slots(st2) : i < j /\ ~IsCopy(st2, i) /\ Same(At(st2, i), At(st2, j))
    <2>1. From(st, j) \in Slots(st) /\ ~IsCopy(st, From(st, j)) /\ At(st2, j) = At(st, From(st, j))
          /\ From(st, j) = j + 1
      BY <1>2, <1>4, <1>7
    <2>2. \/ \E p \in P : Same(p, At(st, From(st, j)))
          \/ \E i \in Slots(st) : i < From(st, j) /\ ~IsCopy(st, i) /\ Same(At(st, i), At(st, From(st, j)))
      BY <1>1, <1>7, <2>1 DEF InLine
    <2>3. CASE \E i \in Slots(st) : i < From(st, j) /\ ~IsCopy(st, i) /\ Same(At(st, i), At(st, From(st, j)))
      <3>1. PICK i \in Slots(st) : i < From(st, j) /\ ~IsCopy(st, i) /\ Same(At(st, i), At(st, From(st, j)))
        BY <2>3
      <3>2. CASE i = 1
        BY <2>1, <3>1, <3>2
      <3>3. CASE i # 1
        <4>1. i - 1 \in Slots(st2) /\ From(st, i - 1) = i
          BY <1>2, <3>3
        <4>2. i - 1 < j
          BY <1>2, <2>1, <3>1
        <4>3. ~IsCopy(st2, i - 1) /\ At(st2, i - 1) = At(st, i)
          BY <1>2, <3>1, <4>1
        <4> QED BY <2>1, <3>1, <4>1, <4>2, <4>3
      <3> QED BY <3>2, <3>3
    <2> QED BY <2>1, <2>2, <2>3
  <1>8. ASSUME NEW entry \in st2.seen, ~entry.key.copy
        PROVE  entry.key.notice \in P
    <2>1. CASE entry \in st.seen
      BY <1>1, <1>8, <2>1 DEF InLine
    <2>2. CASE entry \notin st.seen
      <3>1. entry.key = st.pending[1].key
        BY <2>2 DEF Settles, Popped, Rotated, Remember
      <3> QED BY <1>8, <3>1 DEF IsCopy, At
    <2> QED BY <2>1, <2>2
  <1>9. InLine(st2, P)
    BY <1>5, <1>6, <1>7, <1>8 DEF InLine
  <1>10. \A n \in P \cup Ours(st) : n \in P \cup Ours(st2)
    <2>1. SUFFICES ASSUME NEW i \in Slots(st), ~IsCopy(st, i) PROVE At(st, i) \in P \cup Ours(st2)
      BY DEF Ours
    <2>2. CASE i = 1
      BY <2>1, <2>2
    <2>3. CASE i # 1
      <3>1. i - 1 \in Slots(st2) /\ From(st, i - 1) = i
        BY <1>2, <2>3
      <3>2. ~IsCopy(st2, i - 1) /\ At(st2, i - 1) = At(st, i)
        BY <1>2, <2>1, <3>1
      <3>3. At(st2, i - 1) \in Ours(st2)
        BY <3>1, <3>2 DEF Ours
      <3> QED BY <3>2, <3>3
    <2> QED BY <2>2, <2>3
  <1>11. \A n \in Told(st2, P, C) : n \in Told(st, P, C)
    BY <1>2 DEF Told
  <1>12. st2.records = st.records
    BY DEF Settles
  <1>13. ASSUME NEW s \in Subjects PROVE RecordOK(st2, P, C, now, s)
    <2>1. RecordOK(st, P, C, now, s)
      BY DEF Doc
    <2> QED BY <1>10, <1>11, <1>12, <2>1 DEF RecordOK
  <1>14. \A n \in Told(st2, P, C) : n.since < now
    BY <1>11 DEF Doc
  <1> QED BY <1>3, <1>9, <1>13, <1>14 DEF Doc

LEMMA SettleOrder ==
  ASSUME NEW st \in State, NEW st2, NEW C, NEW now \in Nat, NEW sent \in BOOLEAN, NEW n \in 1 .. Len(st.pending),
         CopyOrder(st, C, n), Settles(st, st2, sent, now)
  PROVE  CopyOrder(st2, C, n - 1)
PROOF
  <1>1. /\ Slots(st) = 1 .. Len(st.pending) /\ Len(st.pending) \in Nat /\ Len(st.pending) >= 1
        /\ Slots(st2) = 1 .. Len(st2.pending) /\ Len(st2.pending) \in Nat
        /\ \A i \in Slots(st2) : /\ From(st, i) \in Slots(st)
                                 /\ At(st2, i) = At(st, From(st, i)) /\ IsCopy(st2, i) = IsCopy(st, From(st, i))
    BY SettleSlots
  <1>2. Len(st2.pending) <= Len(st.pending)
    BY <1>1 DEF Settles, Popped, Rotated
  <1>3. ASSUME NEW i \in Slots(st2), NEW j \in Slots(st2), Ahead(i, j, n - 1)
        PROVE  Ahead(From(st, i), From(st, j), n)
    <2>1. i \in 1 .. Len(st.pending) /\ j \in 1 .. Len(st.pending)
      BY <1>1, <1>2
    <2>2. CASE i < Len(st.pending) /\ j < Len(st.pending)
      BY <1>1, <1>3, <2>1, <2>2 DEF From, Ahead
    <2>3. CASE i = Len(st.pending) /\ j < Len(st.pending)
      BY <1>1, <1>3, <2>1, <2>3 DEF From, Ahead
    <2>4. CASE j = Len(st.pending)
      BY <1>1, <1>3, <2>1, <2>4 DEF From, Ahead
    <2> QED BY <1>1, <2>1, <2>2, <2>3, <2>4
  <1> QED BY <1>1, <1>3 DEF CopyOrder

(* The first copy of a pass in which none was refused.                     *)
LEMMA CopySent ==
  ASSUME NEW st \in State, NEW C, 1 \in Slots(st), Straight(st, C), IsCopy(st, 1)
  PROVE  Straight(st, C \cup {At(st, 1)})
PROOF
  <1>1. Slots(st) = 1 .. Len(st.pending) /\ Len(st.pending) \in Nat
    BY Queue
  <1>2. ASSUME NEW j \in Slots(st), IsCopy(st, j), Same(At(st, 1), At(st, j)), At(st, 1).type = "recovery"
        PROVE  At(st, j).type = "recovery"
    <2>1. CASE j = 1
      BY <1>2, <2>1
    <2>2. CASE j # 1
      <3>1. Ahead(1, j, Len(st.pending))
        BY <1>1, <2>2 DEF Ahead
      <3> QED BY <1>2, <3>1 DEF Straight, CopyOrder
    <2> QED BY <2>1, <2>2
  <1> QED BY <1>2 DEF Straight, CopyOrder

-----------------------------------------------------------------------------
(* How often a notice was sent.                                            *)

LEMMA Counted ==
  ASSUME NEW sent \in Seq(Notices), NEW x \in Notices, NEW n
  PROVE  /\ TimesSent(sent, n) \in Nat
         /\ TimesSent(Append(sent, x), n) = IF n = x THEN TimesSent(sent, n) + 1 ELSE TimesSent(sent, n)
         /\ n \notin Range(sent) => TimesSent(sent, n) = 0
         /\ Range(Append(sent, x)) = Range(sent) \cup {x}
         /\ Range(sent) \subseteq Notices
PROOF
  <1> DEFINE places == {i \in DOMAIN sent : sent[i] = n}
             long == Append(sent, x)
             after == {i \in DOMAIN long : long[i] = n}
  <1>1. DOMAIN sent = 1 .. Len(sent) /\ Len(sent) \in Nat
    OBVIOUS
  <1>2. IsFiniteSet(1 .. Len(sent))
    BY <1>1, FS_Interval
  <1>3. IsFiniteSet(places)
    BY <1>1, <1>2, FS_Subset
  <1>4. Cardinality(places) \in Nat
    BY <1>3, FS_CardinalityType
  <1>5. /\ DOMAIN long = 1 .. Len(sent) + 1
        /\ \A i \in 1 .. Len(sent) : long[i] = sent[i]
        /\ long[Len(sent) + 1] = x
    BY <1>1
  <1>6. Len(sent) + 1 \notin places
    BY <1>1
  <1>7. ASSUME n = x PROVE Cardinality(after) = Cardinality(places) + 1
    <2>1. after = places \cup {Len(sent) + 1}
      BY <1>1, <1>5, <1>7
    <2> HIDE DEF places, after, long
    <2> QED BY <1>3, <1>6, <2>1, FS_AddElement
  <1>8. ASSUME n # x PROVE Cardinality(after) = Cardinality(places)
    <2>1. after = places
      BY <1>1, <1>5, <1>8
    <2> HIDE DEF places, after, long
    <2> QED BY <2>1
  <1>9. n \notin Range(sent) => places = {}
    BY DEF Range
  <1>10. n \notin Range(sent) => TimesSent(sent, n) = 0
    BY <1>9, FS_EmptySet DEF TimesSent
  <1>11. Range(long) = Range(sent) \cup {x}
    BY <1>1, <1>5 DEF Range
  <1>12. Range(sent) \subseteq Notices
    BY <1>1 DEF Range
  <1> QED BY <1>4, <1>7, <1>8, <1>10, <1>11, <1>12 DEF TimesSent

(* A notice that still waits to be sent, as far as the saved document and  *)
(* the pass know, was sent once for each fault at most.                    *)
Waits(st, n, copy) == [notice |-> n, copy |-> copy] \in Waiting(st)
Owes(st, sd, pc, n, copy) == Waits(st, n, copy) \/ (pc # "checkpoint" /\ Waits(sd, n, copy))
Charge(sent, copy, st, sd, pc, f) ==
  \A n \in Range(sent) : /\ TimesSent(sent, n) <= 1 + f
                         /\ Owes(st, sd, pc, n, copy) => TimesSent(sent, n) <= f

LEMMA ChargeKept ==
  ASSUME NEW sent, NEW copy, NEW st, NEW sd, NEW pc, NEW f, NEW st2, NEW sd2, NEW pc2,
         Charge(sent, copy, st, sd, pc, f),
         \A n \in Range(sent) : Owes(st2, sd2, pc2, n, copy) => Owes(st, sd, pc, n, copy)
  PROVE  Charge(sent, copy, st2, sd2, pc2, f)
BY DEF Charge

LEMMA ChargeFault ==
  ASSUME NEW sent \in Seq(Notices), NEW copy, NEW st, NEW sd, NEW pc, NEW f \in Nat, NEW st2, NEW sd2, NEW pc2,
         Charge(sent, copy, st, sd, pc, f)
  PROVE  Charge(sent, copy, st2, sd2, pc2, f + 1)
PROOF
  <1>1. ASSUME NEW n \in Range(sent) PROVE TimesSent(sent, n) <= f + 1 /\ TimesSent(sent, n) <= 1 + (f + 1)
    <2>1. n \in Notices
      BY DEF Range
    <2>2. TimesSent(sent, n) \in Nat
      BY <2>1, Counted
    <2>3. TimesSent(sent, n) <= 1 + f
      BY DEF Charge
    <2> QED BY <2>2, <2>3
  <1> QED BY <1>1 DEF Charge

LEMMA ChargeSent ==
  ASSUME NEW sent \in Seq(Notices), NEW copy, NEW st, NEW sd, NEW pc, NEW f \in Nat, NEW st2, NEW sd2,
         NEW h \in Notices, Waits(st, h, copy), ~Waits(st2, h, copy),
         \A n \in Notices : Waits(st2, n, copy) => Waits(st, n, copy),
         Charge(sent, copy, st, sd, pc, f)
  PROVE  Charge(Append(sent, h), copy, st2, sd2, "checkpoint", f)
PROOF
  <1>1. ASSUME NEW n \in Range(Append(sent, h))
        PROVE  /\ TimesSent(Append(sent, h), n) <= 1 + f
               /\ Owes(st2, sd2, "checkpoint", n, copy) => TimesSent(Append(sent, h), n) <= f
    <2>1. /\ TimesSent(sent, n) \in Nat
          /\ TimesSent(Append(sent, h), n) = IF n = h THEN TimesSent(sent, n) + 1 ELSE TimesSent(sent, n)
          /\ n \notin Range(sent) => TimesSent(sent, n) = 0
          /\ Range(Append(sent, h)) = Range(sent) \cup {h}
          /\ Range(sent) \subseteq Notices
      BY Counted
    <2>2. CASE n = h
      <3>1. TimesSent(sent, n) <= f
        <4>1. CASE n \in Range(sent)
          BY <2>2, <4>1 DEF Charge, Owes
        <4>2. CASE n \notin Range(sent)
          BY <2>1, <4>2
        <4> QED BY <4>1, <4>2
      <3>2. ~Owes(st2, sd2, "checkpoint", n, copy)
        BY <2>2 DEF Owes
      <3>3. TimesSent(Append(sent, h), n) = TimesSent(sent, n) + 1
        BY <2>1, <2>2
      <3>4. TimesSent(Append(sent, h), n) <= 1 + f
        BY <2>1, <3>1, <3>3
      <3> QED BY <3>2, <3>4
    <2>3. CASE n # h
      <3>1. n \in Range(sent) /\ n \in Notices
        BY <1>1, <2>1, <2>3
      <3>2. Owes(st2, sd2, "checkpoint", n, copy) => Owes(st, sd, pc, n, copy)
        BY <3>1 DEF Owes
      <3>3. TimesSent(Append(sent, h), n) = TimesSent(sent, n)
        BY <2>1, <2>3
      <3> QED BY <3>1, <3>2, <3>3 DEF Charge
    <2> QED BY <2>2, <2>3
  <1> QED BY <1>1 DEF Charge

LEMMA ChargeSentFault ==
  ASSUME NEW sent \in Seq(Notices), NEW copy, NEW st, NEW sd, NEW pc, NEW f \in Nat, NEW st2, NEW sd2, NEW pc2,
         NEW h \in Notices, Waits(st, h, copy),
         Charge(sent, copy, st, sd, pc, f)
  PROVE  Charge(Append(sent, h), copy, st2, sd2, pc2, f + 1)
PROOF
  <1>1. ASSUME NEW n \in Range(Append(sent, h))
        PROVE  /\ TimesSent(Append(sent, h), n) <= f + 1
               /\ TimesSent(Append(sent, h), n) <= 1 + (f + 1)
    <2>1. /\ TimesSent(sent, n) \in Nat
          /\ TimesSent(Append(sent, h), n) = IF n = h THEN TimesSent(sent, n) + 1 ELSE TimesSent(sent, n)
          /\ n \notin Range(sent) => TimesSent(sent, n) = 0
          /\ Range(Append(sent, h)) = Range(sent) \cup {h}
      BY Counted
    <2>2. CASE n = h
      <3>1. TimesSent(sent, n) <= f
        <4>1. CASE n \in Range(sent)
          BY <2>2, <4>1 DEF Charge, Owes
        <4>2. CASE n \notin Range(sent)
          BY <2>1, <4>2
        <4> QED BY <4>1, <4>2
      <3>2. TimesSent(Append(sent, h), n) = TimesSent(sent, n) + 1
        BY <2>1, <2>2
      <3> QED BY <2>1, <3>1, <3>2
    <2>3. CASE n # h
      <3>1. n \in Range(sent)
        BY <1>1, <2>1, <2>3
      <3>2. TimesSent(sent, n) <= 1 + f /\ TimesSent(Append(sent, h), n) = TimesSent(sent, n)
        BY <2>1, <2>3, <3>1 DEF Charge
      <3> QED BY <2>1, <3>2
    <2> QED BY <2>2, <2>3
  <1> QED BY <1>1 DEF Charge

-----------------------------------------------------------------------------
(* The invariant.                                                          *)

DocsOf(cl, sd, st, now, P, C) == now <= cl /\ Doc(sd, P, C, now) /\ Doc(st, P, C, now)

(* What memory holds, against what is saved, at each point of a pass.      *)
Delivered(entry, P, C, now) ==
  IF entry.key.copy THEN entry.key.notice \in C \/ now - entry.queued >= History
  ELSE entry.key.notice \in P
Pending(sd, st, P, C, now) ==
  \A i \in Slots(sd) : sd.pending[i].key \in Waiting(st) \/ Delivered(sd.pending[i], P, C, now)
MemoryOf(sd, st, p, P, C) ==
  /\ Fits(sd)
  /\ p.pc = "idle" => st = Fresh
  /\ p.pc = "offer" => st = sd
  /\ p.pc = "checkpoint" => Fits(st) /\ Waiting(st) \subseteq Waiting(sd) /\ Pending(sd, st, P, C, p.now)
  /\ p.pc \in {"observe", "save"} => Waiting(sd) \subseteq Waiting(st)
  /\ p.pc \in {"offer", "checkpoint"} =>
       p.remaining <= Len(st.pending) /\ (p.refused = 0 => p.remaining = Len(st.pending))

(* The copies are in order, as long as no pass ended early.                *)
Left(p, st) == IF p.pc \in {"offer", "checkpoint"} THEN p.remaining ELSE Len(st.pending)
OrderOf(sd, st, p, C) ==
  /\ CopyOrder(st, C, Left(p, st))
  /\ p.pc \in {"idle", "observe", "save"} => Straight(sd, C)

(* An app is no longer well by its record than by what passes have found.  *)
SeenWell(w, st, a) ==
  st.records[a].healthy # NoTime => w[a] # NoTime /\ w[a] <= st.records[a].healthy
HealthOf(sd, st, p, w) ==
  \A a \in Apps : SeenWell(w, st, a) /\ (p.pc = "idle" => SeenWell(w, sd, a))

(* The recoveries a pass decided on are earned, and of apps it has seen.   *)
EarnedOf(sd, st, p, w) ==
  p.pc \in {"observe", "save"} =>
    \A key \in NewKeys(sd, st) : key.notice.subject \in Apps =>
      /\ key.notice.subject \notin p.left
      /\ key.notice.type = "recovery" =>
           w[key.notice.subject] # NoTime /\ p.now - w[key.notice.subject] >= Recovery

Docs == DocsOf(clock, stored, state, pass.now, Range(posted), Range(copied))
Memory == MemoryOf(stored, state, pass, Range(posted), Range(copied))
Lines == cut \/ OrderOf(stored, state, pass, Range(copied))
Health == (\A a \in Apps : well[a] <= pass.now) /\ (cut \/ HealthOf(stored, state, pass, well))
Earned == cut \/ EarnedOf(stored, state, pass, well)
Charges ==
  /\ Charge(posted, FALSE, state, stored, pass.pc, faults)
  /\ Charge(copied, TRUE, state, stored, pass.pc, faults)

Kept == TypeOK /\ Docs /\ Memory
Sound == Kept /\ Lines /\ Health /\ Earned /\ Charges /\ InOrder

LEMMA Facts ==
  ASSUME Kept
  PROVE  /\ Range(posted) \in SUBSET Notices /\ Range(copied) \in SUBSET Notices
         /\ clock \in Nat /\ pass \in PassStates /\ pass.now \in Nat /\ pass.now <= clock
         /\ stored \in State /\ state \in State
         /\ Doc(stored, Range(posted), Range(copied), pass.now)
         /\ Doc(state, Range(posted), Range(copied), pass.now)
         /\ Distinct(stored) /\ Distinct(state) /\ IsFiniteSet(stored.seen) /\ IsFiniteSet(state.seen)
         /\ \A n \in Range(posted) \cup Range(copied) : n.since < pass.now
PROOF
  <1>1. posted \in Seq(Notices) /\ copied \in Seq(Notices)
    BY DEF Kept, TypeOK
  <1>2. Range(posted) \in SUBSET Notices /\ Range(copied) \in SUBSET Notices
    BY <1>1 DEF Range
  <1>3. clock \in Nat /\ pass \in PassStates /\ pass.now \in Nat /\ stored \in State /\ state \in State
    BY DEF Kept, TypeOK, PassStates
  <1>4. pass.now <= clock /\ Doc(stored, Range(posted), Range(copied), pass.now)
        /\ Doc(state, Range(posted), Range(copied), pass.now)
    BY DEF Kept, Docs, DocsOf
  <1> QED BY <1>2, <1>3, <1>4 DEF Doc, Typed, Told

LEMMA RestingFields ==
  ASSUME NEW now \in Nat
  PROVE  Resting(now) \in PassStates /\ Resting(now).pc = "idle" /\ Resting(now).now = now
BY DEF Resting, PassStates

LEMMA SoundInit == Init => Sound
PROOF
  <1> SUFFICES ASSUME Init PROVE Sound
    OBVIOUS
  <1>1. /\ clock = 1 /\ stored = Fresh /\ state = Fresh /\ pass = Resting(0)
        /\ posted = <<>> /\ copied = <<>> /\ well = [a \in Apps |-> NoTime] /\ cut = FALSE /\ faults = 0
    BY DEF Init
  <1>2. Range(<<>>) = {} /\ <<>> \in Seq(Notices) /\ DOMAIN <<>> = {}
    BY DEF Range
  <1>3. Resting(0) \in PassStates /\ Resting(0).pc = "idle" /\ Resting(0).now = 0
    BY RestingFields
  <1>4. Fresh \in State /\ Waiting(Fresh) = {} /\ Slots(Fresh) = {} /\ \A s \in Subjects : Fresh.records[s] = Closed
    BY FreshState
  <1>5. TypeOK
    BY <1>1, <1>2, <1>3, <1>4, Constants DEF TypeOK
  <1>6. {} \in SUBSET Notices /\ \A n \in {} \cup {} : n.since < 0
    OBVIOUS
  <1>7. Doc(Fresh, {}, {}, 0) /\ Straight(Fresh, {})
    BY <1>6, DocFresh
  <1>8. Docs
    <2>1. Range(posted) = {} /\ Range(copied) = {} /\ pass.now = 0 /\ 0 <= clock
      BY <1>1, <1>2, <1>3
    <2>2. Doc(stored, Range(posted), Range(copied), pass.now)
      BY <1>1, <1>7, <2>1
    <2>3. Doc(state, Range(posted), Range(copied), pass.now)
      BY <1>1, <1>7, <2>1
    <2> QED BY <2>1, <2>2, <2>3 DEF Docs, DocsOf
  <1>9. Fits(Fresh)
    <2>1. Fresh.pending = <<>> /\ Fresh.seen = {} /\ Len(<<>>) = 0
      BY DEF Fresh
    <2>2. Cardinality({}) = 0
      BY FS_EmptySet
    <2>3. Size(Fresh) = EntryBytes * 0 + SeenBytes * 0
      BY <2>1, <2>2 DEF Size
    <2> QED BY <2>3, IncidentAssumption DEF Fits
  <1>10. Memory
    BY <1>1, <1>3, <1>9 DEF Memory, MemoryOf
  <1>11. Lines
    BY <1>1, <1>2, <1>3, <1>7 DEF Lines, OrderOf, Left, Straight
  <1>12. Health
    <2>1. \A a \in Apps : Fresh.records[a].healthy = NoTime /\ well[a] = NoTime
      BY <1>1, <1>4, Constants DEF Closed
    <2>2. \A a \in Apps : well[a] <= 0
      BY <2>1, Constants
    <2> QED BY <1>1, <1>3, <2>1, <2>2 DEF Health, HealthOf, SeenWell
  <1>13. Earned /\ Charges /\ InOrder
    BY <1>1, <1>2, <1>3 DEF Earned, EarnedOf, Charges, Charge, InOrder, PlatformInOrder, CopiesInOrder
  <1> QED BY <1>5, <1>8, <1>10, <1>11, <1>12, <1>13 DEF Sound, Kept

-----------------------------------------------------------------------------
(* Every step keeps it.                                                    *)

(* A step that sends nothing: what is left to show of each of its parts.   *)
LEMMA Quiet ==
  ASSUME TypeOK, InOrder, UNCHANGED <<posted, copied>>, cut => cut'
  PROVE  InOrder'
BY DEF InOrder, PlatformInOrder, CopiesInOrder, Earlier

LEMMA SoundBegin == Sound /\ Begin => Sound'
PROOF
  <1> SUFFICES ASSUME Sound, Begin PROVE Sound'
    OBVIOUS
  <1> DEFINE P == Range(posted)
             C == Range(copied)
  <1>1. TypeOK /\ Kept /\ Lines /\ Health /\ Earned /\ Charges /\ InOrder /\ Memory
    BY DEF Sound, Kept
  <1>2. /\ P \in SUBSET Notices /\ C \in SUBSET Notices
        /\ clock \in Nat /\ pass \in PassStates /\ pass.now \in Nat /\ pass.now <= clock /\ stored \in State
        /\ Doc(stored, P, C, pass.now)
    BY <1>1, Facts
  <1>3. /\ pass.pc = "idle" /\ UNCHANGED <<clock, stored, posted, copied, cut, faults>>
        /\ P = Range(posted') /\ C = Range(copied')
    BY DEF Begin, PassDue
  <1>4. Resting(clock) \in PassStates
    BY <1>2, RestingFields
  <1> HIDE DEF P, C
  <1>5. Doc(stored, P, C, clock)
    BY <1>2, DocLater
  <1>6. /\ pass' \in PassStates /\ pass'.now = clock /\ pass'.left \subseteq Apps
        /\ pass'.pc \in {"observe", "save"}
    <2>1. CASE pass' = [Resting(clock) EXCEPT !.pc = "observe", !.left = Apps]
      BY <1>2, <2>1 DEF Resting, PassStates
    <2>2. CASE pass' = [Resting(clock) EXCEPT !.pc = "save", !.known = FALSE]
      BY <1>2, <2>2 DEF Resting, PassStates
    <2> QED BY <2>1, <2>2 DEF Begin
  <1>7. /\ Builds(stored, state', P, C, clock, Monitor) /\ state' \in State
        /\ well' \in [Apps -> Times] /\ \A a \in Apps : well'[a] <= clock
        /\ cut \/ \A a \in Apps : SeenWell(well', state', a)
    <2>0. well \in [Apps -> Times] /\ \A a \in Apps : well[a] <= pass.now
      BY <1>1 DEF TypeOK, Health
    <2>1. CASE state' = Expire(stored, clock) /\ well' = well
      <3>1. LET st2 == Expire(stored, clock)
            IN  Doc(st2, P, C, clock) /\ st2.pending = stored.pending /\ st2.records = stored.records
        BY <1>2, <1>5, DocExpire
      <3>2. Doc(state', P, C, clock) /\ state'.pending = stored.pending /\ state'.records = stored.records
        BY <2>1, <3>1
      <3>3. Builds(stored, state', P, C, clock, Monitor) /\ state' \in State
        BY <1>2, <3>2, SameBuilds DEF Doc, Typed
      <3>4. \A m \in Times : m <= pass.now => m <= clock
        BY <1>2 DEF Times, NoTime
      <3>5. \A a \in Apps : well'[a] <= clock
        BY <2>0, <2>1, <3>4
      <3>6. cut \/ \A a \in Apps : SeenWell(well', state', a)
        BY <1>1, <1>3, <2>1, <3>2 DEF Health, HealthOf, SeenWell
      <3> QED BY <2>0, <2>1, <3>3, <3>5, <3>6
    <2>2. CASE state' = Unknown(stored, clock) /\ well' = [a \in Apps |-> NoTime]
      <3>1. LET st2 == Unknown(stored, clock)
            IN  /\ Builds(stored, st2, P, C, clock, Monitor)
                /\ \A a \in Apps : st2.records[a].healthy = NoTime
        BY <1>2, <1>5, UnknownBuilds
      <3>2. Builds(stored, state', P, C, clock, Monitor) /\ \A a \in Apps : state'.records[a].healthy = NoTime
        BY <2>2, <3>1
      <3>3. NoTime <= clock /\ NoTime \in Times
        BY <1>2 DEF NoTime, Times
      <3> QED BY <2>2, <3>2, <3>3 DEF SeenWell, Builds, Doc, Typed
    <2> QED BY <2>1, <2>2 DEF Begin
  <1>8. TypeOK'
    BY <1>1, <1>3, <1>6, <1>7 DEF TypeOK
  <1>9. Docs'
    BY <1>2, <1>3, <1>5, <1>6, <1>7 DEF Docs, DocsOf, Builds
  <1>10. Memory'
    BY <1>1, <1>3, <1>6, <1>7 DEF Memory, MemoryOf, Builds
  <1>11. Lines'
    BY <1>1, <1>3, <1>6, <1>7 DEF Lines, OrderOf, Left, Builds, Straight
  <1>12. Health'
    BY <1>3, <1>6, <1>7 DEF Health, HealthOf
  <1>13. Earned'
    <2>1. \A key \in NewKeys(stored, state') : key.notice.subject \notin Apps
      BY <1>7, Constants DEF Builds
    <2> QED BY <1>3, <2>1 DEF Earned, EarnedOf
  <1>14. Charges'
    <2>1. \A n, copy : n \in P \cup C /\ Owes(state', stored', pass'.pc, n, copy)
            => Owes(state, stored, pass.pc, n, copy)
      BY <1>3, <1>6, <1>7 DEF Owes, Waits, Builds, NewKeys
    <2> QED BY <1>1, <1>3, <2>1, ChargeKept DEF Charges, P, C
  <1>15. InOrder'
    BY <1>1, <1>3, Quiet
  <1> QED BY <1>8, <1>9, <1>10, <1>11, <1>12, <1>13, <1>14, <1>15 DEF Sound, Kept

(* A pass that ends early, with what it leaves saved.                      *)
LEMMA EarlyEnd ==
  ASSUME Kept, Health, EndsEarly, UNCHANGED <<clock, well>>,
         posted' \in Seq(Notices), copied' \in Seq(Notices), faults' \in Nat,
         Doc(stored', Range(posted'), Range(copied'), pass.now), Fits(stored'),
         Charges', InOrder'
  PROVE  Sound'
PROOF
  <1> DEFINE P == Range(posted')
             C == Range(copied')
  <1>1. /\ clock \in Nat /\ pass \in PassStates /\ pass.now \in Nat /\ pass.now <= clock
    BY Facts
  <1>2. pass' = Resting(pass.now) /\ state' = Fresh /\ cut' = TRUE
    BY DEF EndsEarly, Ends
  <1>3. pass' \in PassStates /\ pass'.pc = "idle" /\ pass'.now = pass.now
    BY <1>1, <1>2, RestingFields
  <1>4. P \in SUBSET Notices /\ C \in SUBSET Notices
    BY DEF Range
  <1> HIDE DEF P, C
  <1>5. Doc(stored', P, C, pass.now)
    BY DEF P, C
  <1>6. \A n \in P \cup C : n.since < pass.now
    BY <1>5 DEF Doc, Told
  <1>7. Doc(Fresh, P, C, pass.now)
    BY <1>1, <1>4, <1>6, DocFresh
  <1>8. stored' \in State /\ state' \in State
    BY <1>2, <1>5, FreshState DEF Doc, Typed
  <1>9. TypeOK'
    BY <1>1, <1>2, <1>3, <1>8 DEF TypeOK, Kept
  <1>10. Docs'
    BY <1>1, <1>2, <1>3, <1>5, <1>7 DEF Docs, DocsOf, P, C
  <1>11. Memory'
    BY <1>2, <1>3 DEF Memory, MemoryOf
  <1>12. Lines' /\ Earned'
    BY <1>2 DEF Lines, Earned
  <1>13. Health'
    BY <1>2, <1>3 DEF Health
  <1> QED BY <1>9, <1>10, <1>11, <1>12, <1>13 DEF Sound, Kept

(* What a fault costs is charged to it.                                    *)
LEMMA FaultCharges ==
  ASSUME Kept, Charges, FaultHappens, UNCHANGED <<posted, copied>>
  PROVE  Charges'
PROOF
  <1>1. posted \in Seq(Notices) /\ copied \in Seq(Notices) /\ faults \in Nat
    BY DEF Kept, TypeOK
  <1>2. Charge(posted, FALSE, state', stored', pass'.pc, faults + 1)
    BY <1>1, ChargeFault DEF Charges
  <1>3. Charge(copied, TRUE, state', stored', pass'.pc, faults + 1)
    BY <1>1, ChargeFault DEF Charges
  <1> QED BY <1>2, <1>3 DEF Charges, FaultHappens

LEMMA FaultTyped == Kept /\ FaultHappens => faults' \in Nat
BY DEF Kept, TypeOK, FaultHappens

LEMMA SoundStop == Sound /\ Stop => Sound'
PROOF
  <1> SUFFICES ASSUME Sound, Stop PROVE Sound'
    OBVIOUS
  <1>1. Kept /\ Health /\ Charges /\ InOrder /\ TypeOK /\ Memory
    BY DEF Sound, Kept
  <1>2. FaultHappens /\ EndsEarly /\ UNCHANGED <<clock, stored, posted, copied, well>>
    BY DEF Stop
  <1>3. Charges'
    BY <1>1, <1>2, FaultCharges
  <1>4. InOrder'
    BY <1>1, <1>2, Quiet DEF EndsEarly
  <1>5. posted' \in Seq(Notices) /\ copied' \in Seq(Notices) /\ faults' \in Nat /\ Fits(stored')
    BY <1>1, <1>2, FaultTyped DEF TypeOK, Memory, MemoryOf
  <1>6. Doc(stored', Range(posted'), Range(copied'), pass.now)
    BY <1>1, <1>2, Facts
  <1> QED BY <1>1, <1>2, <1>3, <1>4, <1>5, <1>6, EarlyEnd

LEMMA SoundUnread == Sound /\ Unread => Sound'
PROOF
  <1> SUFFICES ASSUME Sound, Unread PROVE Sound'
    OBVIOUS
  <1> DEFINE P == Range(posted)
             C == Range(copied)
  <1>1. Kept /\ Health /\ Charges /\ InOrder /\ TypeOK /\ Memory
    BY DEF Sound, Kept
  <1>2. /\ pass.pc = "idle" /\ pass' = Resting(clock) /\ cut' = TRUE /\ FaultHappens
        /\ UNCHANGED <<clock, stored, state, posted, copied, well>>
        /\ P = Range(posted') /\ C = Range(copied')
    BY DEF Unread, PassDue
  <1>3. /\ P \in SUBSET Notices /\ C \in SUBSET Notices /\ clock \in Nat /\ pass.now \in Nat /\ pass.now <= clock
        /\ Doc(stored, P, C, pass.now) /\ Doc(state, P, C, pass.now)
    BY <1>1, Facts
  <1> HIDE DEF P, C
  <1>4. Doc(stored, P, C, clock) /\ Doc(state, P, C, clock)
    BY <1>3, DocLater
  <1>5. pass' \in PassStates /\ pass'.pc = "idle" /\ pass'.now = clock
    BY <1>2, <1>3, RestingFields
  <1>6. TypeOK'
    BY <1>1, <1>2, <1>5, FaultTyped DEF TypeOK
  <1>7. Docs'
    BY <1>2, <1>3, <1>4, <1>5 DEF Docs, DocsOf
  <1>8. Memory'
    BY <1>1, <1>2, <1>5 DEF Memory, MemoryOf
  <1>9. Lines' /\ Earned'
    BY <1>2 DEF Lines, Earned
  <1>10. Health'
    <2>1. \A a \in Apps : well[a] \in Times /\ well[a] <= pass.now
      BY <1>1 DEF Health, TypeOK
    <2>2. \A m \in Times : m <= pass.now => m <= clock
      BY <1>3 DEF Times, NoTime
    <2> QED BY <1>2, <1>5, <2>1, <2>2 DEF Health
  <1>11. Charges'
    BY <1>1, <1>2, FaultCharges
  <1>12. InOrder'
    BY <1>1, <1>2, Quiet
  <1> QED BY <1>6, <1>7, <1>8, <1>9, <1>10, <1>11, <1>12 DEF Sound, Kept

LEMMA SoundTick == Sound /\ Tick => Sound'
PROOF
  <1> SUFFICES ASSUME Sound, Tick PROVE Sound'
    OBVIOUS
  <1>1. Kept /\ Lines /\ Health /\ Earned /\ Charges /\ InOrder /\ TypeOK /\ Memory /\ Docs
    BY DEF Sound, Kept
  <1>2. clock' = clock + 1 /\ UNCHANGED <<stored, state, pass, posted, copied, well, cut, faults>>
    BY DEF Tick
  <1>3. clock \in Nat /\ pass.now \in Nat /\ pass.now <= clock
    BY <1>1, Facts
  <1>4. clock' \in Nat /\ pass.now <= clock'
    BY <1>2, <1>3
  <1>5. TypeOK' /\ Docs'
    BY <1>1, <1>2, <1>4 DEF TypeOK, Docs, DocsOf
  <1>6. Memory' /\ Lines' /\ Health' /\ Earned' /\ Charges'
    BY <1>1, <1>2 DEF Memory, Lines, Health, Earned, Charges
  <1>7. InOrder'
    BY <1>1, <1>2, Quiet
  <1> QED BY <1>5, <1>6, <1>7 DEF Sound, Kept

(* A step of a pass that only decides on notices of subject s.             *)
LEMMA BuildsKept ==
  ASSUME Kept, Lines, Charges, InOrder, NEW s,
         pass.pc = "observe", pass' \in PassStates, pass'.now = pass.now, pass'.pc \in {"observe", "save"},
         UNCHANGED <<clock, stored, posted, copied, cut, faults>>, well' \in [Apps -> Times],
         Builds(state, state', Range(posted), Range(copied), pass.now, s)
  PROVE  Kept' /\ Lines' /\ Charges' /\ InOrder'
PROOF
  <1> DEFINE P == Range(posted)
             C == Range(copied)
  <1>1. TypeOK /\ Docs /\ Memory
    BY DEF Kept
  <1>2. P = Range(posted') /\ C = Range(copied') /\ Builds(state, state', P, C, pass.now, s)
    OBVIOUS
  <1>3. Docs
    BY DEF Kept
  <1> HIDE DEF P, C
  <1>4. state' \in State /\ Doc(state', P, C, pass.now)
    BY <1>2 DEF Builds, Doc, Typed
  <1>5. TypeOK'
    BY <1>1, <1>4 DEF TypeOK
  <1>6. Docs'
    BY <1>1, <1>2, <1>4 DEF Docs, DocsOf, P, C
  <1>7. Memory'
    BY <1>1, <1>2 DEF Memory, MemoryOf, Builds
  <1>8. Lines'
    BY <1>2 DEF Lines, OrderOf, Left, Builds, Straight, P, C
  <1>9. Charges'
    <2>1. \A n, copy : n \in P \cup C /\ Owes(state', stored', pass'.pc, n, copy)
            => Owes(state, stored, pass.pc, n, copy)
      BY <1>2 DEF Owes, Waits, Builds, NewKeys
    <2> QED BY <1>1, <2>1, ChargeKept DEF Charges, P, C
  <1>10. InOrder'
    BY <1>1, Quiet
  <1> QED BY <1>5, <1>6, <1>7, <1>8, <1>9, <1>10 DEF Kept

LEMMA SoundConclude == Sound /\ Conclude => Sound'
PROOF
  <1> SUFFICES ASSUME Sound, Conclude PROVE Sound'
    OBVIOUS
  <1> DEFINE P == Range(posted)
             C == Range(copied)
  <1>1. Kept /\ Lines /\ Health /\ Earned /\ Charges /\ InOrder /\ TypeOK /\ Memory
    BY DEF Sound, Kept
  <1>2. /\ pass.pc = "observe" /\ pass.left = {} /\ state' = Well(state, Monitor, pass.now)
        /\ pass' = [pass EXCEPT !.pc = "save"]
        /\ UNCHANGED <<clock, stored, posted, copied, well, cut, faults>>
    BY DEF Conclude
  <1>3. /\ P \in SUBSET Notices /\ C \in SUBSET Notices /\ pass.now \in Nat /\ pass \in PassStates
        /\ Doc(state, P, C, pass.now)
    BY <1>1, Facts
  <1>4. pass' \in PassStates /\ pass'.now = pass.now /\ pass'.pc = "save" /\ pass'.left = pass.left
    BY <1>2, <1>3 DEF PassStates
  <1> HIDE DEF P, C
  <1>5. LET st2 == Well(state, Monitor, pass.now)
        IN  Builds(state, st2, P, C, pass.now, Monitor) /\ Others(state, st2, Monitor)
    BY <1>3, MonitorBuilds
  <1>6. Builds(state, state', P, C, pass.now, Monitor) /\ Others(state, state', Monitor)
    BY <1>2, <1>5
  <1>7. Builds(state, state', Range(posted), Range(copied), pass.now, Monitor)
    BY <1>6 DEF P, C
  <1>8. well' \in [Apps -> Times]
    BY <1>1, <1>2 DEF TypeOK
  <1>9. Kept' /\ Lines' /\ Charges' /\ InOrder'
    BY <1>1, <1>2, <1>4, <1>7, <1>8, BuildsKept
  <1>10. \A a \in Apps : state'.records[a] = state.records[a]
    BY <1>6, Constants DEF Others
  <1>11. Health'
    BY <1>1, <1>2, <1>4, <1>10 DEF Health, HealthOf, SeenWell
  <1>12. Earned'
    <2>1. \A key \in NewKeys(stored, state') : key.notice.subject \in Apps => key \in NewKeys(stored, state)
      BY <1>6, Constants DEF Builds, NewKeys
    <2> QED BY <1>1, <1>2, <1>4, <2>1 DEF Earned, EarnedOf
  <1> QED BY <1>9, <1>11, <1>12 DEF Sound

LEMMA SoundObserve ==
  ASSUME NEW app \in Apps, NEW replaced \in BOOLEAN, NEW view \in Views
  PROVE  Sound /\ ObserveApp(app, replaced, view) => Sound'
PROOF
  <1> SUFFICES ASSUME Sound, ObserveApp(app, replaced, view) PROVE Sound'
    OBVIOUS
  <1> DEFINE P == Range(posted)
             C == Range(copied)
             old == state.records[app].healthy
  <1>1. Kept /\ Lines /\ Health /\ Earned /\ Charges /\ InOrder /\ TypeOK /\ Memory
    BY DEF Sound, Kept
  <1>2. /\ pass.pc = "observe" /\ app \in pass.left
        /\ state' = ObserveRelease(state, app, replaced, view, pass.now)
        /\ pass' = [pass EXCEPT !.left = @ \ {app}]
        /\ well' = [well EXCEPT ![app] =
             IF view \notin {"well", "suspended"} THEN NoTime
             ELSE IF @ = NoTime THEN pass.now ELSE @]
        /\ UNCHANGED <<clock, stored, posted, copied, cut, faults>>
    BY DEF ObserveApp
  <1>3. /\ P \in SUBSET Notices /\ C \in SUBSET Notices /\ pass.now \in Nat /\ pass \in PassStates
        /\ Doc(state, P, C, pass.now) /\ state \in State
    BY <1>1, Facts
  <1>4. pass' \in PassStates /\ pass'.now = pass.now /\ pass'.pc = "observe" /\ pass'.left = pass.left \ {app}
    BY <1>2, <1>3 DEF PassStates
  <1> HIDE DEF P, C
  <1>5. Viewed(state, ObserveRelease(state, app, replaced, view, pass.now), P, C, pass.now, app, view)
    BY <1>3, ObserveBuilds
  <1>6. /\ Builds(state, state', P, C, pass.now, app)
        /\ Others(state, state', app)
        /\ \/ state'.records[app].healthy = NoTime
           \/ view \in {"well", "suspended"} /\ state'.records[app].healthy \in {pass.now, old}
        /\ Recovers(state, state') =>
             view \in {"well", "suspended"} /\ old # NoTime /\ pass.now - old >= Recovery
    BY <1>2, <1>5 DEF Viewed
  <1>7. Builds(state, state', Range(posted), Range(copied), pass.now, app)
    BY <1>6 DEF P, C
  <1>8. well \in [Apps -> Times] /\ \A a \in Apps : well[a] \in Times /\ well[a] <= pass.now
    BY <1>1 DEF TypeOK, Health
  <1>9. /\ well' \in [Apps -> Times] /\ \A a \in Apps : well'[a] <= pass.now
        /\ \A a \in Apps : a # app => well'[a] = well[a]
        /\ view \in {"well", "suspended"} => /\ well'[app] # NoTime
                                             /\ well[app] # NoTime => well'[app] = well[app]
    <2>1. NoTime <= pass.now /\ NoTime \in Times /\ pass.now \in Times /\ pass.now # NoTime
      BY <1>3 DEF Times, NoTime
    <2>2. CASE view \notin {"well", "suspended"}
      BY <1>2, <1>8, <2>1, <2>2
    <2>3. CASE view \in {"well", "suspended"} /\ well[app] = NoTime
      <3>1. well' = [well EXCEPT ![app] = pass.now]
        BY <1>2, <2>3
      <3>2. well'[app] = pass.now /\ \A a \in Apps : a # app => well'[a] = well[a]
        BY <1>8, <3>1
      <3>3. well' \in [Apps -> Times]
        BY <1>8, <2>1, <3>1
      <3>4. \A a \in Apps : well'[a] <= pass.now
        BY <1>3, <1>8, <3>2
      <3> QED BY <2>1, <2>3, <3>2, <3>3, <3>4
    <2>4. CASE view \in {"well", "suspended"} /\ well[app] # NoTime
      BY <1>2, <1>8, <2>1, <2>4
    <2> QED BY <2>2, <2>3, <2>4
  <1>10. Kept' /\ Lines' /\ Charges' /\ InOrder'
    BY <1>1, <1>2, <1>4, <1>7, <1>9, BuildsKept
  <1>11. \A a \in Apps : a # app => state'.records[a] = state.records[a]
    BY <1>6, Constants DEF Others
  <1>12. Health'
    <2>1. ASSUME ~cut PROVE SeenWell(well', state', app)
      <3>1. SeenWell(well, state, app)
        BY <1>1, <2>1 DEF Health, HealthOf
      <3>2. CASE state'.records[app].healthy = NoTime
        BY <3>2 DEF SeenWell
      <3>3. CASE state'.records[app].healthy = pass.now /\ view \in {"well", "suspended"}
        BY <1>9, <3>3 DEF SeenWell
      <3>4. CASE state'.records[app].healthy = old /\ view \in {"well", "suspended"}
        BY <1>9, <3>1, <3>4 DEF SeenWell
      <3> QED BY <1>6, <3>2, <3>3, <3>4
    <2>2. ASSUME ~cut, NEW a \in Apps, a # app PROVE SeenWell(well', state', a)
      BY <1>1, <1>9, <1>11, <2>2 DEF Health, HealthOf, SeenWell
    <2> QED BY <1>2, <1>4, <1>9, <2>1, <2>2 DEF Health, HealthOf
  <1>13. Earned'
    <2> SUFFICES ASSUME ~cut, NEW key \in NewKeys(stored, state'), key.notice.subject \in Apps
                 PROVE  /\ key.notice.subject \notin pass'.left
                        /\ key.notice.type = "recovery" =>
                             /\ well'[key.notice.subject] # NoTime
                             /\ pass.now - well'[key.notice.subject] >= Recovery
      BY <1>2, <1>4 DEF Earned, EarnedOf
    <2>1. CASE key \in NewKeys(state, state')
      <3>1. key.notice.subject = app
        BY <1>6, <2>1 DEF Builds
      <3>2. ASSUME key.notice.type = "recovery"
            PROVE  well'[app] # NoTime /\ pass.now - well'[app] >= Recovery
        <4>1. view \in {"well", "suspended"} /\ old # NoTime /\ pass.now - old >= Recovery
          BY <1>6, <2>1, <3>2 DEF Recovers
        <4>2. well[app] # NoTime /\ well[app] <= old
          BY <1>1, <4>1 DEF Health, HealthOf, SeenWell
        <4>3. well'[app] = well[app]
          BY <1>9, <4>1, <4>2
        <4>4. state.records[app] \in Records
          BY <1>3, Queue, Constants
        <4>5. old \in Int /\ well[app] \in Int /\ Recovery \in Int
          BY <1>8, <4>4, Constants DEF Records, Times, NoTime
        <4>6. \A m, n \in Int : m <= n /\ pass.now - n >= Recovery => pass.now - m >= Recovery
          BY <1>3, <4>5
        <4> QED BY <4>1, <4>2, <4>3, <4>5, <4>6
      <3> QED BY <1>4, <3>1, <3>2
    <2>2. CASE key \notin NewKeys(state, state')
      <3>1. key \in NewKeys(stored, state)
        BY <2>2 DEF NewKeys
      <3>2. key.notice.subject \notin pass.left
        BY <1>1, <1>2, <3>1 DEF Earned, EarnedOf
      <3>3. key.notice.subject # app
        BY <1>2, <3>2
      <3>4. key.notice.type = "recovery" =>
              /\ well[key.notice.subject] # NoTime
              /\ pass.now - well[key.notice.subject] >= Recovery
        BY <1>1, <1>2, <3>1 DEF Earned, EarnedOf
      <3> QED BY <1>4, <1>9, <3>2, <3>3, <3>4
    <2> QED BY <2>1, <2>2
  <1> QED BY <1>10, <1>12, <1>13 DEF Sound

(* A save that is not made ends the pass: it failed, or there was no room. *)
LEMMA SaveFails ==
  ASSUME Sound, EndsEarly, FaultHappens, UNCHANGED <<clock, posted, copied, well>>,
         Doc(stored', Range(posted), Range(copied), pass.now), Fits(stored')
  PROVE  Sound'
PROOF
  <1>1. Kept /\ Health /\ Charges /\ InOrder /\ TypeOK
    BY DEF Sound, Kept
  <1>2. Charges'
    BY <1>1, FaultCharges
  <1>3. InOrder'
    BY <1>1, Quiet DEF EndsEarly
  <1>4. posted' \in Seq(Notices) /\ copied' \in Seq(Notices) /\ faults' \in Nat
    BY <1>1, FaultTyped DEF TypeOK
  <1>5. Doc(stored', Range(posted'), Range(copied'), pass.now)
    OBVIOUS
  <1> QED BY <1>1, <1>2, <1>3, <1>4, <1>5, EarlyEnd

LEMMA NoRoom ==
  ASSUME Sound, EndsEarly, pass.pc # "checkpoint", UNCHANGED <<clock, stored, posted, copied, well, faults>>
  PROVE  Sound'
PROOF
  <1>1. Kept /\ Health /\ Charges /\ InOrder /\ TypeOK /\ Memory
    BY DEF Sound, Kept
  <1>2. state' = Fresh /\ Waiting(Fresh) = {}
    BY FreshState DEF EndsEarly, Ends
  <1>3. Charges'
    <2>1. \A n, copy : Owes(state', stored', pass'.pc, n, copy) => Owes(state, stored, pass.pc, n, copy)
      BY <1>2 DEF Owes, Waits
    <2>2. Charge(posted, FALSE, state', stored', pass'.pc, faults)
      BY <1>1, <2>1, ChargeKept DEF Charges
    <2>3. Charge(copied, TRUE, state', stored', pass'.pc, faults)
      BY <1>1, <2>1, ChargeKept DEF Charges
    <2> QED BY <2>2, <2>3 DEF Charges
  <1>4. InOrder'
    BY <1>1, Quiet DEF EndsEarly
  <1>5. posted' \in Seq(Notices) /\ copied' \in Seq(Notices) /\ faults' \in Nat /\ Fits(stored')
    BY <1>1 DEF TypeOK, Memory, MemoryOf
  <1>6. Doc(stored', Range(posted'), Range(copied'), pass.now)
    BY <1>1, Facts
  <1> QED BY <1>1, <1>3, <1>4, <1>5, <1>6, EarlyEnd

LEMMA SoundSave == Sound /\ Save => Sound'
PROOF
  <1> SUFFICES ASSUME Sound, Save PROVE Sound'
    OBVIOUS
  <1> DEFINE P == Range(posted)
             C == Range(copied)
  <1>1. Kept /\ Lines /\ Health /\ Earned /\ Charges /\ InOrder /\ TypeOK /\ Memory
    BY DEF Sound, Kept
  <1>2. pass.pc = "save" /\ UNCHANGED <<clock, posted, copied, well>>
    BY DEF Save
  <1>3. /\ pass.now \in Nat /\ pass.now <= clock /\ pass \in PassStates /\ state \in State
        /\ Doc(stored, Range(posted), Range(copied), pass.now)
        /\ Doc(state, Range(posted), Range(copied), pass.now)
    BY <1>1, Facts
  <1>4. CASE Saved /\ pass' = Offering /\ UNCHANGED state
    <2>1. Fits(state) /\ stored' = state /\ state' = state /\ UNCHANGED <<faults, cut>>
      BY <1>4 DEF Saved
    <2>2. Len(state.pending) \in Nat
      BY <1>3, Queue
    <2>3. /\ pass' \in PassStates /\ pass'.now = pass.now /\ pass'.pc = "offer"
          /\ pass'.remaining = Len(state.pending)
      BY <1>3, <1>4, <2>2 DEF Offering, PassStates
    <2>4. TypeOK'
      BY <1>1, <1>2, <2>1, <2>3 DEF TypeOK
    <2>5. Docs'
      BY <1>2, <1>3, <2>1, <2>3 DEF Docs, DocsOf
    <2>6. Memory'
      BY <1>1, <2>1, <2>2, <2>3 DEF Memory, MemoryOf
    <2>7. Lines'
      BY <1>1, <1>2, <2>1, <2>3 DEF Lines, OrderOf, Left
    <2>8. Health' /\ Earned'
      BY <1>1, <1>2, <2>1, <2>3 DEF Health, HealthOf, Earned, EarnedOf
    <2>9. Charges'
      <3>1. \A n, copy : Owes(state', stored', pass'.pc, n, copy) => Owes(state, stored, pass.pc, n, copy)
        BY <2>1 DEF Owes
      <3>2. Charge(posted, FALSE, state', stored', pass'.pc, faults)
        BY <1>1, <3>1, ChargeKept DEF Charges
      <3>3. Charge(copied, TRUE, state', stored', pass'.pc, faults)
        BY <1>1, <3>1, ChargeKept DEF Charges
      <3> QED BY <1>2, <2>1, <3>2, <3>3 DEF Charges
    <2>10. InOrder'
      BY <1>1, <1>2, <2>1, Quiet
    <2> QED BY <2>4, <2>5, <2>6, <2>7, <2>8, <2>9, <2>10 DEF Sound, Kept
  <1>5. CASE NotSaved
    <2>1. EndsEarly
      BY <1>5 DEF NotSaved
    <2>2. CASE ~Fits(state) /\ UNCHANGED <<stored, faults>>
      BY <1>2, <2>1, <2>2, NoRoom
    <2>3. CASE Fits(state) /\ FaultHappens /\ stored' \in {stored, state}
      <3>1. Doc(stored', Range(posted), Range(copied), pass.now) /\ Fits(stored')
        BY <1>1, <1>3, <2>3 DEF Memory, MemoryOf
      <3> QED BY <1>2, <2>1, <2>3, <3>1, SaveFails
    <2> QED BY <1>5, <2>2, <2>3 DEF NotSaved
  <1> QED BY <1>4, <1>5 DEF Save

LEMMA SoundCheckpoint == Sound /\ Checkpoint => Sound'
PROOF
  <1> SUFFICES ASSUME Sound, Checkpoint PROVE Sound'
    OBVIOUS
  <1>1. Kept /\ Lines /\ Health /\ Earned /\ Charges /\ InOrder /\ TypeOK /\ Memory
    BY DEF Sound, Kept
  <1>2. pass.pc = "checkpoint" /\ UNCHANGED <<clock, posted, copied, well>>
    BY DEF Checkpoint
  <1>3. /\ pass.now \in Nat /\ pass.now <= clock /\ pass \in PassStates /\ state \in State
        /\ Doc(stored, Range(posted), Range(copied), pass.now)
        /\ Doc(state, Range(posted), Range(copied), pass.now)
        /\ Fits(state)
    BY <1>1, <1>2, Facts DEF Memory, MemoryOf
  <1>4. CASE Saved /\ pass' = [pass EXCEPT !.pc = "offer"] /\ UNCHANGED state
    <2>1. Fits(state) /\ stored' = state /\ state' = state /\ UNCHANGED <<faults, cut>>
      BY <1>4 DEF Saved
    <2>2. /\ pass' \in PassStates /\ pass'.now = pass.now /\ pass'.pc = "offer"
          /\ pass'.remaining = pass.remaining /\ pass'.refused = pass.refused
      BY <1>3, <1>4 DEF PassStates
    <2>3. TypeOK'
      BY <1>1, <1>2, <2>1, <2>2 DEF TypeOK
    <2>4. Docs'
      BY <1>2, <1>3, <2>1, <2>2 DEF Docs, DocsOf
    <2>5. Memory'
      BY <1>1, <1>2, <2>1, <2>2 DEF Memory, MemoryOf
    <2>6. Lines'
      BY <1>1, <1>2, <2>1, <2>2 DEF Lines, OrderOf, Left
    <2>7. Health' /\ Earned'
      BY <1>1, <1>2, <2>1, <2>2 DEF Health, HealthOf, Earned, EarnedOf
    <2>8. Charges'
      <3>1. \A n, copy : Owes(state', stored', pass'.pc, n, copy) => Owes(state, stored, pass.pc, n, copy)
        BY <2>1 DEF Owes
      <3>2. Charge(posted, FALSE, state', stored', pass'.pc, faults)
        BY <1>1, <3>1, ChargeKept DEF Charges
      <3>3. Charge(copied, TRUE, state', stored', pass'.pc, faults)
        BY <1>1, <3>1, ChargeKept DEF Charges
      <3> QED BY <1>2, <2>1, <3>2, <3>3 DEF Charges
    <2>9. InOrder'
      BY <1>1, <1>2, <2>1, Quiet
    <2> QED BY <2>3, <2>4, <2>5, <2>6, <2>7, <2>8, <2>9 DEF Sound, Kept
  <1>5. CASE NotSaved
    <2>1. EndsEarly /\ FaultHappens /\ stored' \in {stored, state}
      BY <1>3, <1>5 DEF NotSaved
    <2>2. Doc(stored', Range(posted), Range(copied), pass.now) /\ Fits(stored')
      BY <1>1, <1>3, <2>1 DEF Memory, MemoryOf
    <2> QED BY <1>2, <2>1, <2>2, SaveFails
  <1> QED BY <1>4, <1>5 DEF Checkpoint

(* What is offered is the head of a queue that is saved as it stands.      *)
LEMMA AtTheHead ==
  ASSUME Kept, Offers
  PROVE  /\ state = stored /\ Fits(state) /\ 1 \in Slots(state) /\ Distinct(state) /\ IsFiniteSet(state.seen)
         /\ pass.remaining \in 1 .. Len(state.pending) /\ Len(state.pending) \in Nat
         /\ pass.refused = 0 => pass.remaining = Len(state.pending)
         /\ Offered = state.pending[1]
         /\ Offered.key = [notice |-> At(state, 1), copy |-> IsCopy(state, 1)]
         /\ Offered.key.notice = At(state, 1) /\ Offered.key.copy = IsCopy(state, 1)
         /\ At(state, 1) \in Notices /\ IsCopy(state, 1) \in BOOLEAN
         /\ Waits(state, At(state, 1), IsCopy(state, 1))
PROOF
  <1>1. Memory /\ pass.pc = "offer" /\ pass.remaining > 0
    BY DEF Kept, Offers
  <1>2. state \in State /\ pass \in PassStates /\ Distinct(state) /\ IsFiniteSet(state.seen)
    BY Facts
  <1>3. /\ state.pending \in Seq(Entries) /\ Len(state.pending) \in Nat /\ Slots(state) = 1 .. Len(state.pending)
        /\ Waiting(state) = {state.pending[i].key : i \in Slots(state)}
    BY <1>2, Queue
  <1>4. /\ state = stored /\ Fits(stored) /\ pass.remaining <= Len(state.pending)
        /\ pass.refused = 0 => pass.remaining = Len(state.pending)
    BY <1>1 DEF Memory, MemoryOf
  <1>5. pass.remaining \in 1 .. Len(state.pending) /\ 1 \in Slots(state)
    BY <1>1, <1>2, <1>3, <1>4 DEF PassStates
  <1>6. Offered = state.pending[1]
    BY <1>3, <1>5 DEF Offered
  <1>7. /\ At(state, 1) \in Notices /\ IsCopy(state, 1) \in BOOLEAN
        /\ state.pending[1].key = [notice |-> At(state, 1), copy |-> IsCopy(state, 1)]
    BY <1>2, <1>5, Queue
  <1>8. Waits(state, At(state, 1), IsCopy(state, 1))
    BY <1>3, <1>5, <1>7 DEF Waits
  <1> QED BY <1>2, <1>3, <1>4, <1>5, <1>6, <1>7, <1>8

LEMMA Settling ==
  ASSUME Kept, Offers, NEW sent \in BOOLEAN, Settled(sent)
  PROVE  Settles(state, state', sent, pass.now)
PROOF
  <1>1. state \in State /\ pass.now \in Nat
    BY Facts
  <1>2. 1 \in Slots(state) /\ Distinct(state) /\ IsFiniteSet(state.seen)
    BY AtTheHead
  <1>3. LET st2 == Settle(state, sent, pass.now)
        IN  /\ st2 \in State /\ st2.records = state.records
            /\ \A i \in Slots(st2) : From(state, i) \in Slots(state) /\ st2.pending[i] = state.pending[From(state, i)]
            /\ \/ Popped(state, st2, sent, pass.now)
               \/ Rotated(state, st2, sent, pass.now)
    BY <1>1, <1>2, SettleShape
  <1>4. state' = Settle(state, sent, pass.now)
    BY DEF Settled
  <1> QED BY <1>2, <1>3, <1>4 DEF Settles

LEMMA SettledKept ==
  ASSUME Kept, Lines, Health, Offers, NEW sent \in BOOLEAN, Settled(sent),
         pass' \in PassStates, pass'.pc = "checkpoint", pass'.now = pass.now,
         pass'.remaining = pass.remaining - 1, pass'.refused = 0 => pass.refused = 0 /\ sent,
         posted' \in Seq(Notices), copied' \in Seq(Notices), faults' \in Nat,
         Doc(state, Range(posted'), Range(copied'), pass.now),
         sent \/ IsCopy(state, 1),
         sent => At(state, 1) \in IF IsCopy(state, 1) THEN Range(copied') ELSE Range(posted'),
         cut \/ CopyOrder(state, Range(copied'), pass.remaining)
  PROVE  Kept' /\ Lines' /\ Health' /\ Earned'
PROOF
  <1> DEFINE P == Range(posted')
             C == Range(copied')
             len == Len(state.pending)
  <1>1. Memory /\ TypeOK
    BY DEF Kept
  <1>2. /\ state \in State /\ pass.now \in Nat /\ pass.now <= clock /\ clock \in Nat
    BY Facts
  <1>3. /\ state = stored /\ Fits(state) /\ 1 \in Slots(state) /\ Distinct(state) /\ IsFiniteSet(state.seen)
        /\ pass.remaining \in 1 .. len /\ len \in Nat
        /\ pass.refused = 0 => pass.remaining = len
        /\ state.pending[1].key = [notice |-> At(state, 1), copy |-> IsCopy(state, 1)]
    BY AtTheHead
  <1>4. UNCHANGED <<clock, stored, well, cut>>
    BY DEF Settled
  <1>5. Settles(state, state', sent, pass.now)
    BY Settling
  <1> HIDE DEF P, C, len
  <1>6. Doc(state, P, C, pass.now) /\ (~IsCopy(state, 1) => sent /\ At(state, 1) \in P)
    BY DEF P, C
  <1>7. Doc(state', P, C, pass.now)
    BY <1>2, <1>5, <1>6, DocSettle
  <1>8. state' \in State /\ state'.records = state.records
        /\ (Popped(state, state', sent, pass.now) \/ Rotated(state, state', sent, pass.now))
    BY <1>5 DEF Settles
  <1>9. Fits(state')
    BY <1>2, <1>3, <1>5, SettleSound
  <1>10. /\ Slots(state) = 1 .. Len(state.pending) /\ Len(state'.pending) \in Nat
         /\ Waiting(state') \subseteq Waiting(state)
         /\ Waiting(state) \subseteq Waiting(state') \cup {state.pending[1].key}
         /\ Rotated(state, state', sent, pass.now) => Waiting(state') = Waiting(state)
    <2>1. /\ Slots(state) = 1 .. Len(state.pending) /\ Len(state.pending) \in Nat /\ Len(state.pending) >= 1
          /\ Slots(state') = 1 .. Len(state'.pending) /\ Len(state'.pending) \in Nat
          /\ \A i \in Slots(state') : /\ From(state, i) \in Slots(state)
                                     /\ At(state', i) = At(state, From(state, i))
                                     /\ IsCopy(state', i) = IsCopy(state, From(state, i))
                                     /\ state'.pending[i].key = state.pending[From(state, i)].key
          /\ \A i \in Slots(state) : i # 1 => i - 1 \in Slots(state') /\ From(state, i - 1) = i
          /\ \A i, j \in Slots(state') : From(state, i) = From(state, j) => i = j
          /\ Noted(state') \subseteq Noted(state)
          /\ Waiting(state') \subseteq Waiting(state)
          /\ Waiting(state) \subseteq Waiting(state') \cup {state.pending[1].key}
          /\ Rotated(state, state', sent, pass.now) => Waiting(state') = Waiting(state)
      BY <1>2, <1>5, SettleSlots
    <2> QED BY <2>1
  <1>11. Pending(stored', state', P, C, pass.now)
    <2>1. SUFFICES ASSUME NEW i \in Slots(state), state.pending[i].key \notin Waiting(state')
                   PROVE  Delivered(state.pending[i], P, C, pass.now)
      BY <1>3, <1>4 DEF Pending
    <2>2. state.pending[i].key \in Waiting(state)
      BY <1>10 DEF Waiting, Slots
    <2>3. state.pending[i].key = state.pending[1].key
      BY <1>10, <2>1, <2>2
    <2>4. i = 1
      BY <1>3, <2>3 DEF Distinct, Slots
    <2>5. Popped(state, state', sent, pass.now)
      BY <1>8, <1>10, <2>1, <2>2
    <2>6. CASE sent
      BY <1>3, <2>4, <2>6 DEF Delivered, P, C
    <2>7. CASE ~sent
      <3>1. IsCopy(state, 1) /\ ~(pass.now - state.pending[1].queued < History)
        BY <2>5, <2>7 DEF Popped, KeepsTrying
      <3>2. state.pending[1].queued \in Nat /\ History \in Nat
        BY <1>2, <1>3, Queue, Constants
      <3>3. pass.now - state.pending[1].queued >= History
        BY <1>2, <3>1, <3>2
      <3> QED BY <1>3, <2>4, <3>1, <3>3 DEF Delivered
    <2> QED BY <2>6, <2>7
  <1>12. /\ pass'.remaining <= Len(state'.pending)
         /\ pass'.refused = 0 => pass'.remaining = Len(state'.pending)
    <2>1. CASE Popped(state, state', sent, pass.now)
      BY <1>3, <1>10, <2>1 DEF Popped, len
    <2>2. CASE Rotated(state, state', sent, pass.now)
      BY <1>3, <1>10, <2>2 DEF Rotated, len, KeepsTrying
    <2> QED BY <1>8, <2>1, <2>2
  <1>13. TypeOK'
    BY <1>1, <1>4, <1>8 DEF TypeOK
  <1>14. Docs'
    BY <1>2, <1>3, <1>4, <1>6, <1>7 DEF Docs, DocsOf, P, C
  <1>15. Memory'
    BY <1>3, <1>4, <1>9, <1>10, <1>11, <1>12 DEF Memory, MemoryOf, P, C
  <1>16. Lines'
    <2>1. cut \/ CopyOrder(state, C, pass.remaining)
      BY DEF C
    <2>2. cut \/ CopyOrder(state', C, pass.remaining - 1)
      BY <1>2, <1>3, <1>5, <2>1, SettleOrder DEF len
    <2> QED BY <1>4, <2>2 DEF Lines, OrderOf, Left, C
  <1>17. Health'
    BY <1>4, <1>8 DEF Health, HealthOf, SeenWell
  <1>18. Earned'
    BY DEF Earned, EarnedOf
  <1> QED BY <1>13, <1>14, <1>15, <1>16, <1>17, <1>18 DEF Kept

(* One more notice for the platform, the first of those that wait.         *)
LEMMA PlatformSends ==
  ASSUME NEW st \in State, NEW C, NEW now, Doc(st, Range(posted), C, now), 1 \in Slots(st), ~IsCopy(st, 1),
         posted \in Seq(Notices), At(st, 1) \in Notices,
         posted' = Append(posted, At(st, 1)), PlatformInOrder
  PROVE  PlatformInOrder'
PROOF
  <1> DEFINE h == At(st, 1)
             len == Len(posted)
  <1>1. len \in Nat /\ DOMAIN posted = 1 .. len
    OBVIOUS
  <1>2. /\ DOMAIN posted' = 1 .. len + 1
        /\ \A i \in 1 .. len : posted'[i] = posted[i]
        /\ posted'[len + 1] = h
    BY <1>1
  <1>3. \A i \in Slots(st) : i \in Nat /\ i >= 1
    BY Queue
  <1>4. /\ \A p \in Range(posted) : Same(p, h) => Follows(p, h)
        /\ h.type = "recovery" => \E p \in Range(posted) : Same(p, h)
    <2>1. InLine(st, Range(posted))
      BY DEF Doc
    <2>2. ~\E i \in Slots(st) : i < 1
      BY <1>3
    <2> QED BY <2>1, <2>2 DEF InLine
  <1>5. \A p : p \in Range(posted) <=> \E i \in 1 .. len : p = posted[i]
    BY <1>1 DEF Range
  <1> HIDE DEF h, len
  <1>6. ASSUME NEW j \in 1 .. len
        PROVE  /\ posted'[j].type = "recovery" => \E i \in 1..(j-1) : Earlier(posted', i, j)
               /\ \A i \in 1..(j-1) : Earlier(posted', i, j) /\ posted'[j].type = "incident" =>
                    /\ posted'[i].type = "incident"
                    /\ posted'[i] = posted'[j] \/ posted'[j].at - posted'[i].at >= Reminder
    <2>1. \A i \in 1 .. (j - 1) : i \in 1 .. len /\ posted'[i] = posted[i]
      BY <1>1, <1>2
    <2>2. posted'[j] = posted[j]
      BY <1>2
    <2>3. \A i \in 1 .. (j - 1) : Earlier(posted', i, j) <=> Earlier(posted, i, j)
      BY <2>1, <2>2 DEF Earlier
    <2>4. /\ posted[j].type = "recovery" => \E i \in 1..(j-1) : Earlier(posted, i, j)
          /\ \A i \in 1..(j-1) : Earlier(posted, i, j) /\ posted[j].type = "incident" =>
               /\ posted[i].type = "incident"
               /\ posted[i] = posted[j] \/ posted[j].at - posted[i].at >= Reminder
      BY <1>1 DEF PlatformInOrder, len
    <2> QED BY <2>1, <2>2, <2>3, <2>4
  <1>7. ASSUME NEW i \in 1 .. len
        PROVE  Earlier(posted', i, len + 1) <=> Same(posted[i], h)
    BY <1>2, <1>7 DEF Earlier, Same
  <1>8. h.type = "recovery" => \E i \in 1 .. len : Earlier(posted', i, len + 1)
    BY <1>4, <1>5, <1>7
  <1>9. ASSUME NEW i \in 1 .. len, Earlier(posted', i, len + 1), h.type = "incident"
        PROVE  /\ posted'[i].type = "incident"
               /\ posted'[i] = h \/ h.at - posted'[i].at >= Reminder
    <2>1. posted[i] \in Range(posted) /\ Same(posted[i], h) /\ posted'[i] = posted[i]
      BY <1>2, <1>5, <1>7, <1>9
    <2> QED BY <1>4, <1>9, <2>1 DEF Follows
  <1>10. \A j \in 1 .. len + 1 : j \in 1 .. len \/ j = len + 1
    BY <1>1
  <1>11. 1 .. ((len + 1) - 1) = 1 .. len
    BY <1>1
  <1>12. /\ posted'[len + 1].type = "recovery" => \E i \in 1..((len + 1)-1) : Earlier(posted', i, len + 1)
         /\ \A i \in 1..((len + 1)-1) : Earlier(posted', i, len + 1) /\ posted'[len + 1].type = "incident" =>
              /\ posted'[i].type = "incident"
              /\ posted'[i] = posted'[len + 1] \/ posted'[len + 1].at - posted'[i].at >= Reminder
    BY <1>2, <1>8, <1>9, <1>11
  <1> QED BY <1>2, <1>6, <1>10, <1>12 DEF PlatformInOrder

(* One more copy for the notify service.                                   *)
LEMMA CopySends ==
  ASSUME NEW st \in State, NEW n, cut \/ CopyOrder(st, Range(copied), n), 1 \in Slots(st), IsCopy(st, 1),
         copied \in Seq(Notices), At(st, 1) \in Notices,
         copied' = Append(copied, At(st, 1)), CopiesInOrder, cut => cut'
  PROVE  CopiesInOrder'
PROOF
  <1> DEFINE h == At(st, 1)
             len == Len(copied)
  <1>1. len \in Nat /\ DOMAIN copied = 1 .. len
    OBVIOUS
  <1>2. /\ DOMAIN copied' = 1 .. len + 1
        /\ \A i \in 1 .. len : copied'[i] = copied[i]
        /\ copied'[len + 1] = h
    BY <1>1
  <1>3. SUFFICES ASSUME ~cut, NEW i \in 1 .. len + 1, NEW j \in 1 .. len + 1, i < j,
                        copied'[i].subject = copied'[j].subject, copied'[i].since = copied'[j].since,
                        copied'[i].type = "recovery"
                 PROVE  copied'[j].type = "recovery"
    BY <1>2 DEF CopiesInOrder, Earlier
  <1>4. i \in 1 .. len /\ copied'[i] = copied[i]
    BY <1>1, <1>2, <1>3
  <1>5. CASE j \in 1 .. len
    BY <1>1, <1>2, <1>3, <1>4, <1>5 DEF CopiesInOrder, Earlier
  <1>6. CASE j \notin 1 .. len
    <2>1. copied'[j] = h
      BY <1>1, <1>2, <1>3, <1>6
    <2>2. copied[i] \in Range(copied)
      BY <1>1, <1>4 DEF Range
    <2>3. Same(copied[i], h)
      BY <1>3, <1>4, <2>1 DEF Same
    <2> QED BY <1>3, <1>4, <2>1, <2>2, <2>3 DEF CopyOrder
  <1> QED BY <1>5, <1>6

LEMMA SoundOfferPlatform == Sound /\ OfferPlatform => Sound'
PROOF
  <1> SUFFICES ASSUME Sound, OfferPlatform PROVE Sound'
    OBVIOUS
  <1> DEFINE P == Range(posted)
             C == Range(copied)
             h == At(state, 1)
  <1>1. Kept /\ Lines /\ Health /\ Earned /\ Charges /\ InOrder /\ TypeOK /\ Memory
    BY DEF Sound, Kept
  <1>2. Offers /\ ~Offered.key.copy /\ copied' = copied /\ pass.pc = "offer"
    BY DEF OfferPlatform, Offers
  <1>3. /\ state = stored /\ Fits(state) /\ 1 \in Slots(state)
        /\ pass.remaining \in 1 .. Len(state.pending) /\ Len(state.pending) \in Nat
        /\ Offered.key.notice = h /\ Offered.key.copy = IsCopy(state, 1) /\ ~IsCopy(state, 1)
        /\ h \in Notices /\ Waits(state, h, FALSE)
    BY <1>1, <1>2, AtTheHead
  <1>4. /\ pass.now \in Nat /\ pass \in PassStates /\ state \in State /\ Doc(state, P, C, pass.now)
        /\ P \in SUBSET Notices /\ C \in SUBSET Notices
    BY <1>1, Facts
  <1>5. /\ posted \in Seq(Notices) /\ copied \in Seq(Notices) /\ faults \in Nat
        /\ Append(posted, h) \in Seq(Notices) /\ Range(Append(posted, h)) = P \cup {h}
    BY <1>1, <1>3, Counted, SMTT(30) DEF TypeOK
  <1>6. Doc(state, P \cup {h}, C, pass.now)
    BY <1>3, <1>4, DocSent
  <1>7. Charge(posted, FALSE, state, stored, pass.pc, faults) /\ Charge(copied, TRUE, state, stored, pass.pc, faults)
    BY <1>1 DEF Charges
  <1>8. posted' = Append(posted, h) => InOrder' \/ (cut /\ ~cut')
    <2>1. SUFFICES ASSUME posted' = Append(posted, h), cut => cut' PROVE InOrder'
      OBVIOUS
    <2>2. PlatformInOrder'
      BY <1>1, <1>3, <1>4, <1>5, <2>1, PlatformSends DEF InOrder
    <2>3. CopiesInOrder'
      BY <1>1, <1>2, <2>1 DEF InOrder, CopiesInOrder, Earlier
    <2> QED BY <2>2, <2>3 DEF InOrder
  <1> HIDE DEF h, P, C
  <1>9. CASE /\ posted' = Append(posted, Offered.key.notice)
             /\ Settled(TRUE)
             /\ pass' = [pass EXCEPT !.pc = "checkpoint", !.remaining = @ - 1]
             /\ UNCHANGED faults
    <2>1. posted' = Append(posted, h) /\ Range(posted') = P \cup {h} /\ h \in Range(posted')
      BY <1>3, <1>5, <1>9
    <2>2. /\ pass' \in PassStates /\ pass'.pc = "checkpoint" /\ pass'.now = pass.now
          /\ pass'.remaining = pass.remaining - 1 /\ pass'.refused = pass.refused
      <3>1. pass.remaining - 1 \in Nat
        BY <1>3
      <3> QED BY <1>4, <1>9, <3>1 DEF PassStates
    <2>3. Doc(state, Range(posted'), Range(copied'), pass.now)
      BY <1>2, <1>6, <2>1 DEF C
    <2>4. cut \/ CopyOrder(state, Range(copied'), pass.remaining)
      BY <1>1, <1>2 DEF Lines, OrderOf, Left
    <2>5. Kept' /\ Lines' /\ Health' /\ Earned'
      BY <1>1, <1>2, <1>3, <1>5, <1>9, <2>1, <2>2, <2>3, <2>4, SettledKept DEF h
    <2>6. Settles(state, state', TRUE, pass.now)
      BY <1>1, <1>2, <1>9, Settling
    <2>7. /\ Waiting(state') \subseteq Waiting(state)
          /\ ~Waits(state', h, FALSE)
      <3>1. Popped(state, state', TRUE, pass.now)
        BY <2>6 DEF Settles, Rotated, KeepsTrying
      <3>2. Waiting(state') \subseteq Waiting(state)
        BY <1>4, <2>6, SettleWaits
      <3>3. state.pending[1].key = [notice |-> h, copy |-> FALSE]
        BY <1>1, <1>2, <1>3, AtTheHead DEF h
      <3> QED BY <3>1, <3>2, <3>3 DEF Popped, Waits
    <2>8. \A n, copy : Waits(state', n, copy) => Waits(state, n, copy)
      BY <2>7 DEF Waits
    <2>9. Charge(Append(posted, h), FALSE, state', stored', "checkpoint", faults)
      BY <1>3, <1>5, <1>7, <2>7, <2>8, ChargeSent
    <2>10. Charge(copied, TRUE, state', stored', "checkpoint", faults)
      <3>1. \A n \in Range(copied) : Owes(state', stored', "checkpoint", n, TRUE)
              => Owes(state, stored, pass.pc, n, TRUE)
        BY <2>8 DEF Owes
      <3> QED BY <1>7, <3>1, ChargeKept
    <2>11. Charges'
      BY <1>2, <1>9, <2>1, <2>2, <2>9, <2>10 DEF Charges
    <2>12. InOrder'
      BY <1>8, <1>9, <2>1 DEF Settled
    <2> QED BY <2>5, <2>11, <2>12 DEF Sound
  <1>10. CASE /\ FaultHappens
              /\ posted' \in {posted, Append(posted, Offered.key.notice)}
              /\ EndsEarly
              /\ UNCHANGED <<clock, stored, well>>
    <2>1. posted' = posted \/ posted' = Append(posted, h)
      BY <1>3, <1>10
    <2>2. CASE posted' = posted
      <3>1. Doc(stored', Range(posted), Range(copied), pass.now) /\ Fits(stored')
        BY <1>3, <1>4, <1>10 DEF P, C
      <3> QED BY <1>2, <1>10, <2>2, <3>1, SaveFails
    <2>3. CASE posted' = Append(posted, h)
      <3>1. Doc(stored', Range(posted'), Range(copied'), pass.now) /\ Fits(stored')
        BY <1>2, <1>3, <1>5, <1>6, <1>10, <2>3 DEF C
      <3>2. posted' \in Seq(Notices) /\ copied' \in Seq(Notices) /\ faults' \in Nat /\ faults' = faults + 1
        BY <1>2, <1>5, <1>10, <2>3 DEF FaultHappens
      <3>3. Charge(Append(posted, h), FALSE, state', stored', pass'.pc, faults + 1)
        BY <1>3, <1>5, <1>7, ChargeSentFault
      <3>4. Charge(copied, TRUE, state', stored', pass'.pc, faults + 1)
        BY <1>5, <1>7, ChargeFault
      <3>5. Charges'
        BY <1>2, <2>3, <3>2, <3>3, <3>4 DEF Charges
      <3>6. InOrder'
        BY <1>8, <1>10, <2>3 DEF EndsEarly
      <3> QED BY <1>1, <1>10, <3>1, <3>2, <3>5, <3>6, EarlyEnd
    <2> QED BY <2>1, <2>2, <2>3
  <1> QED BY <1>9, <1>10 DEF OfferPlatform

LEMMA SoundOfferCopy == Sound /\ OfferCopy => Sound'
PROOF
  <1> SUFFICES ASSUME Sound, OfferCopy PROVE Sound'
    OBVIOUS
  <1> DEFINE P == Range(posted)
             C == Range(copied)
             h == At(state, 1)
  <1>1. Kept /\ Lines /\ Health /\ Earned /\ Charges /\ InOrder /\ TypeOK /\ Memory
    BY DEF Sound, Kept
  <1>2. Offers /\ Offered.key.copy /\ posted' = posted /\ pass.pc = "offer"
    BY DEF OfferCopy, Offers
  <1>3. /\ state = stored /\ Fits(state) /\ 1 \in Slots(state)
        /\ pass.remaining \in 1 .. Len(state.pending) /\ Len(state.pending) \in Nat
        /\ pass.refused = 0 => pass.remaining = Len(state.pending)
        /\ Offered.key.notice = h /\ Offered.key.copy = IsCopy(state, 1)
        /\ h \in Notices /\ Waits(state, h, IsCopy(state, 1)) /\ IsCopy(state, 1) \in BOOLEAN
    BY <1>1, <1>2, AtTheHead
  <1>4. IsCopy(state, 1) /\ Waits(state, h, TRUE)
    BY <1>2, <1>3
  <1>5. /\ pass.now \in Nat /\ pass \in PassStates /\ state \in State /\ Doc(state, P, C, pass.now)
        /\ P \in SUBSET Notices /\ C \in SUBSET Notices
    BY <1>1, Facts
  <1>6. /\ posted \in Seq(Notices) /\ copied \in Seq(Notices) /\ faults \in Nat
        /\ Append(copied, h) \in Seq(Notices) /\ Range(Append(copied, h)) = C \cup {h}
    BY <1>1, <1>3, Counted, SMTT(30) DEF TypeOK
  <1>7. Doc(state, P, C \cup {h}, pass.now)
    BY <1>3, <1>5, DocSent
  <1>8. Charge(posted, FALSE, state, stored, pass.pc, faults) /\ Charge(copied, TRUE, state, stored, pass.pc, faults)
    BY <1>1 DEF Charges
  <1>9. cut \/ CopyOrder(state, C, pass.remaining)
    BY <1>1, <1>2 DEF Lines, OrderOf, Left
  <1>10. pass.refused = 0 => cut \/ CopyOrder(state, C \cup {h}, pass.remaining)
    <2>1. SUFFICES ASSUME pass.refused = 0, ~cut PROVE CopyOrder(state, C \cup {h}, pass.remaining)
      OBVIOUS
    <2>2. Straight(state, C)
      BY <1>3, <1>9, <2>1 DEF Straight
    <2>3. Straight(state, C \cup {h})
      BY <1>3, <1>4, <1>5, <2>2, CopySent
    <2> QED BY <1>3, <2>1, <2>3 DEF Straight
  <1>11. ASSUME copied' = Append(copied, h), cut' = cut PROVE InOrder'
    <2>1. cut \/ CopyOrder(state, Range(copied), pass.remaining)
      BY <1>9
    <2>2. CopiesInOrder'
      BY <1>1, <1>3, <1>4, <1>5, <1>6, <1>11, <2>1, CopySends DEF InOrder
    <2>3. PlatformInOrder'
      BY <1>1, <1>2 DEF InOrder, PlatformInOrder, Earlier
    <2> QED BY <2>2, <2>3 DEF InOrder
  <1>12. ASSUME NEW sent \in BOOLEAN, Settled(sent)
         PROVE  /\ \A n, copy : Waits(state', n, copy) => Waits(state, n, copy)
                /\ Charge(posted, FALSE, state', stored', "checkpoint", faults)
                /\ Charge(copied, TRUE, state', stored', "checkpoint", faults)
    <2>1. Settles(state, state', sent, pass.now)
      BY <1>1, <1>2, <1>12, Settling
    <2>2. Waiting(state') \subseteq Waiting(state)
      BY <1>5, <2>1, SettleWaits
    <2>3. \A n, copy : Waits(state', n, copy) => Waits(state, n, copy)
      BY <2>2 DEF Waits
    <2>4. \A n, copy : Owes(state', stored', "checkpoint", n, copy) => Owes(state, stored, pass.pc, n, copy)
      BY <2>3 DEF Owes
    <2>5. Charge(posted, FALSE, state', stored', "checkpoint", faults)
      BY <1>8, <2>4, ChargeKept
    <2>6. Charge(copied, TRUE, state', stored', "checkpoint", faults)
      BY <1>8, <2>4, ChargeKept
    <2> QED BY <2>3, <2>5, <2>6
  <1> HIDE DEF h, P, C
  <1>13. CASE /\ ~Refuses
              /\ copied' = Append(copied, Offered.key.notice)
              /\ Settled(TRUE)
              /\ pass' = [pass EXCEPT !.pc = "checkpoint", !.remaining = @ - 1, !.accepted = @ + 1]
              /\ UNCHANGED faults
    <2>1. copied' = Append(copied, h) /\ Range(copied') = C \cup {h} /\ h \in Range(copied')
      BY <1>3, <1>6, <1>13
    <2>2. /\ pass' \in PassStates /\ pass'.pc = "checkpoint" /\ pass'.now = pass.now
          /\ pass'.remaining = pass.remaining - 1 /\ pass'.refused = pass.refused
      <3>1. pass.remaining - 1 \in Nat /\ pass.accepted + 1 \in Nat
        BY <1>3, <1>5 DEF PassStates
      <3> QED BY <1>5, <1>13, <3>1 DEF PassStates
    <2>3. Doc(state, Range(posted'), Range(copied'), pass.now)
      BY <1>2, <1>7, <2>1 DEF P
    <2>4. pass.refused = 0
      BY <1>5, <1>13 DEF Refuses, PassStates
    <2>5. cut \/ CopyOrder(state, Range(copied'), pass.remaining)
      BY <1>10, <2>1, <2>4
    <2>6. Kept' /\ Lines' /\ Health' /\ Earned'
      BY <1>1, <1>2, <1>4, <1>6, <1>13, <2>1, <2>2, <2>3, <2>4, <2>5, SettledKept DEF h
    <2>7. ~Waits(state', h, TRUE)
      <3>1. Popped(state, state', TRUE, pass.now)
        <4>1. Settles(state, state', TRUE, pass.now)
          BY <1>1, <1>2, <1>13, Settling
        <4> QED BY <4>1 DEF Settles, Rotated, KeepsTrying
      <3>2. state.pending[1].key = [notice |-> h, copy |-> TRUE]
        <4>1. Offered = state.pending[1] /\ Offered.key = [notice |-> At(state, 1), copy |-> IsCopy(state, 1)]
          BY <1>1, <1>2, AtTheHead
        <4>2. IsCopy(state, 1) = TRUE
          BY <1>3, <1>4
        <4> QED BY <4>1, <4>2 DEF h
      <3> QED BY <3>1, <3>2 DEF Popped, Waits
    <2>8. Charge(Append(copied, h), TRUE, state', stored', "checkpoint", faults)
      BY <1>3, <1>4, <1>6, <1>8, <1>12, <1>13, <2>7, ChargeSent
    <2>9. Charges'
      BY <1>2, <1>12, <1>13, <2>1, <2>2, <2>8 DEF Charges
    <2>10. InOrder'
      BY <1>11, <1>13, <2>1 DEF Settled
    <2> QED BY <2>6, <2>9, <2>10 DEF Sound
  <1>14. CASE /\ \/ Refuses /\ UNCHANGED <<copied, faults>>
                 \/ ~Refuses /\ UNCHANGED <<copied, faults>>
                 \/ ~Refuses /\ FaultHappens /\ copied' = Append(copied, Offered.key.notice)
              /\ Settled(FALSE)
              /\ pass' = [pass EXCEPT !.pc = "checkpoint", !.remaining = @ - 1, !.refused = @ + 1]
    <2>1. /\ pass' \in PassStates /\ pass'.pc = "checkpoint" /\ pass'.now = pass.now
          /\ pass'.remaining = pass.remaining - 1 /\ pass'.refused # 0
      <3>1. pass.remaining - 1 \in Nat /\ pass.refused + 1 \in Nat /\ pass.refused + 1 # 0
        BY <1>3, <1>5 DEF PassStates
      <3> QED BY <1>5, <1>14, <3>1 DEF PassStates
    <2>2. CASE UNCHANGED <<copied, faults>>
      <3>1. Doc(state, Range(posted'), Range(copied'), pass.now)
            /\ (cut \/ CopyOrder(state, Range(copied'), pass.remaining))
        BY <1>2, <1>5, <1>9, <2>2 DEF P, C
      <3>2. Kept' /\ Lines' /\ Health' /\ Earned'
        BY <1>1, <1>2, <1>4, <1>6, <1>14, <2>1, <2>2, <3>1, SettledKept
      <3>3. Charges'
        BY <1>2, <1>12, <1>14, <2>1, <2>2 DEF Charges
      <3>4. InOrder'
        BY <1>1, <1>2, <1>14, <2>2, Quiet DEF Settled
      <3> QED BY <3>2, <3>3, <3>4 DEF Sound
    <2>3. CASE ~Refuses /\ FaultHappens /\ copied' = Append(copied, Offered.key.notice)
      <3>1. copied' = Append(copied, h) /\ Range(copied') = C \cup {h} /\ faults' = faults + 1
        BY <1>3, <1>6, <2>3 DEF FaultHappens
      <3>2. pass.refused = 0
        BY <1>5, <2>3 DEF Refuses, PassStates
      <3>3. Doc(state, Range(posted'), Range(copied'), pass.now)
            /\ (cut \/ CopyOrder(state, Range(copied'), pass.remaining))
        BY <1>2, <1>7, <1>10, <3>1, <3>2 DEF P
      <3>4. faults' \in Nat /\ copied' \in Seq(Notices) /\ posted' \in Seq(Notices)
        BY <1>2, <1>6, <3>1
      <3>5. Kept' /\ Lines' /\ Health' /\ Earned'
        BY <1>1, <1>2, <1>4, <1>14, <2>1, <3>3, <3>4, SettledKept
      <3>6. Charge(Append(copied, h), TRUE, state', stored', pass'.pc, faults + 1)
        BY <1>3, <1>4, <1>6, <1>8, ChargeSentFault
      <3>7. Charge(posted, FALSE, state', stored', pass'.pc, faults + 1)
        BY <1>6, <1>8, ChargeFault
      <3>8. Charges'
        BY <1>2, <3>1, <3>6, <3>7 DEF Charges
      <3>9. InOrder'
        BY <1>11, <1>14, <3>1 DEF Settled
      <3> QED BY <3>5, <3>8, <3>9 DEF Sound
    <2> QED BY <1>14, <2>2, <2>3
  <1> QED BY <1>13, <1>14 DEF OfferCopy

(* A pass that ran to its end, and saved what it learnt on the way.        *)
LEMMA QuietEnd ==
  ASSUME Sound, pass.pc = "offer", pass.remaining = 0, Ends,
         UNCHANGED <<clock, posted, copied, well, cut, faults>>,
         Builds(state, stored', Range(posted), Range(copied), pass.now, Service),
         Others(state, stored', Service), Fits(stored')
  PROVE  Sound'
PROOF
  <1> DEFINE P == Range(posted)
             C == Range(copied)
  <1>1. Kept /\ Lines /\ Health /\ Earned /\ Charges /\ InOrder /\ TypeOK /\ Memory
    BY DEF Sound, Kept
  <1>2. /\ pass.now \in Nat /\ pass.now <= clock /\ state \in State
        /\ P \in SUBSET Notices /\ C \in SUBSET Notices /\ \A n \in P \cup C : n.since < pass.now
    BY <1>1, Facts
  <1>3. pass' = Resting(pass.now) /\ state' = Fresh
    BY DEF Ends
  <1>4. pass' \in PassStates /\ pass'.pc = "idle" /\ pass'.now = pass.now
    BY <1>2, <1>3, RestingFields
  <1>5. Range(posted') = P /\ Range(copied') = C
    OBVIOUS
  <1>6. Builds(state, stored', P, C, pass.now, Service)
    OBVIOUS
  <1> HIDE DEF P, C
  <1>7. Doc(Fresh, P, C, pass.now) /\ Straight(Fresh, C)
    BY <1>2, DocFresh
  <1>8. Doc(stored', P, C, pass.now) /\ stored' \in State /\ Fresh \in State
    BY <1>6, FreshState DEF Builds, Doc, Typed
  <1>9. TypeOK'
    BY <1>1, <1>3, <1>4, <1>8 DEF TypeOK
  <1>10. Docs'
    BY <1>2, <1>3, <1>4, <1>5, <1>7, <1>8 DEF Docs, DocsOf
  <1>11. Memory'
    BY <1>3, <1>4 DEF Memory, MemoryOf
  <1>12. Lines'
    <2>1. ASSUME ~cut PROVE Straight(stored', C)
      <3>1. CopyOrder(state, C, 0)
        BY <1>1, <2>1 DEF Lines, OrderOf, Left, C
      <3>2. Slots(state) = 1 .. Len(state.pending) /\ Len(state.pending) \in Nat
        BY <1>2, Queue
      <3>3. \A i, j \in Slots(state) : Ahead(i, j, 0) <=> i < j
        BY <3>2 DEF Ahead
      <3>4. \A i, j \in Slots(state) : Ahead(i, j, Len(state.pending)) <=> i < j
        BY <3>2, AheadStraight
      <3>5. Straight(state, C)
        BY <3>1, <3>3, <3>4 DEF CopyOrder, Straight
      <3> QED BY <1>6, <3>5 DEF Builds
    <2>2. CopyOrder(Fresh, C, Len(Fresh.pending))
      BY <1>7 DEF Straight
    <2> QED BY <1>3, <1>4, <1>5, <2>1, <2>2 DEF Lines, OrderOf, Left
  <1>13. Health'
    <2>1. \A a \in Apps : stored'.records[a] = state.records[a]
      BY Constants DEF Others
    <2>2. \A a \in Apps : Fresh.records[a].healthy = NoTime
      BY FreshState, Constants DEF Closed
    <2> QED BY <1>1, <1>3, <1>4, <2>1, <2>2 DEF Health, HealthOf, SeenWell
  <1>14. Earned'
    BY <1>4 DEF Earned, EarnedOf
  <1>15. Charges'
    <2>1. \A n, copy : n \in P \cup C /\ Owes(state', stored', pass'.pc, n, copy)
            => Owes(state, stored, pass.pc, n, copy)
      BY <1>3, <1>6, FreshState DEF Owes, Waits, Builds, NewKeys
    <2>2. Charge(posted, FALSE, state', stored', pass'.pc, faults)
      BY <1>1, <2>1, ChargeKept DEF Charges, P
    <2>3. Charge(copied, TRUE, state', stored', pass'.pc, faults)
      BY <1>1, <2>1, ChargeKept DEF Charges, C
    <2> QED BY <2>2, <2>3 DEF Charges
  <1>16. InOrder'
    BY <1>1, Quiet
  <1> QED BY <1>9, <1>10, <1>11, <1>12, <1>13, <1>14, <1>15, <1>16 DEF Sound, Kept

(* What the pass makes of the notify service is told like all the rest.    *)
LEMMA Judged ==
  ASSUME Sound, pass.pc = "offer"
  PROVE  /\ Builds(state, CopyHealth(state, pass.refused, pass.now), Range(posted), Range(copied), pass.now, Service)
         /\ Others(state, CopyHealth(state, pass.refused, pass.now), Service)
PROOF
  <1>1. Kept
    BY DEF Sound
  <1>2. /\ pass.now \in Nat /\ pass \in PassStates
        /\ Range(posted) \in SUBSET Notices /\ Range(copied) \in SUBSET Notices
        /\ Doc(state, Range(posted), Range(copied), pass.now)
    BY <1>1, Facts
  <1>3. pass.refused \in Nat
    BY <1>2 DEF PassStates
  <1>4. LET st2 == CopyHealth(state, pass.refused, pass.now)
        IN  Builds(state, st2, Range(posted), Range(copied), pass.now, Service) /\ Others(state, st2, Service)
    BY <1>2, <1>3, CopyHealthBuilds
  <1> QED BY <1>4

LEMMA SoundFinish == Sound /\ Finish => Sound'
PROOF
  <1> SUFFICES ASSUME Sound, Finish PROVE Sound'
    OBVIOUS
  <1> DEFINE judged == CopyHealth(state, pass.refused, pass.now)
  <1>1. Kept /\ Memory
    BY DEF Sound, Kept
  <1>2. pass.pc = "offer" /\ pass.remaining = 0 /\ UNCHANGED <<clock, posted, copied, well>>
    BY DEF Finish
  <1>3. state = stored /\ Fits(state) /\ state \in State /\ Doc(state, Range(posted), Range(copied), pass.now)
    BY <1>1, <1>2, Facts DEF Memory, MemoryOf
  <1>4. /\ Builds(state, judged, Range(posted), Range(copied), pass.now, Service)
        /\ Others(state, judged, Service)
    BY <1>2, Judged
  <1>5. \/ Fits(judged) /\ stored' = judged /\ Ends /\ UNCHANGED <<cut, faults>>
        \/ EndsEarly /\ ~Fits(judged) /\ UNCHANGED <<stored, faults>>
        \/ EndsEarly /\ Fits(judged) /\ FaultHappens /\ stored' \in {stored, judged}
        \/ Ends /\ UNCHANGED <<stored, cut, faults>>
    BY DEF Finish
  <1> HIDE DEF judged
  <1>6. CASE Fits(judged) /\ stored' = judged /\ Ends /\ UNCHANGED <<cut, faults>>
    BY <1>2, <1>4, <1>6, QuietEnd
  <1>7. CASE EndsEarly /\ ~Fits(judged) /\ UNCHANGED <<stored, faults>>
    BY <1>2, <1>7, NoRoom
  <1>8. CASE EndsEarly /\ Fits(judged) /\ FaultHappens /\ stored' \in {stored, judged}
    <2>1. Doc(stored', Range(posted), Range(copied), pass.now) /\ Fits(stored')
      BY <1>3, <1>4, <1>8 DEF Builds
    <2> QED BY <1>2, <1>8, <2>1, SaveFails
  <1>9. CASE Ends /\ UNCHANGED <<stored, cut, faults>>
    <2>1. Builds(state, state, Range(posted), Range(copied), pass.now, Service)
      BY <1>3, SameBuilds
    <2>2. stored' = state /\ Others(state, state, Service)
      BY <1>3, <1>9 DEF Others
    <2> QED BY <1>2, <1>3, <1>9, <2>1, <2>2, QuietEnd
  <1> QED BY <1>5, <1>6, <1>7, <1>8, <1>9

LEMMA SoundNext == Sound /\ [Next]_vars => Sound'
PROOF
  <1> SUFFICES ASSUME Sound, [Next]_vars PROVE Sound'
    OBVIOUS
  <1>1. CASE Begin
    BY <1>1, SoundBegin
  <1>2. CASE Unread
    BY <1>2, SoundUnread
  <1>3. CASE Conclude
    BY <1>3, SoundConclude
  <1>4. CASE Deliver
    BY <1>4, SoundSave, SoundOfferPlatform, SoundOfferCopy, SoundCheckpoint, SoundFinish DEF Deliver
  <1>5. CASE Stop
    BY <1>5, SoundStop
  <1>6. CASE Tick
    BY <1>6, SoundTick
  <1>7. ASSUME NEW app \in Apps, NEW replaced \in BOOLEAN, NEW view \in Views, ObserveApp(app, replaced, view)
        PROVE  Sound'
    BY <1>7, SoundObserve
  <1>8. CASE UNCHANGED vars
    <2>1. TypeOK' /\ Docs' /\ Memory'
      BY <1>8 DEF Sound, Kept, vars, TypeOK, Docs, Memory
    <2>2. Lines' /\ Health' /\ Earned' /\ Charges'
      BY <1>8 DEF Sound, vars, Lines, Health, Earned, Charges
    <2>3. InOrder'
      BY <1>8, Quiet DEF Sound, Kept, vars
    <2> QED BY <2>1, <2>2, <2>3 DEF Sound, Kept
  <1> QED BY <1>1, <1>2, <1>3, <1>4, <1>5, <1>6, <1>7, <1>8 DEF Next

LEMMA SoundAlways == Spec => []Sound
PROOF
  <1>1. Init => Sound
    BY SoundInit
  <1>2. Sound /\ [Next]_vars => Sound'
    BY SoundNext
  <1> QED BY <1>1, <1>2, PTL DEF Spec

-----------------------------------------------------------------------------
(* The theorems.                                                           *)

(* The document, saved or in a pass's memory, and everything about it stay *)
(* what they are declared to be, whatever fails.                           *)
THEOREM TypeKept == Spec => []TypeOK
PROOF
  <1>1. Sound => TypeOK
    BY DEF Sound, Kept
  <1> QED BY <1>1, SoundAlways, PTL

(* Nobody is told of a recovery before its incident or of an incident      *)
(* after its recovery, no incident is told of again within Reminder, and   *)
(* the notify service gets its copies in order while no pass ended early.  *)
THEOREM ToldInOrder == Spec => []InOrder
PROOF
  <1>1. Sound => InOrder
    BY DEF Sound
  <1> QED BY <1>1, SoundAlways, PTL

(* What is sent twice was sent again because of a fault: no notice goes    *)
(* out more often than there were faults, and once.                        *)
THEOREM FewRepeats == Spec => []RepeatsNeedFaults
PROOF
  <1>1. Sound => RepeatsNeedFaults
    BY DEF Sound, Charges, Charge, RepeatsNeedFaults
  <1> QED BY <1>1, SoundAlways, PTL

(* A notice is sent only once it is saved: ConfigMap first, then ntfy.     *)
LEMMA SendsSaved ==
  ASSUME Sound, Next
  PROVE  /\ posted' # posted => \E key \in Waiting(stored) :
              ~key.copy /\ posted' = Append(posted, key.notice)
         /\ copied' # copied => \E key \in Waiting(stored) :
              key.copy /\ copied' = Append(copied, key.notice)
PROOF
  <1>1. Kept
    BY DEF Sound
  <1>2. Offers => Offered.key \in Waiting(stored)
    <2>1. SUFFICES ASSUME Offers PROVE Offered.key \in Waiting(stored)
      OBVIOUS
    <2>2. /\ state = stored /\ 1 \in Slots(state) /\ Offered = state.pending[1]
      BY <1>1, <2>1, AtTheHead
    <2> QED BY <2>2 DEF Waiting, Slots
  <1>3. CASE OfferPlatform
    <2>1. copied' = copied /\ (posted' = posted \/ posted' = Append(posted, Offered.key.notice))
          /\ Offers /\ ~Offered.key.copy
      BY <1>3 DEF OfferPlatform
    <2> QED BY <1>2, <2>1
  <1>4. CASE OfferCopy
    <2>1. posted' = posted /\ (copied' = copied \/ copied' = Append(copied, Offered.key.notice))
          /\ Offers /\ Offered.key.copy
      BY <1>4 DEF OfferCopy
    <2> QED BY <1>2, <2>1
  <1>5. CASE ~OfferPlatform /\ ~OfferCopy
    BY <1>5 DEF Next, Deliver, Begin, Unread, Conclude, Save, Checkpoint, Finish, Stop, Tick, ObserveApp
  <1> QED BY <1>3, <1>4, <1>5

(* A saved notice leaves the queue only when its receiver has it, or is    *)
(* given up.                                                               *)
LEMMA LeavesDelivered ==
  ASSUME Sound, Next, NEW i \in DOMAIN stored.pending, stored.pending[i].key \notin Waiting(stored')
  PROVE  IF stored.pending[i].key.copy
         THEN stored.pending[i].key.notice \in Range(copied) \/ pass.now - stored.pending[i].queued >= History
         ELSE stored.pending[i].key.notice \in Range(posted)
PROOF
  <1>1. Kept /\ Memory
    BY DEF Sound, Kept
  <1>2. stored.pending[i].key \in Waiting(stored) /\ i \in Slots(stored)
    BY DEF Waiting, Slots
  <1>3. stored' # stored
    BY <1>2
  <1>4. CASE Save
    <2>1. pass.pc = "save" /\ stored' \in {stored, state}
      BY <1>4 DEF Save, Saved, NotSaved
    <2>2. Waiting(stored) \subseteq Waiting(state)
      BY <1>1, <2>1 DEF Memory, MemoryOf
    <2> QED BY <1>2, <2>1, <2>2
  <1>5. CASE Checkpoint
    <2>1. pass.pc = "checkpoint" /\ stored' \in {stored, state}
      BY <1>5 DEF Checkpoint, Saved, NotSaved
    <2>2. stored' = state
      BY <1>3, <2>1
    <2>3. Delivered(stored.pending[i], Range(posted), Range(copied), pass.now)
      BY <1>1, <1>2, <2>1, <2>2 DEF Memory, MemoryOf, Pending
    <2> QED BY <2>3 DEF Delivered
  <1>6. CASE Finish
    <2> DEFINE judged == CopyHealth(state, pass.refused, pass.now)
    <2>1. pass.pc = "offer" /\ stored' \in {stored, judged}
      BY <1>6 DEF Finish
    <2>2. Waiting(state) \subseteq Waiting(judged) /\ state = stored
      BY <1>1, <2>1, Judged DEF Builds, Memory, MemoryOf
    <2> QED BY <1>2, <2>1, <2>2
  <1>7. CASE ~Save /\ ~Checkpoint /\ ~Finish
    BY <1>3, <1>7
    DEF Next, Deliver, Begin, Unread, Conclude, OfferPlatform, OfferCopy, Settled, Stop, Tick, ObserveApp
  <1> QED BY <1>4, <1>5, <1>6, <1>7

(* A notice is saved before it is sent, and stays saved until it is        *)
(* delivered: a job stopped at any point loses none and makes none up.     *)
THEOREM NothingLost == Spec => SavedUntilDelivered
PROOF
  <1>1. Sound /\ [Next]_vars =>
          [/\ posted' # posted => \E key \in Waiting(stored) :
                ~key.copy /\ posted' = Append(posted, key.notice)
           /\ copied' # copied => \E key \in Waiting(stored) :
                key.copy /\ copied' = Append(copied, key.notice)]_vars
    BY SendsSaved
  <1>2. Sound /\ [Next]_vars =>
          [\A i \in DOMAIN stored.pending :
             LET entry == stored.pending[i]
             IN  entry.key \notin Waiting(stored') =>
                   IF entry.key.copy
                   THEN entry.key.notice \in Range(copied) \/ pass.now - entry.queued >= History
                   ELSE entry.key.notice \in Range(posted)]_vars
    BY LeavesDelivered
  <1>3. Spec => SentOnlySaved
    BY <1>1, SoundAlways, PTL DEF Spec, SentOnlySaved
  <1>4. Spec => LeavesOnlyDelivered
    BY <1>2, SoundAlways, PTL DEF Spec, LeavesOnlyDelivered
  <1> QED BY <1>3, <1>4 DEF SavedUntilDelivered

(* The recoveries a pass saves are of apps that every pass since Recovery  *)
(* ago found well.                                                         *)
LEMMA RecoversEarned ==
  ASSUME Sound, Next
  PROVE  cut' \/ \A notice \in NewRecoveries : Unbroken(notice)
PROOF
  <1>1. Kept /\ Memory /\ Earned
    BY DEF Sound, Kept
  <1>2. SUFFICES ASSUME ~cut', NEW key \in Waiting(stored') \ Waiting(stored),
                        key.notice.type = "recovery", key.notice.subject \in Apps
                 PROVE  Unbroken(key.notice)
    BY DEF NewRecoveries
  <1>3. stored' # stored
    BY <1>2
  <1>4. CASE Save
    <2>1. pass.pc = "save" /\ stored' \in {stored, state} /\ (cut => cut')
      BY <1>4 DEF Save, Saved, NotSaved, EndsEarly
    <2>2. stored' = state /\ ~cut
      BY <1>2, <1>3, <2>1
    <2>3. key \in NewKeys(stored, state)
      BY <1>2, <2>2 DEF NewKeys
    <2> QED BY <1>1, <1>2, <2>1, <2>2, <2>3 DEF Earned, EarnedOf, Unbroken
  <1>5. CASE Checkpoint
    <2>1. pass.pc = "checkpoint" /\ stored' \in {stored, state}
      BY <1>5 DEF Checkpoint, Saved, NotSaved
    <2>2. Waiting(state) \subseteq Waiting(stored)
      BY <1>1, <2>1 DEF Memory, MemoryOf
    <2> QED BY <1>2, <2>1, <2>2
  <1>6. CASE Finish
    <2> DEFINE judged == CopyHealth(state, pass.refused, pass.now)
    <2>1. pass.pc = "offer" /\ stored' \in {stored, judged}
      BY <1>6 DEF Finish
    <2>2. state = stored /\ \A k \in NewKeys(state, judged) : k.notice.subject = Service
      BY <1>1, <2>1, Judged DEF Builds, Memory, MemoryOf
    <2>3. key \in NewKeys(state, judged)
      BY <1>2, <1>3, <2>1, <2>2 DEF NewKeys
    <2> QED BY <1>2, <2>2, <2>3, Constants
  <1>7. CASE ~Save /\ ~Checkpoint /\ ~Finish
    BY <1>3, <1>7
    DEF Next, Deliver, Begin, Unread, Conclude, OfferPlatform, OfferCopy, Settled, Stop, Tick, ObserveApp
  <1> QED BY <1>4, <1>5, <1>6, <1>7

(* No recovery is announced on missing or unreadable evidence: while no    *)
(* pass ended early, every pass since Recovery ago found the app well.     *)
THEOREM NoRecoveryUnearned == Spec => RecoveryEarned
PROOF
  <1>1. Sound /\ [Next]_vars => [cut' \/ \A notice \in NewRecoveries : Unbroken(notice)]_vars
    BY RecoversEarned
  <1> QED BY <1>1, SoundAlways, PTL DEF Spec, RecoveryEarned

=============================================================================
