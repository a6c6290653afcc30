------------------------------ MODULE Incident ------------------------------
(***************************************************************************)
(* The notification checker's document (v2/incident): the incident clocks  *)
(* of everything it watches, the notices waiting to be sent, in order, and *)
(* the keys of those that were.  These are the pure operations on one      *)
(* document; Checker.tla has the passes that call them.                    *)
(*                                                                         *)
(* A notice is named by what its key is made of, so two notices with one   *)
(* name are one notice; its title, message and link are left out.  Notices *)
(* of Flux lifecycle events go through the same queue and are not modelled *)
(* here.                                                                   *)
(***************************************************************************)
EXTENDS Integers, Sequences, FiniteSets

CONSTANTS
  Apps,           \* the managed instances, the console among them
  Copied,         \* those whose notices are copied to the notify service
  Slow,           \* those with the console's longer grace
  Monitor,        \* the checker itself
  Service,        \* the notify service, as the checker finds it
  Grace, ConsoleGrace, Recovery, Reminder, History,
  MaxStateBytes,  \* size of the encoded document, in units of
  EntryBytes,     \*   what one waiting notice takes in it and
  SeenBytes       \*   what one remembered key takes in it

ASSUME IncidentAssumption ==
  /\ Copied \subseteq Apps /\ Slow \subseteq Apps \ Copied
  /\ Monitor \notin Apps /\ Service \notin Apps /\ Monitor # Service
  /\ {Grace, ConsoleGrace, Recovery, Reminder, History} \subseteq Nat \ {0}
  /\ MaxStateBytes \in Nat
  /\ SeenBytes \in Nat /\ EntryBytes \in Nat /\ SeenBytes <= EntryBytes

Subjects == Apps \cup {Monitor, Service}
GraceOf(subject) == IF subject \in Slow THEN ConsoleGrace ELSE Grace

NoTime == -1
Times == Nat \cup {NoTime}

(* What observing an app can find (health): it is well, has one of the     *)
(* faults, its health is unknown, it is suspended though its workload is   *)
(* well, or it is not to be watched: scaled to zero, or gone.              *)
Faults == {"unhealthy", "stalled"}
Views == {"well", "unknown", "suspended", "unwatched"} \cup Faults

Records == [since : Times, last : Times, healthy : Times, notified : BOOLEAN,
            fault : Faults \cup {"none", "unreadable", "unreachable"}]
Closed == [since |-> NoTime, last |-> NoTime, healthy |-> NoTime, notified |-> FALSE,
           fault |-> "none"]

Notices == [type : {"incident", "recovery"}, subject : Subjects, since : Nat, at : Times]
Keys == [notice : Notices, copy : BOOLEAN]
State == [records : [Subjects -> Records],
          seen : SUBSET [key : Keys, until : Nat],
          pending : Seq([key : Keys, queued : Nat])]

Fresh == [records |-> [s \in Subjects |-> Closed], seen |-> {}, pending |-> <<>>]

Waiting(state) == {state.pending[i].key : i \in DOMAIN state.pending}
Remembered(state) == {entry.key : entry \in state.seen}
Distinct(state) ==
  /\ \A i, j \in DOMAIN state.pending : state.pending[i].key = state.pending[j].key => i = j
  /\ Waiting(state) \cap Remembered(state) = {}

(* Encode refuses a document over MaxStateBytes.                           *)
Size(state) == EntryBytes * Len(state.pending) + SeenBytes * Cardinality(state.seen)
Fits(state) == Size(state) <= MaxStateBytes

Expire(state, now) == [state EXCEPT !.seen = {entry \in @ : entry.until > now}]

-----------------------------------------------------------------------------
(* queue and enqueue: the platform's notice, then its copy, each unless it *)
(* waits or is remembered.                                                 *)
QueueEntry(state, key, now) ==
  IF key \in Waiting(state) \cup Remembered(state) THEN state
  ELSE [state EXCEPT !.pending = Append(@, [key |-> key, queued |-> now])]

Enqueue(state, notice, now) ==
  LET platform == QueueEntry(state, [notice |-> notice, copy |-> FALSE], now)
  IN  IF notice.subject \in Copied
      THEN QueueEntry(platform, [notice |-> notice, copy |-> TRUE], now)
      ELSE platform

Set(state, subject, record) == [state EXCEPT !.records[subject] = record]

(* fault: a notice after the grace, and again every Reminder.              *)
Since(record, now) == IF record.since = NoTime THEN now ELSE record.since

Due(record, subject, now) ==
  /\ now - Since(record, now) >= GraceOf(subject)
  /\ record.last = NoTime \/ now - record.last >= Reminder

Fault(state, subject, fault, now) ==
  LET old == state.records[subject]
      record == [old EXCEPT !.healthy = NoTime, !.since = Since(old, now), !.fault = fault]
  IN  IF Due(old, subject, now)
      THEN Enqueue(Set(state, subject, [record EXCEPT !.last = now, !.notified = TRUE]),
                   [type |-> "incident", subject |-> subject, since |-> record.since, at |-> now],
                   now)
      ELSE Set(state, subject, record)

(* A notified incident recovers when it was well for Recovery; one nobody  *)
(* was told of is forgotten.                                               *)
WellSince(state, subject, healthy, now) ==
  LET old == state.records[subject]
  IN  IF ~old.notified THEN Set(state, subject, Closed)
      ELSE IF now - healthy < Recovery THEN Set(state, subject, [old EXCEPT !.healthy = healthy])
      ELSE Enqueue(Set(state, subject, Closed),
                   [type |-> "recovery", subject |-> subject, since |-> old.since, at |-> NoTime],
                   now)

Well(state, subject, now) ==
  LET healthy == state.records[subject].healthy
  IN  WellSince(state, subject, IF healthy = NoTime THEN now ELSE healthy, now)

(* Nothing is known: no recovery may be under way.                         *)
Unsure(state, subject) == [state EXCEPT !.records[subject].healthy = NoTime]

(* observeHealth, with prune for an app that is gone.  A release that was  *)
(* replaced starts with no incident (updateRelease).                       *)
Heals(view, fault) == view = "well" \/ (view = "suspended" /\ fault = "unhealthy")

Observe(state, app, view, now) ==
  LET fault == state.records[app].fault
  IN  IF view \in Faults THEN Fault(state, app, view, now)
      ELSE IF view = "unknown" THEN Unsure(state, app)
      ELSE IF Heals(view, fault) THEN Well(state, app, now)
      ELSE Set(state, app, Closed)

ObserveRelease(state, app, replaced, view, now) ==
  Observe(IF replaced THEN Set(state, app, Closed) ELSE state, app, view, now)

(* Unknown: a pass that could not read the cluster.                        *)
UnknownHopeful(state, now) ==  \* faulty: leaves recoveries under way
  Fault(state, Monitor, "unreadable", now)
Unknown(state, now) ==
  LET told == Fault(state, Monitor, "unreadable", now)
  IN  [told EXCEPT !.records = [s \in Subjects |->
         IF s \in Apps THEN [@[s] EXCEPT !.healthy = NoTime] ELSE @[s]]]

(* CopyHealth: what a pass that offered copies says of the notify service. *)
CopyHealth(state, refused, now) ==
  IF refused = 0 THEN WellSince(state, Service, now - Recovery, now)
  ELSE Fault(state, Service, "unreachable", now)

(* Settle: the head of the queue is done, or a refused copy goes to the    *)
(* tail while it has waited for less than History.                         *)
KeepsTryingSent(entry, sent, now) == now - entry.queued < History  \* faulty: sent or not
KeepsTrying(entry, sent, now) == ~sent /\ now - entry.queued < History

Remember(seen, key, until) == {e \in seen : e.key # key} \cup {[key |-> key, until |-> until]}

SettleInPlace(state, sent, now) ==  \* faulty: a refused copy stays first
  LET entry == Head(state.pending)
  IN  IF KeepsTrying(entry, sent, now)
      THEN state
      ELSE [state EXCEPT !.pending = Tail(@), !.seen = Remember(@, entry.key, now + History)]

Settle(state, sent, now) ==
  LET entry == Head(state.pending)
  IN  IF KeepsTrying(entry, sent, now)
      THEN [state EXCEPT !.pending = Append(Tail(@), entry)]
      ELSE [state EXCEPT !.pending = Tail(@), !.seen = Remember(@, entry.key, now + History)]
=============================================================================
