------------------------------ MODULE Checker ------------------------------
(***************************************************************************)
(* The notification checker (v2/orchestration/notifications_check.go): a   *)
(* job every minute that reads its document, observes the cluster, saves   *)
(* what it decided and then offers every waiting notice, saving after each *)
(* one: to the platform's ntfy topic, or as a copy to the notify service.  *)
(*                                                                         *)
(* Time is counted in passes.  A job is stopped before the next is due     *)
(* (`timeout 50`, concurrencyPolicy Forbid), so the clock stands still     *)
(* during a pass, but any number of passes may be missed.  Observations    *)
(* are arbitrary.  What fails is a fault, and there are at most MaxFaults: *)
(* a read or write of the document, a write that is applied though it      *)
(* seems to have failed, a post that fails or whose answer is lost, and a  *)
(* job stopped at any point.  The notify service may refuse any copy.      *)
(***************************************************************************)
EXTENDS Incident, Functions

CONSTANTS
  MaxFaults,  \* bound on faults
  MaxTime     \* bound on the clock

ASSUME CheckerAssumption == MaxFaults \in Nat /\ MaxTime \in Nat \ {0}

VARIABLES
  clock,    \* minutes
  stored,   \* the document as the ConfigMap holds it
  state,    \* the document in the memory of the running pass
  pass,     \* what the pass is doing; once idle, when the last one was
  posted,   \* history: the notices ntfy got, in order
  copied,   \* history: the copies the notify service got, in order
  well,     \* history: since when passes have found each app well, or NoTime
  cut,      \* history: whether a pass ended early
  faults    \* history: how many faults there have been

vars == <<clock, stored, state, pass, posted, copied, well, cut, faults>>

PassStates ==
  [pc : {"idle", "observe", "save", "offer", "checkpoint"}, now : Nat,
   known : BOOLEAN,                   \* whether the snapshot could be read
   left : SUBSET Apps,                \* apps still to observe
   remaining : Nat,                   \* notices still to offer
   accepted : Nat, refused : Nat]     \* copies offered

Resting(now) ==
  [pc |-> "idle", now |-> now, known |-> TRUE, left |-> {}, remaining |-> 0,
   accepted |-> 0, refused |-> 0]

Init ==
  /\ clock = 1
  /\ stored = Fresh /\ state = Fresh
  /\ pass = Resting(0)
  /\ posted = <<>> /\ copied = <<>>
  /\ well = [a \in Apps |-> NoTime]
  /\ cut = FALSE /\ faults = 0

FaultHappens == faults < MaxFaults /\ faults' = faults + 1

(* The pass ends here, and what it had in memory is gone.                  *)
Ends == pass' = Resting(pass.now) /\ state' = Fresh
EndsEarly == Ends /\ cut' = TRUE

(* saveChecker: done, or an error after which the pass ends.               *)
Saved == Fits(state) /\ stored' = state /\ UNCHANGED <<faults, cut>>
NotSaved ==
  /\ EndsEarly
  /\ \/ ~Fits(state) /\ UNCHANGED <<stored, faults>>
     \/ Fits(state) /\ FaultHappens /\ stored' \in {stored, state}

-----------------------------------------------------------------------------
(* The scheduler starts a pass: it reads the document and the cluster.     *)
PassDue == pass.pc = "idle" /\ (pass.now < clock \/ clock = MaxTime)

Begin ==
  /\ PassDue
  /\ \/ /\ pass' = [Resting(clock) EXCEPT !.pc = "observe", !.left = Apps]
        /\ state' = Expire(stored, clock)
        /\ UNCHANGED well
     \/ /\ pass' = [Resting(clock) EXCEPT !.pc = "save", !.known = FALSE]
        /\ state' = Unknown(stored, clock)
        /\ well' = [a \in Apps |-> NoTime]
  /\ UNCHANGED <<clock, stored, posted, copied, cut, faults>>

Unread ==
  /\ PassDue
  /\ FaultHappens
  /\ pass' = Resting(clock)
  /\ cut' = TRUE
  /\ UNCHANGED <<clock, stored, state, posted, copied, well>>

ObserveApp(app, replaced, view) ==
  /\ pass.pc = "observe" /\ app \in pass.left
  /\ state' = ObserveRelease(state, app, replaced, view, pass.now)
  /\ pass' = [pass EXCEPT !.left = @ \ {app}]
  /\ well' = [well EXCEPT ![app] =
       IF view \notin {"well", "suspended"} THEN NoTime
       ELSE IF @ = NoTime THEN pass.now ELSE @]
  /\ UNCHANGED <<clock, stored, posted, copied, cut, faults>>

(* Every app is observed: the checker itself is well.                      *)
Conclude ==
  /\ pass.pc = "observe" /\ pass.left = {}
  /\ state' = Well(state, Monitor, pass.now)
  /\ pass' = [pass EXCEPT !.pc = "save"]
  /\ UNCHANGED <<clock, stored, posted, copied, well, cut, faults>>

-----------------------------------------------------------------------------
(* checkerDeliver                                                          *)

Offering == [pass EXCEPT !.pc = "offer", !.remaining = Len(state.pending)]

SaveLate ==  \* faulty: saves first only when there is nothing to send
  /\ pass.pc = "save"
  /\ IF state.pending = <<>> THEN Saved ELSE UNCHANGED <<stored, cut, faults>>
  /\ pass' = Offering
  /\ UNCHANGED <<clock, state, posted, copied, well>>

Save ==
  /\ pass.pc = "save"
  /\ \/ Saved /\ pass' = Offering /\ UNCHANGED state
     \/ NotSaved
  /\ UNCHANGED <<clock, posted, copied, well>>

(* The next notice to offer.                                               *)
Offered == Head(state.pending)
Offers == pass.pc = "offer" /\ pass.remaining > 0

Settled(sent) ==
  /\ state' = Settle(state, sent, pass.now)
  /\ UNCHANGED <<clock, stored, well, cut>>

(* To the platform: a failure ends the pass, with the notice still first.  *)
OfferPlatformSkips ==  \* faulty: settles a notice that could not be posted
  /\ Offers /\ ~Offered.key.copy
  /\ \/ posted' = Append(posted, Offered.key.notice) /\ UNCHANGED faults
     \/ FaultHappens /\ posted' \in {posted, Append(posted, Offered.key.notice)}
  /\ Settled(TRUE)
  /\ pass' = [pass EXCEPT !.pc = "checkpoint", !.remaining = @ - 1]
  /\ UNCHANGED <<copied>>

OfferPlatform ==
  /\ Offers /\ ~Offered.key.copy
  /\ \/ /\ posted' = Append(posted, Offered.key.notice)
        /\ Settled(TRUE)
        /\ pass' = [pass EXCEPT !.pc = "checkpoint", !.remaining = @ - 1]
        /\ UNCHANGED faults
     \/ /\ FaultHappens
        /\ posted' \in {posted, Append(posted, Offered.key.notice)}
        /\ EndsEarly
        /\ UNCHANGED <<clock, stored, well>>
  /\ UNCHANGED <<copied>>

(* To the notify service: once one copy was refused, the rest of the pass  *)
(* offers none.                                                            *)
RefusesNone == FALSE  \* faulty: offers each copy, whatever became of the one before
Refuses == pass.refused > 0

OfferCopy ==
  /\ Offers /\ Offered.key.copy
  /\ \/ /\ ~Refuses
        /\ copied' = Append(copied, Offered.key.notice)
        /\ Settled(TRUE)
        /\ pass' = [pass EXCEPT !.pc = "checkpoint", !.remaining = @ - 1, !.accepted = @ + 1]
        /\ UNCHANGED faults
     \/ /\ \/ Refuses /\ UNCHANGED <<copied, faults>>
           \/ ~Refuses /\ UNCHANGED <<copied, faults>>
           \/ ~Refuses /\ FaultHappens /\ copied' = Append(copied, Offered.key.notice)
        /\ Settled(FALSE)
        /\ pass' = [pass EXCEPT !.pc = "checkpoint", !.remaining = @ - 1, !.refused = @ + 1]
  /\ UNCHANGED <<posted>>

Checkpoint ==
  /\ pass.pc = "checkpoint"
  /\ \/ Saved /\ pass' = [pass EXCEPT !.pc = "offer"] /\ UNCHANGED state
     \/ NotSaved
  /\ UNCHANGED <<clock, posted, copied, well>>

(* The pass is over: what it learnt of the notify service is saved, unless *)
(* it offered no copy or could not read the cluster.                       *)
Finish ==
  /\ pass.pc = "offer" /\ pass.remaining = 0
  /\ LET judged == CopyHealth(state, pass.refused, pass.now)
     IN  IF pass.known /\ pass.accepted + pass.refused > 0
         THEN \/ Fits(judged) /\ stored' = judged /\ Ends /\ UNCHANGED <<cut, faults>>
              \/ /\ EndsEarly
                 /\ \/ ~Fits(judged) /\ UNCHANGED <<stored, faults>>
                    \/ Fits(judged) /\ FaultHappens /\ stored' \in {stored, judged}
         ELSE Ends /\ UNCHANGED <<stored, cut, faults>>
  /\ UNCHANGED <<clock, posted, copied, well>>

(* The job is stopped at any point.                                        *)
Stop ==
  /\ pass.pc # "idle"
  /\ FaultHappens
  /\ EndsEarly
  /\ UNCHANGED <<clock, stored, posted, copied, well>>

Tick ==
  /\ pass.pc = "idle" /\ clock < MaxTime
  /\ clock' = clock + 1
  /\ UNCHANGED <<stored, state, pass, posted, copied, well, cut, faults>>

Deliver == Save \/ OfferPlatform \/ OfferCopy \/ Checkpoint \/ Finish

Next ==
  \/ Begin \/ Unread \/ Conclude \/ Deliver \/ Stop \/ Tick
  \/ \E app \in Apps, replaced \in BOOLEAN, view \in Views : ObserveApp(app, replaced, view)

Spec == Init /\ [][Next]_vars

(* The scheduler keeps starting passes, and a pass that is not stopped     *)
(* runs to its end.                                                        *)
Run ==
  \/ Begin \/ Conclude \/ Deliver
  \/ \E app \in Apps, replaced \in BOOLEAN, view \in Views : ObserveApp(app, replaced, view)
FairSpec == Spec /\ WF_vars(Run) /\ WF_vars(Tick)

-----------------------------------------------------------------------------
(* What the checker promises.                                              *)

TypeOK ==
  /\ clock \in Nat /\ faults \in Nat /\ cut \in BOOLEAN
  /\ stored \in State /\ state \in State /\ pass \in PassStates
  /\ posted \in Seq(Notices) /\ copied \in Seq(Notices)
  /\ well \in [Apps -> Times]

(* Only a saved notice is sent, so a crash can repeat one and never make   *)
(* up another: one with a different start or time.                         *)
SentOnlySaved ==
  [][/\ posted' # posted => \E key \in Waiting(stored) :
          ~key.copy /\ posted' = Append(posted, key.notice)
     /\ copied' # copied => \E key \in Waiting(stored) :
          key.copy /\ copied' = Append(copied, key.notice)]_vars

(* A saved notice leaves the queue only when ntfy has it, and a copy when  *)
(* the notify service has it or refused it for History.                    *)
LeavesOnlyDelivered ==
  [][\A i \in DOMAIN stored.pending :
       LET entry == stored.pending[i]
       IN  entry.key \notin Waiting(stored') =>
             IF entry.key.copy
             THEN entry.key.notice \in Range(copied) \/ pass.now - entry.queued >= History
             ELSE entry.key.notice \in Range(posted)]_vars

(* A notice is saved before it is sent, and stays saved until it is delivered. *)
SavedUntilDelivered == SentOnlySaved /\ LeavesOnlyDelivered

Earlier(sent, i, j) == sent[i].subject = sent[j].subject /\ sent[i].since = sent[j].since

(* Nobody is told of a recovery before the incident, or of the incident    *)
(* after it, and no incident is told of again within Reminder.  The notify *)
(* service gets them in order too, as long as no pass ended early: a pass  *)
(* that was refused one copy offers no later one.                          *)
PlatformInOrder ==
  \A j \in DOMAIN posted :
    /\ posted[j].type = "recovery" => \E i \in 1..(j-1) : Earlier(posted, i, j)
    /\ \A i \in 1..(j-1) : Earlier(posted, i, j) /\ posted[j].type = "incident" =>
         /\ posted[i].type = "incident"
         /\ posted[i] = posted[j] \/ posted[j].at - posted[i].at >= Reminder
CopiesInOrder ==
  cut \/ \A i, j \in DOMAIN copied :
    i < j /\ Earlier(copied, i, j) /\ copied[i].type = "recovery" => copied[j].type = "recovery"
InOrder == PlatformInOrder /\ CopiesInOrder

(* A notice reaches ntfy, or a copy the service, once more than there were *)
(* faults at most.                                                         *)
TimesSent(sent, notice) == Cardinality({i \in DOMAIN sent : sent[i] = notice})
RepeatsNeedFaults ==
  /\ \A notice \in Range(posted) : TimesSent(posted, notice) <= 1 + faults
  /\ \A notice \in Range(copied) : TimesSent(copied, notice) <= 1 + faults

(* "An alerted incident clears for 2 continuous minutes; missing or        *)
(* unreadable health evidence cannot establish recovery": every pass since *)
(* Recovery ago found the app well, as long as each of them ran to its     *)
(* end: what one stopped by a failed save saw is forgotten.                *)
NewRecoveries ==
  {key.notice : key \in {k \in Waiting(stored') \ Waiting(stored) :
                           k.notice.type = "recovery" /\ k.notice.subject \in Apps}}
Unbroken(notice) == well[notice.subject] # NoTime /\ pass.now - well[notice.subject] >= Recovery
RecoveryEarned == [][cut' \/ \A notice \in NewRecoveries : Unbroken(notice)]_vars

(* "Failed posts stop the job and retry on the next minute": what waits    *)
(* for the platform is delivered in the end, whatever becomes of the       *)
(* copies it waits with, unless pass after pass decides on more than the   *)
(* document has room for.                                                  *)
Drained == \A key \in Waiting(stored) : key.copy
Overfull == pass.pc = "save" /\ ~Fits(state)
PlatformDrainsOrFull == []<>(Drained \/ Overfull)
=============================================================================
