------------------------------ MODULE Restore ------------------------------
(***************************************************************************)
(* The restore of an app's SQLite database (v2/orchestration/restore.go).  *)
(* A run takes the app apart - it suspends the release and the backup      *)
(* schedule, stops the app and creates a Secret and a Job - waits for the  *)
(* Job, and puts the app back; when a step fails it undoes what it did.    *)
(* Around it are the API server's objects, the controllers and pods that   *)
(* act on them, Helm and Flux, which bring the objects back to what the    *)
(* app's records state, and the app's database.                            *)
(*                                                                         *)
(* A write or a poll that fails is a fault, so is a write that is applied  *)
(* though it seems to have failed, and so is a run that is killed; there   *)
(* are at most MaxFaults, or MaxAgain when a second run begins.  A wait    *)
(* for pods may also run out of time whenever they are not as it wants     *)
(* them.  The Job's log is left out.                                       *)
(***************************************************************************)
EXTENDS Integers, Sequences, FiniteSets, FiniteSetsExt

CONSTANTS
  Runs,      \* runs of the restore on one app, numbered as they begin
  Replicas, BackupSuspended,  \* the app's count, and whether its backups are suspended, by its records
  Overlap,   \* whether one may start while another is under way
  MaxFaults, \* bound on faults while there has been one run only,
  MaxAgain   \*   and when a second one is begun or was

VARIABLES
  api,      \* the objects the API server holds
  app,      \* whether a pod of the app exists
  backup,   \* whether a pod of the nightly backup exists
  pod,      \* the pod of each run's Job
  db,       \* what the app's claim has in place of the database
  run,      \* what each run is doing and what it owes
  upgrading, \* whether a Helm upgrade of the app is under way
  before,    \* history: the objects as each run found them, or as Helm or Flux has left them since
  overruled, \* history: what Helm or Flux changed beneath a run that relied on it
  faults     \* history: how many faults there have been

cluster == <<app, backup, pod, db, upgrading, overruled>>
vars == <<api, cluster, run, before, faults>>

JobStates == {"none", "created", "running", "complete", "failed"}
Objects ==
  [release : BOOLEAN,       \* whether the HelmRelease is suspended
   schedule : BOOLEAN,      \* whether the backup's CronJob is suspended
   replicas : {0, 1}, secret : BOOLEAN, jobs : [Runs -> JobStates]]
Pods == {"none", "waiting", "fetching", "moved", "ended"}

(* The steps in order, and what undoes them, with what a run owes until    *)
(* that is done.                                                           *)
Order ==
  <<"suspend", "backup-suspend", "scale-down", "pods-gone", "secret", "job",
    "job-finished", "job-result",
    "delete-job", "delete-secret", "backup-resume", "scale-up", "resume", "available">>
UndoOrder == <<"delete-job", "delete-secret", "backup-resume", "scale-up", "resume">>
Debts == <<"job", "secret", "backup", "replicas", "release">>
Index(seq, step) == CHOOSE i \in DOMAIN seq : seq[i] = step

RunStates ==
  [pc : Range(Order) \cup {"idle", "refused", "ended", "killed"},
   undoing : BOOLEAN,
   reason : Range(Order) \cup {"none"},  \* the first step that failed
   asked : BOOLEAN,           \* whether delete-job now waits for the pod to go
   expired : BOOLEAN,         \* whether the undo has used up its time
   owes : SUBSET Range(Debts),
   replicas : {0, 1},         \* the count to return the app to
   wasSuspended : BOOLEAN,    \* the schedule as it was found
   answer : JobStates]        \* the Job's own answer

Idle == [pc |-> "idle", undoing |-> FALSE, reason |-> "none", asked |-> FALSE, expired |-> FALSE, owes |-> {},
         replicas |-> 0, wasSuspended |-> FALSE, answer |-> "none"]

Init ==
  /\ api \in [release : {FALSE}, schedule : BOOLEAN, replicas : {0, 1}, secret : {FALSE},
              jobs : {[r \in Runs |-> "none"]}]
  /\ app = (api.replicas = 1)
  /\ backup = FALSE
  /\ pod = [r \in Runs |-> "none"]
  /\ db = "old"
  /\ run = [r \in Runs |-> Idle]
  /\ upgrading = FALSE
  /\ before = [r \in Runs |-> api] /\ overruled = {}
  /\ faults = 0

Begun == {r \in Runs : run[r].pc # "idle"}
FaultHappens ==
  /\ faults < IF Cardinality(Begun) > 1 THEN MaxAgain ELSE MaxFaults
  /\ faults' = faults + 1

-----------------------------------------------------------------------------
(* How a run goes on.  An undo is attempted when it is owed, whatever      *)
(* became of those before; but while the Job's pod may hold the claim,     *)
(* nothing after delete-secret is.                                         *)
UndoAll(i, owes) ==  \* faulty: whether or not the Job's pod is gone
  LET owed == {j \in i..Len(UndoOrder) : Debts[j] \in owes}
  IN  IF owed = {} THEN "ended" ELSE UndoOrder[Min(owed)]
UndoFrom(i, owes) ==
  LET owed == {j \in i..Len(UndoOrder) : Debts[j] \in owes /\ ("job" \in owes => j <= 2)}
  IN  IF owed = {} THEN "ended" ELSE UndoOrder[Min(owed)]

Undone(me, owes) ==
  [me EXCEPT !.pc = IF me.undoing THEN UndoFrom(Index(UndoOrder, me.pc) + 1, owes)
                    ELSE UndoFrom(1, owes),
             !.reason = IF me.undoing THEN @ ELSE me.pc,
             !.undoing = TRUE, !.asked = FALSE, !.owes = owes]

Advanced(me, owes) ==
  IF me.undoing THEN Undone(me, owes)
  ELSE [me EXCEPT !.pc = IF me.pc = "available" THEN "ended"
                         ELSE Order[Index(Order, me.pc) + 1],
                  !.asked = FALSE, !.owes = owes]

Goes(r, me) == run' = [run EXCEPT ![r] = me]
At(r, step) == run[r].pc = step

(* A write answers, or fails; a failed one may have been applied.          *)
Write(r, after, done, failed) ==
  /\ \/ ~run[r].expired /\ api' = after /\ Goes(r, done) /\ UNCHANGED faults
     \/ run[r].expired /\ Goes(r, failed) /\ UNCHANGED <<api, faults>>
     \/ ~run[r].expired /\ FaultHappens /\ api' \in {api, after} /\ Goes(r, failed)
  /\ UNCHANGED <<cluster, before>>

(* A write that the API server refuses.                                    *)
Refused(r, failed) == Goes(r, failed) /\ UNCHANGED <<api, faults, cluster, before>>

(* A wait ends well when it finds what it waits for, and fails when its    *)
(* time is up first or too many reads failed.                              *)
Wait(r, found, done, late) ==
  /\ \/ found /\ Goes(r, done) /\ UNCHANGED faults
     \/ ~found /\ Goes(r, late) /\ UNCHANGED faults
     \/ FaultHappens /\ Goes(r, Undone(run[r], run[r].owes))
  /\ UNCHANGED <<api, cluster, before>>

-----------------------------------------------------------------------------
(* preflight                                                               *)
Active(r) == run[r].pc \notin {"idle", "refused", "ended", "killed"}

Begin(r) ==
  /\ At(r, "idle") /\ \A q \in Runs : q < r => ~At(q, "idle")
  /\ Begun = {} \/ faults <= MaxAgain
  /\ Overlap \/ \A q \in Runs : ~Active(q)
  /\ IF \A q \in Runs : pod[q] = "none"
     THEN /\ Goes(r, [Idle EXCEPT !.pc = "suspend", !.replicas = api.replicas])
          /\ before' = [before EXCEPT ![r] = api]
     ELSE Goes(r, [Idle EXCEPT !.pc = "refused"]) /\ UNCHANGED before
  /\ UNCHANGED <<api, cluster, faults>>

(* takeDown.  What a run owes it notes before the request, except for the  *)
(* schedule, which it notes once the request was answered.                 *)
Suspend(r) ==
  LET me == run[r]  owes == me.owes \cup {"release"}
  IN  /\ At(r, "suspend")
      /\ Write(r, [api EXCEPT !.release = TRUE], Advanced(me, owes), Undone(me, owes))

SuspendBackup(r) ==
  LET me == [run[r] EXCEPT !.wasSuspended = api.schedule]
  IN  /\ At(r, "backup-suspend")
      /\ Write(r, [api EXCEPT !.schedule = TRUE], Advanced(me, me.owes \cup {"backup"}),
               Undone(me, me.owes))

ScaleDownLate(r) ==  \* faulty: notes what it owes once the request was answered
  LET me == run[r]
  IN  /\ At(r, "scale-down")
      /\ Write(r, [api EXCEPT !.replicas = 0], Advanced(me, me.owes \cup {"replicas"}),
               Undone(me, me.owes))
ScaleDown(r) ==
  LET me == run[r]  owes == me.owes \cup {"replicas"}
  IN  /\ At(r, "scale-down")
      /\ Write(r, [api EXCEPT !.replicas = 0], Advanced(me, owes), Undone(me, owes))

PodsGoneHasty(r) ==  \* faulty: does not wait
  /\ At(r, "pods-gone")
  /\ Wait(r, TRUE, Advanced(run[r], run[r].owes), Undone(run[r], run[r].owes))
PodsGone(r) ==
  /\ At(r, "pods-gone")
  /\ Wait(r, ~app, Advanced(run[r], run[r].owes), Undone(run[r], run[r].owes))

CreateSecretLate(r) ==  \* faulty: notes what it owes once the request was answered
  LET me == run[r]
  IN  /\ At(r, "secret")
      /\ IF api.secret THEN Refused(r, Undone(me, me.owes))
         ELSE Write(r, [api EXCEPT !.secret = TRUE], Advanced(me, me.owes \cup {"secret"}),
                    Undone(me, me.owes))
CreateSecret(r) ==
  LET me == run[r]  owes == me.owes \cup {"secret"}
  IN  /\ At(r, "secret")
      /\ IF api.secret THEN Refused(r, Undone(me, owes))
         ELSE Write(r, [api EXCEPT !.secret = TRUE], Advanced(me, owes), Undone(me, owes))

CreateJob(r) ==
  LET me == run[r]  owes == me.owes \cup {"job"}
  IN  /\ At(r, "job")
      /\ Write(r, [api EXCEPT !.jobs[r] = "created"], Advanced(me, owes), Undone(me, owes))

(* restore.  The Job's own deadline is shorter than the wait: that the     *)
(* wait runs out of time is a fault.                                       *)
Answers == {"complete", "failed"}
WaitForJob(r) ==
  LET me == [run[r] EXCEPT !.answer = api.jobs[r]]
  IN  /\ At(r, "job-finished")
      /\ \/ me.answer \in Answers /\ Goes(r, Advanced(me, me.owes)) /\ UNCHANGED faults
         \/ FaultHappens /\ Goes(r, Undone(me, me.owes))
      /\ UNCHANGED <<api, cluster, before>>

JobResultAny(r) ==  \* faulty: takes a failed Job for an answer too
  /\ At(r, "job-result")
  /\ Goes(r, Advanced(run[r], run[r].owes))
  /\ UNCHANGED <<api, faults, cluster, before>>
JobResult(r) ==
  /\ At(r, "job-result")
  /\ IF run[r].answer = "complete" THEN Goes(r, Advanced(run[r], run[r].owes))
     ELSE Goes(r, Undone(run[r], run[r].owes))
  /\ UNCHANGED <<api, faults, cluster, before>>

-----------------------------------------------------------------------------
(* putBack and unwind.  deleteJob also waits for the pod to go; in the     *)
(* undo that uses up all its time.                                         *)
DeleteJob(r) ==
  /\ At(r, "delete-job") /\ ~run[r].asked
  /\ Write(r, [api EXCEPT !.jobs[r] = "none"], [run[r] EXCEPT !.asked = TRUE],
           Undone(run[r], run[r].owes))

JobPodGone(r) ==
  LET me == run[r]
  IN  /\ At(r, "delete-job") /\ me.asked
      /\ Wait(r, pod[r] = "none", Advanced(me, me.owes \ {"job"}),
              [Undone(me, me.owes) EXCEPT !.expired = me.undoing])

DeleteSecret(r) ==
  /\ At(r, "delete-secret")
  /\ Write(r, [api EXCEPT !.secret = FALSE], Advanced(run[r], run[r].owes \ {"secret"}),
           Undone(run[r], run[r].owes))

ResumeBackup(r) ==
  LET me == run[r]  done == Advanced(me, me.owes \ {"backup"})
  IN  /\ At(r, "backup-resume")
      /\ IF me.wasSuspended THEN Refused(r, done)
         ELSE Write(r, [api EXCEPT !.schedule = FALSE], done, Undone(me, me.owes))

ScaleUp(r) ==
  /\ At(r, "scale-up")
  /\ Write(r, [api EXCEPT !.replicas = run[r].replicas],
           Advanced(run[r], run[r].owes \ {"replicas"}), Undone(run[r], run[r].owes))

Resume(r) ==
  /\ At(r, "resume")
  /\ Write(r, [api EXCEPT !.release = FALSE], Advanced(run[r], run[r].owes \ {"release"}),
           Undone(run[r], run[r].owes))

WaitForRollout(r) ==
  /\ At(r, "available")
  /\ Wait(r, api.replicas = 0 \/ app, Advanced(run[r], run[r].owes), Undone(run[r], run[r].owes))

Killed(r) ==
  /\ Active(r) /\ FaultHappens
  /\ Goes(r, [run[r] EXCEPT !.pc = "killed"])
  /\ UNCHANGED <<api, cluster, before>>

TakeDown(r) ==
  Suspend(r) \/ SuspendBackup(r) \/ ScaleDown(r) \/ PodsGone(r) \/ CreateSecret(r) \/ CreateJob(r)
PutBack(r) ==
  DeleteJob(r) \/ JobPodGone(r) \/ DeleteSecret(r) \/ ResumeBackup(r) \/ ScaleUp(r) \/ Resume(r)
    \/ WaitForRollout(r)
Step(r) == TakeDown(r) \/ WaitForJob(r) \/ JobResult(r) \/ PutBack(r)

-----------------------------------------------------------------------------
(* The cluster.  An app that starts over a missing database makes a new    *)
(* one.                                                                    *)
beside == <<run, upgrading, before, overruled, faults>>  \* what no pod changes

AppStarts ==
  /\ api.replicas = 1 /\ ~app /\ app' = TRUE
  /\ db' = IF db = "missing" THEN "fresh" ELSE db
  /\ UNCHANGED <<api, backup, pod, beside>>
AppStops ==
  /\ api.replicas = 0 /\ app /\ app' = FALSE
  /\ UNCHANGED <<api, backup, pod, db, beside>>

BackupStarts ==
  /\ ~api.schedule /\ ~backup /\ backup' = TRUE
  /\ UNCHANGED <<api, app, pod, db, beside>>
BackupEnds ==
  /\ backup /\ backup' = FALSE
  /\ UNCHANGED <<api, app, pod, db, beside>>

PodTo(r, state) == pod' = [pod EXCEPT ![r] = state]

PodCreated(r) ==
  /\ api.jobs[r] = "created"
  /\ api' = [api EXCEPT !.jobs[r] = "running"] /\ PodTo(r, "waiting")
  /\ UNCHANGED <<app, backup, db, beside>>

(* It mounts the Secret and starts.                                        *)
PodStarts(r) ==
  /\ pod[r] = "waiting" /\ api.secret /\ PodTo(r, "fetching")
  /\ UNCHANGED <<api, app, backup, db, beside>>

(* restoreSQLite: once the archive is fetched and checked, replaceDatabase *)
(* moves the old files aside ...                                           *)
PodMoves(r) ==
  /\ pod[r] = "fetching" /\ PodTo(r, "moved") /\ db' = "missing"
  /\ UNCHANGED <<api, app, backup, beside>>

Answered(r, answer) ==
  IF api.jobs[r] = "running" THEN api' = [api EXCEPT !.jobs[r] = answer] ELSE UNCHANGED api

(* ... and puts the restored one in place.                                 *)
PodSwaps(r) ==
  /\ pod[r] = "moved" /\ PodTo(r, "ended") /\ db' = "restored" /\ Answered(r, "complete")
  /\ UNCHANGED <<app, backup, beside>>

(* It fails anywhere, or the Job's deadline passes and its pod goes too.   *)
PodFails(r) ==
  /\ pod[r] \in {"waiting", "fetching", "moved"}
  /\ pod' \in {[pod EXCEPT ![r] = state] : state \in {"ended", "none"}}
  /\ Answered(r, "failed")
  /\ UNCHANGED <<app, backup, db, beside>>

(* The Job was deleted, and its pod goes with it.                          *)
PodGoes(r) ==
  /\ pod[r] # "none" /\ api.jobs[r] = "none" /\ PodTo(r, "none")
  /\ UNCHANGED <<api, app, backup, db, beside>>

Pod(r) == PodCreated(r) \/ PodStarts(r) \/ PodMoves(r) \/ PodSwaps(r) \/ PodFails(r) \/ PodGoes(r)

(* Helm and Flux.  A release that is not suspended may begin an upgrade;   *)
(* one that is under way ends, and sets the count that the records state.  *)
(* The unit in whose folder the CronJob is rendered applies it again and   *)
(* again, and no restore suspends the unit.  (The HelmRelease is in it     *)
(* too, but its suspension is rendered in no record.)                      *)
Left(r) == api.jobs[r] # "none" \/ pod[r] # "none"
Relies(r, debt) == (Active(r) /\ debt \in run[r].owes) \/ Left(r)
Overrules(what, debt, so) ==
  IF so /\ \E r \in Runs : Relies(r, debt) THEN FaultHappens /\ overruled' = overruled \cup {what}
  ELSE UNCHANGED <<overruled, faults>>
Finds(field, debt, value) ==  \* what is now so that no run owes
  before' = [r \in Runs |-> IF debt \in run[r].owes THEN before[r] ELSE [before[r] EXCEPT ![field] = value]]

UpgradeStarts ==
  /\ ~api.release /\ ~upgrading /\ upgrading' = TRUE
  /\ UNCHANGED <<api, app, backup, pod, db, run, before, overruled, faults>>

UpgradeScales ==
  /\ upgrading /\ upgrading' = FALSE
  /\ api' = [api EXCEPT !.replicas = Replicas]
  /\ Finds("replicas", "replicas", Replicas)
  /\ Overrules("replicas", "replicas", api.release /\ api.replicas # Replicas)
  /\ UNCHANGED <<app, backup, pod, db, run>>

UnitApplies ==
  /\ api.schedule # BackupSuspended
  /\ api' = [api EXCEPT !.schedule = BackupSuspended]
  /\ Finds("schedule", "backup", BackupSuspended)
  /\ Overrules("schedule", "backup", api.schedule)
  /\ UNCHANGED <<app, backup, pod, db, upgrading, run>>

Records == UpgradeStarts \/ UpgradeScales \/ UnitApplies

Next ==
  \/ \E r \in Runs : Begin(r) \/ Step(r) \/ Killed(r) \/ Pod(r)
  \/ Records
  \/ AppStarts \/ AppStops \/ BackupStarts \/ BackupEnds

Spec == Init /\ [][Next]_vars

-----------------------------------------------------------------------------
(* What a restore promises.                                                *)

TypeOK ==
  /\ api \in Objects /\ {app, backup, upgrading} \subseteq BOOLEAN
  /\ pod \in [Runs -> Pods] /\ db \in {"old", "missing", "restored", "fresh"}
  /\ run \in [Runs -> RunStates] /\ before \in [Runs -> Objects]
  /\ overruled \subseteq {"replicas", "schedule"} /\ faults \in Nat

(* The app and a pod that replaces its database never run side by side.    *)
Working(r) == pod[r] \in {"fetching", "moved"}
AppNotBesideRestore == app => \A r \in Runs : ~Working(r)

(* A run that began while another's Job had no pod yet, which its          *)
(* preflight does not see.                                                 *)
Overtook(r) == \E q \in Runs : before[r].jobs[q] = "created"

(* They do not unless an upgrade that was under way set the count, or a    *)
(* run overtook another's Job; and no backup starts beside that pod unless *)
(* the unit resumed the schedule.                                          *)
BackupNotBesideRestore == backup' /\ ~backup => \A r \in Runs : ~Working(r)
NothingBesideRestore ==
  /\ [](AppNotBesideRestore \/ "replicas" \in overruled \/ \E r \in Runs : Overtook(r))
  /\ [][BackupNotBesideRestore \/ "schedule" \in overruled]_vars

(* What a run changed and has not put back when it ends is what it says it *)
(* still owes.  The schedule it may instead say it failed to suspend.      *)
Ends(r) == run[r].pc # "ended" /\ run'[r].pc = "ended"
Owing(r, debt) == debt \in run'[r].owes
NothingLeftSilently ==
  [][\A r \in Runs : Ends(r) =>
       /\ api'.release => Owing(r, "release")
       /\ api'.schedule /\ ~before[r].schedule => Owing(r, "backup") \/ run'[r].reason = "backup-suspend"
       /\ api'.replicas \notin {run[r].replicas, before[r].replicas} => Owing(r, "replicas")
       /\ api'.secret /\ ~before[r].secret => Owing(r, "secret")
       /\ api'.jobs[r] # "none" => Owing(r, "job")]_vars

(* A run that says it restored the database did, and owes nothing; unless  *)
(* it overtook another's Job.                                              *)
RestoredMeansRestored ==
  [][\A r \in Runs : Ends(r) /\ ~run'[r].undoing =>
       Overtook(r) \/ (db = "restored" /\ run'[r].owes = {})]_vars

(* A run's last words are true: of what it restored, and of what it left behind. *)
AccountIsTrue == NothingLeftSilently /\ RestoredMeansRestored

(* An app that its records run and that ran when a run began runs again    *)
(* once no run is under way, unless one was killed or ended saying that it *)
(* is stopped.                                                             *)
Disowned(r) == At(r, "killed") \/ (At(r, "ended") /\ "replicas" \in run[r].owes)
AppComesBack ==
  Replicas = 1 /\ (\E r \in Runs : Active(r) /\ run[r].replicas = 1) ~>
    (app /\ \A r \in Runs : ~Active(r)) \/ \E r \in Runs : Disowned(r)
=============================================================================
