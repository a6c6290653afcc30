------------------------------ MODULE MCAlone ------------------------------
(***************************************************************************)
(* Instances for TLC of two parts that share nothing with any other: the   *)
(* console's jobs and the restore of a database.  The first state picks    *)
(* the part that a behaviour runs; the variables of the other stay as they *)
(* begin.                                                                  *)
(***************************************************************************)
EXTENDS Jobs

CONSTANTS Restores, Overlap, Replicas, BackupSuspended, MaxRestoreFaults, MaxAgain

ASSUME RestoreAssumption ==
  {Overlap, BackupSuspended} \subseteq BOOLEAN /\ Replicas \in {0, 1} /\ {MaxRestoreFaults, MaxAgain} \subseteq Nat

VARIABLES
  part,                                                                                   \* the part this behaviour runs
  api, app, backup, restorePod, db, restores, upgrading, found, overruled, restoreFaults  \* Restore

Back == INSTANCE Restore WITH Runs <- Restores, MaxFaults <- MaxRestoreFaults,
          pod <- restorePod, run <- restores, before <- found, faults <- restoreFaults

restore == <<api, app, backup, restorePod, db, restores, upgrading, found, overruled, restoreFaults>>
allvars == <<part, vars, restore>>

(* The database's API objects start in several ways, of which the jobs     *)
(* need one.                                                               *)
AloneInit ==
  /\ part \in {"jobs", "restore"}
  /\ Init /\ Back!Init
  /\ part = "restore" \/ (api.schedule = FALSE /\ api.replicas = 0)

AloneNext ==
  /\ UNCHANGED part
  /\ \/ part = "jobs" /\ Next /\ UNCHANGED restore
     \/ part = "restore" /\ Back!Next /\ UNCHANGED vars

(* A page is open in every pod of the console that serves.  A restore that *)
(* is not killed goes on; the controllers bring about what its objects ask *)
(* for, and a Job ends by its deadline.  When Helm or Flux acts is left    *)
(* open.                                                                   *)
Restoring == part = "restore"
AloneSpec ==
  /\ AloneInit /\ [][AloneNext]_allvars
  /\ \A p \in Pods : WF_vars(part = "jobs" /\ Page(p))
  /\ WF_restore(Restoring /\ (Back!AppStarts \/ Back!AppStops))
  /\ WF_restore(Restoring /\ \E r \in Restores : Back!Step(r))
  /\ WF_restore(Restoring /\ \E r \in Restores : Back!Pod(r))

(* Neither the app nor a backup starts beside a working restore pod, but   *)
(* for an upgrade that was under way, a Job overtaken before it had a pod, *)
(* and a schedule that the app's unit resumes.                             *)
NothingBesideRestore == Back!NothingBesideRestore

(* What a restore says at its end, of the database and of what it owes, is *)
(* so, unless it overtook another's Job; a schedule that it suspended by a *)
(* request it thinks failed is told by that step alone.                    *)
AccountIsTrue == Back!AccountIsTrue

(* An app that its records run and that ran runs again once no restore is  *)
(* under way, unless one was killed or said that it is stopped.            *)
AppComesBack == Back!AppComesBack
=============================================================================
