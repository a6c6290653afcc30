------------------------------- MODULE Backup -------------------------------
(***************************************************************************)
(* The nightly protection of one app's SQLite database: the backup job     *)
(* (images/backup/tool), the bucket it publishes to, and the readers that  *)
(* judge it - the instance's status (v2/observe/backup.go, archive.go),    *)
(* the platform's check (platform_store.go) and the plan of a restore      *)
(* (restore.go).  A Job's pods take the steps of one run; a CronJob and    *)
(* the operator start Jobs, which may overlap.                             *)
(*                                                                         *)
(* Time is in ticks, the grain of the stamps archives are named by, and    *)
(* the database has a new content every tick.  An archive is known by the  *)
(* pod that made it, for age's output never repeats.  A fault is a pod     *)
(* lost, a damaged copy, a request refused, or a put that fails on its way *)
(* or loses its answer.                                                    *)
(***************************************************************************)
EXTENDS Integers, FiniteSets, FiniteSetsExt

CONSTANTS
  Jobs,       \* the Jobs there are to start
  Attempts,   \* pods a Job may use: backoffLimit + 1
  Tries,      \* transportAttempts of one request
  Deadline,   \* activeDeadlineSeconds, in ticks
  MaxAge,     \* --max-age, in ticks
  MaxTime,    \* bound on time
  MaxFaults   \* bound on faults

ASSUME BackupAssumption ==
  {Attempts, Tries, Deadline, MaxAge, MaxTime} \subseteq Nat \ {0} /\ MaxFaults \in Nat

VARIABLES
  now,
  job,        \* each Job's phase, as its conditions say it
  pod,        \* the latest pod of each Job
  left,       \* when the pods of each Job that still exist were created
  archives,   \* the archives in the bucket, by the stamp in their name
  records,    \* the metadata beside them, by the same stamp
  succeeded,  \* the CronJob's lastSuccessfulTime; 0 for none
  status,     \* an observation of the instance, as far as it has read
  faults

vars == <<now, job, pod, left, archives, records, succeeded, status, faults>>

Pods ==
  [pc : {"none", "copy", "archive", "record", "failed", "succeeded"}, try : Nat,
   stamp : Nat, at : Nat, tries : Nat]
NoPod == [pc |-> "none", try |-> 0, stamp |-> 0, at |-> 0, tries |-> 0]
NoJob == [phase |-> "none", scheduled |-> FALSE, started |-> 0, ended |-> 0]
NoStatus == [pc |-> "start", succeeded |-> 0, owner |-> {}]

Init ==
  /\ now = 1
  /\ job = [j \in Jobs |-> NoJob]
  /\ pod = [j \in Jobs |-> NoPod]
  /\ left = [j \in Jobs |-> {}]
  /\ archives = <<>>
  /\ records = <<>>
  /\ succeeded = 0
  /\ status = NoStatus
  /\ faults = 0

Fault == faults < MaxFaults /\ faults' = faults + 1
NoFault == UNCHANGED faults

Active(j) == job[j].phase = "active"
bucket == <<archives, records>>
readers == <<succeeded, status>>

-----------------------------------------------------------------------------
(* The Jobs: the CronJob's, of which one runs at a time (concurrencyPolicy *)
(* Forbid), and the ones `make backup-sqlite` makes from it, which the     *)
(* CronJob does not count.                                                 *)

(* faulty: a later pod of a Job goes on under the stamp of the first.      *)
NewPodKeepsStamp(j) ==
  [pc |-> "copy", try |-> pod[j].try + 1, at |-> 0, tries |-> 0,
   stamp |-> IF pod[j].try = 0 THEN now ELSE pod[j].stamp]

NewPod(j) == [pc |-> "copy", try |-> pod[j].try + 1, stamp |-> now, at |-> 0, tries |-> 0]

Start(j) ==
  /\ job[j].phase = "none"
  /\ \E scheduled \in BOOLEAN :
       /\ scheduled => ~\E k \in Jobs : Active(k) /\ job[k].scheduled
       /\ job' = [job EXCEPT ![j] = [phase |-> "active", scheduled |-> scheduled,
                                     started |-> now, ended |-> 0]]
  /\ pod' = [pod EXCEPT ![j] = NewPod(j)]
  /\ left' = [left EXCEPT ![j] = {now}]
  /\ UNCHANGED <<now, bucket, readers, faults>>

(* A pod that failed is replaced after a pause; the last one fails the Job.*)
Retry(j) ==
  /\ Active(j) /\ pod[j].pc = "failed"
  /\ pod[j].try < Attempts /\ Max(left[j]) < now
  /\ pod' = [pod EXCEPT ![j] = NewPod(j)]
  /\ left' = [left EXCEPT ![j] = @ \cup {now}]
  /\ UNCHANGED <<now, job, bucket, readers, faults>>

EndJob(j, phase) == job' = [job EXCEPT ![j].phase = phase, ![j].ended = now]

JobEnds(j) ==
  /\ Active(j)
  /\ \/ pod[j].pc = "succeeded" /\ EndJob(j, "complete")
     \/ pod[j].pc = "failed" /\ pod[j].try = Attempts /\ EndJob(j, "failed")
  /\ UNCHANGED <<now, pod, left, bucket, readers, faults>>

(* The deadline ends the Job and deletes the pod that was running.         *)
JobExpires(j) ==
  /\ Active(j) /\ now - job[j].started >= Deadline
  /\ EndJob(j, "expired")
  /\ IF pod[j].pc \in {"failed", "succeeded"} THEN UNCHANGED <<pod, left>>
     ELSE /\ pod' = [pod EXCEPT ![j].pc = "failed"]
          /\ left' = [left EXCEPT ![j] = @ \ {Max(@)}]
  /\ UNCHANGED <<now, bucket, readers, faults>>

(* The CronJob notes a success, whoever started it; it keeps one complete  *)
(* Job (successfulJobsHistoryLimit) and the pods of the others go after.   *)
CronSees(j) ==
  /\ job[j].phase = "complete" /\ job[j].ended > succeeded
  /\ succeeded' = job[j].ended
  /\ UNCHANGED <<now, job, pod, left, bucket, status, faults>>

CleanUp(j) ==
  /\ \/ /\ job[j].phase = "complete"
        /\ \E k \in Jobs : job[k].phase = "complete" /\ job[k].started > job[j].started
        /\ job' = [job EXCEPT ![j].phase = "gone"]
        /\ UNCHANGED left
     \/ /\ job[j].phase = "gone" /\ left[j] # {}
        /\ left' = [left EXCEPT ![j] = {}]
        /\ UNCHANGED job
  /\ UNCHANGED <<now, pod, bucket, readers, faults>>

-----------------------------------------------------------------------------
(* One run, in one pod (backupSQLite).                                     *)

To(j, pc) == pod' = [pod EXCEPT ![j].pc = pc, ![j].tries = 0]
Fails(j) == To(j, "failed")

(* VACUUM INTO, the checks of the copy, its encryption and the size check: *)
(* a copy that fails one is never published.                               *)
Copy(j) ==
  /\ Active(j) /\ pod[j].pc = "copy"
  /\ \/ pod' = [pod EXCEPT ![j].pc = "archive", ![j].at = now] /\ NoFault
     \/ Fails(j) /\ Fault
  /\ UNCHANGED <<now, job, left, bucket, readers>>

PodLost(j) ==
  /\ Active(j) /\ pod[j].pc \notin {"failed", "succeeded"}
  /\ Fails(j) /\ Fault
  /\ UNCHANGED <<now, job, left, bucket, readers>>

Made(j) == <<j, pod[j].try>>
Archive(j) == [by |-> Made(j), at |-> pod[j].at, written |-> now]
Record(j) == [of |-> Made(j)]

With(objects, stamp, object) ==
  [s \in DOMAIN objects \cup {stamp} |-> IF s = stamp THEN object ELSE objects[s]]

Here(j) == pod[j].stamp \in DOMAIN (IF pod[j].pc = "archive" THEN archives ELSE records)

(* The put reaches the bucket, which refuses to replace an object          *)
(* (If-None-Match).                                                        *)
Stores(j) ==
  IF Here(j) THEN UNCHANGED bucket
  ELSE IF pod[j].pc = "archive"
       THEN archives' = With(archives, pod[j].stamp, Archive(j)) /\ UNCHANGED records
       ELSE records' = With(records, pod[j].stamp, Record(j)) /\ UNCHANGED archives

(* The archive first, then its metadata.                                   *)
Onward(j) == To(j, IF pod[j].pc = "archive" THEN "record" ELSE "succeeded")

(* faulty: an object that is there already counts as published.            *)
AnsweredEither(j) == Onward(j)

(* faulty: the archive alone is a success.                                 *)
AnsweredOnce(j) == IF Here(j) THEN Fails(j) ELSE To(j, "succeeded")

Answered(j) == IF Here(j) THEN Fails(j) ELSE Onward(j)

(* doWithRetry: a request without an answer is sent again, at most Tries   *)
(* times, whether or not it was applied.                                   *)
Unanswered(j) ==
  IF pod[j].tries + 1 = Tries THEN Fails(j) ELSE pod' = [pod EXCEPT ![j].tries = @ + 1]

Put(j) ==
  /\ Active(j) /\ pod[j].pc \in {"archive", "record"}
  /\ \/ Stores(j) /\ Answered(j) /\ NoFault
     \/ Stores(j) /\ Unanswered(j) /\ Fault
     \/ UNCHANGED bucket /\ Unanswered(j) /\ Fault
     \/ UNCHANGED bucket /\ Fails(j) /\ Fault
  /\ UNCHANGED <<now, job, left, readers>>

-----------------------------------------------------------------------------
(* The status of the instance: the CronJob, then the run's pods, then the  *)
(* Job that owns the newest of them (backupEvidence, runEvidence).          *)

(* NewestRun; pods created in the same second come in any order.           *)
NewestRuns ==
  LET pods == UNION {left[j] : j \in Jobs}
  IN  {j \in Jobs : left[j] # {} /\ Max(left[j]) = Max(pods)}

(* runState: a failed newest run outranks an older success; a Job that is  *)
(* gone claims nothing.                                                    *)
RunState(j) == IF job[j].phase \in {"failed", "expired"} THEN "failing" ELSE "success"

SuccessState(at) == IF at = 0 \/ now - at > MaxAge THEN "stale" ELSE "current"

SucceededAt(j) ==
  IF status.succeeded = 0 /\ job[j].phase = "complete" THEN job[j].ended ELSE status.succeeded

(* What the status says of the backup once it has read the Job.            *)
BackupState(j) == IF RunState(j) = "failing" THEN "failing" ELSE SuccessState(SucceededAt(j))

StatusCron ==
  /\ status = NoStatus
  /\ status' = [NoStatus EXCEPT !.pc = "pods", !.succeeded = succeeded]

StatusPods ==
  /\ status.pc = "pods"
  /\ IF \A j \in Jobs : left[j] = {} THEN status' = NoStatus
     ELSE \E j \in NewestRuns : status' = [status EXCEPT !.pc = "run", !.owner = {j}]

StatusRun == status.pc = "run" /\ status' = NoStatus

Status ==
  /\ StatusCron \/ StatusPods \/ StatusRun
  /\ UNCHANGED <<now, job, pod, left, bucket, succeeded, faults>>

-----------------------------------------------------------------------------
(* The plan of a restore: of the archives listed it takes the newest, or   *)
(* the one it is told, and reads the metadata beside it.  A restore        *)
(* performs a plan that is ready.                                          *)

(* newestArchive: by LastModified, the first listed of equals.             *)
Newest ==
  CHOOSE s \in DOMAIN archives : \A t \in DOMAIN archives :
    \/ archives[t].written < archives[s].written
    \/ archives[t].written = archives[s].written /\ t >= s

(* metadataReadiness.                                                      *)
PlanState(key) ==
  IF now - archives[key].written > MaxAge THEN "stale"
  ELSE IF key \in DOMAIN records THEN "ready" ELSE "incomplete"

(* platform_store's newest: the stamps whose archive has its metadata.     *)
Complete == DOMAIN archives \cap DOMAIN records

-----------------------------------------------------------------------------
(* Time waits for a Job whose deadline has passed to end.                  *)
Tick ==
  /\ now < MaxTime
  /\ \A j \in Jobs : Active(j) => now - job[j].started < Deadline
  /\ now' = now + 1
  /\ UNCHANGED <<job, pod, left, bucket, readers, faults>>

Next ==
  \/ \E j \in Jobs :
       \/ Start(j) \/ Retry(j) \/ JobEnds(j) \/ JobExpires(j) \/ CronSees(j) \/ CleanUp(j)
       \/ Copy(j) \/ PodLost(j) \/ Put(j)
  \/ Status \/ Tick

Spec == Init /\ [][Next]_vars

-----------------------------------------------------------------------------
(* What the platform's check counts as a backup, and so the archive of any *)
(* plan that is ready, is restorable: the metadata is that of the archive  *)
(* beside it, though Jobs overlap, share a stamp, and repeat their puts.   *)
WhatCountsVerifies ==
  \A s \in DOMAIN archives :
    s \in Complete \/ PlanState(s) = "ready" => records[s].of = archives[s].by

(* An instance whose backup is called current has a complete backup of     *)
(* what the database held at most a run before MaxAge ago, though its      *)
(* CronJob, its pods and its Job are read one after another.               *)
CurrentIsBackedUp ==
  \A j \in status.owner :
    BackupState(j) = "current" =>
      \E s \in Complete : /\ records[s].of = archives[s].by
                          /\ archives[s].at >= now - MaxAge - Deadline

(* A Job fails only when each of its pods met trouble of its own, a fault  *)
(* or another Job's pod with the same stamp: a put that was applied and    *)
(* lost its answer costs one pod, never the Job.                           *)
Shared(j) == {s \in left[j] : \E k \in Jobs \ {j} : s \in left[k] \cup {pod[k].stamp}}
FailsOnlyInTrouble ==
  \A j \in Jobs : job[j].phase = "failed" => faults + Cardinality(Shared(j)) >= Attempts

=============================================================================
