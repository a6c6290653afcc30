------------------------------ MODULE Observe ------------------------------
(***************************************************************************)
(* What v2/observe concludes of one instance from what was read of it: a   *)
(* finding per question, whether a commit not applied yet matters to it,   *)
(* and the instance's state.  Pure operators: a read that failed is        *)
(* evidence of nothing.                                                    *)
(*                                                                         *)
(* A read is [status, of]: present with an object, absent or unavailable.  *)
(* The pods' read has a set of pods, and is never absent.                  *)
(***************************************************************************)
EXTENDS Integers, FiniteSets

Fields == {"unit", "revision", "release", "workload", "image", "ready", "replicas"}

Finding(outcome, reason) == [outcome |-> outcome, reason |-> reason]

Positive == {"reconciled", "applied", "unaffected", "settled", "present", "running", "ready", "as_intended"}
Negative == {"not_reconciled", "not_applied", "not_settled", "absent", "different", "not_running", "not_ready"}

-----------------------------------------------------------------------------
(* Batch reads: one list answers for every instance, so a list that failed *)
(* makes each of its objects unavailable, and only a list that was read    *)
(* makes one absent.                                                       *)

FromList(listed, there, object) ==
    CASE ~listed -> [status |-> "unavailable", of |-> {}]
      [] listed /\ there -> [status |-> "present", of |-> object]
      [] listed /\ ~there -> [status |-> "absent", of |-> {}]

-----------------------------------------------------------------------------
(* Flux states a failure when Ready is False, for a reason that is not one of its waiting ones, and it is *)
(* not reconciling again. *)
FluxFailed(flux) == flux.ready = "False" /\ ~flux.waiting /\ ~flux.reconciling

(* A condition about an older spec is stale, and not read as ready. *)
FluxReadiness(flux, positive, negative) ==
    IF flux.ready = "none" THEN Finding(negative, "condition_absent")
    ELSE IF ~flux.current THEN Finding(negative, "status_stale")
    ELSE IF flux.ready = "True" THEN Finding(positive, "")
    ELSE Finding(negative, IF FluxFailed(flux) THEN "condition_failed" ELSE "condition_not_ready")

FluxFinding(read, positive, negative) ==
    CASE read.status = "absent" -> Finding("absent", "not_found")
      [] read.status = "unavailable" -> Finding("unavailable", "failed_read")
      [] read.status = "present" ->
            IF read.of.suspended THEN Finding(negative, "suspended") ELSE FluxReadiness(read.of, positive, negative)

(* faulty: a unit that is ready counts as up to date, whatever commit it applied. *)
RevisionFindingReady(read, revision) ==
    IF read.status # "present" THEN Finding("not_assessed", read.status)
    ELSE IF read.of.ready = "True" THEN Finding("applied", "")
    ELSE Finding("different", "")

RevisionFinding(read, revision) ==
    IF read.status # "present" THEN Finding("not_assessed", read.status)
    ELSE IF read.of.applied = 0 THEN Finding("not_applied", "revision_not_applied")
    ELSE IF read.of.applied = revision THEN Finding("applied", "")
    ELSE Finding("different", "")

PresenceFinding(read) ==
    Finding(read.status, CASE read.status = "present" -> "" [] read.status = "absent" -> "not_found" [] OTHER -> "failed_read")

(* Every fact of the Deployment waits for the Deployment to have been read. *)
Gated(read, finding) == IF read.status = "present" THEN finding ELSE Finding("not_assessed", read.status)

(* The images of the pods whose container was pulled and started. *)
StartedImages(pods) == {pod.image : pod \in {p \in pods : p.started}}

(* What runs is read from the pods: the Deployment may name an image none of them runs yet. *)
RunningImage(pods, target) ==
    IF pods = {} THEN IF target.replicas = 0 THEN Finding("not_assessed", "no_replicas_intended")
                      ELSE Finding("not_running", "no_pods")
    ELSE IF StartedImages(pods) = {} THEN Finding("not_running", "not_pulled")
    ELSE IF StartedImages(pods) = {target.image} THEN Finding("running", "")
    ELSE Finding("different", "digest")

ImageFinding(workload, pods, target) ==
    IF workload # "present" THEN Finding("not_assessed", workload)
    ELSE IF pods.status = "present" THEN RunningImage(pods.of, target)
    ELSE Finding("not_assessed", "pods_unavailable")

ReadyFinding(workload) ==
    Gated(workload, IF ~workload.of.current THEN Finding("not_ready", "status_stale")
                    ELSE IF workload.of.available THEN Finding("ready", "") ELSE Finding("not_ready", "condition_not_available"))

ReplicasFinding(workload, target) ==
    Gated(workload, IF workload.of.replicas = target.replicas THEN Finding("as_intended", "")
                    ELSE Finding("different", "available_replicas"))

(* Containers that are not ready and say why. *)
Problems(pods) == pods.status = "present" /\ \E pod \in pods.of : pod.problem

-----------------------------------------------------------------------------
(* Whether the commit the records were read at has reached the instance:   *)
(* a complete comparison from the very commit the unit applied may show    *)
(* that nothing the instance is made of changed since.                     *)

Currentness(unit, revision, compared) ==
    IF unit.status # "present" THEN "unknown"
    ELSE IF unit.of.applied = 0 THEN "pending"
    ELSE IF unit.of.applied = revision THEN "applied"
    ELSE IF compared.from # unit.of.applied \/ compared.to # revision \/ ~compared.complete THEN "unknown"
    ELSE IF compared.relevant THEN "pending"
    ELSE "unaffected"

(* What each read establishes of the fields it answers. *)
UnitFindings(unit, target, compared) ==
    [unit |-> FluxFinding(unit, "reconciled", "not_reconciled"),
     revision |-> IF Currentness(unit, target.revision, compared) = "unaffected"
                  THEN Finding("unaffected", "complete_comparison_unaffected")
                  ELSE RevisionFinding(unit, target.revision)]

ReleaseFindings(release) == [release |-> FluxFinding(release, "settled", "not_settled")]

WorkloadFindings(workload, target) ==
    [workload |-> PresenceFinding(workload), ready |-> ReadyFinding(workload), replicas |-> ReplicasFinding(workload, target)]

(* The instance's state: the first rule that matches. *)
Suspended(found) == \E field \in {"unit", "release"} : found[field].reason = "suspended"

Failing(found, problems) ==
    \/ problems
    \/ found["unit"].outcome = "absent"
    \/ \E field \in {"unit", "release"} : found[field].reason = "condition_failed"

(* An absent release or workload is nothing in progress: it is left to the rule for what is unknown. *)
Updating(found) == \E field \in Fields : found[field].outcome \in Negative \ {"absent"}

StateOf(found, problems, target) ==
    IF Suspended(found) THEN "suspended"
    ELSE IF Failing(found, problems) THEN "failing"
    ELSE IF Updating(found) THEN "updating"
    ELSE IF target.replicas = 0 THEN "stopped"
    ELSE IF \E field \in Fields : found[field].outcome \notin Positive THEN "unknown"
    ELSE "healthy"

=============================================================================
