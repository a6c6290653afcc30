-------------------------------- MODULE Jobs --------------------------------
(***************************************************************************)
(* The console's jobs and their records (tools/swhurl/console/actions.py,  *)
(* jobstore.py): each pod runs jobs in threads, keeps one record per job   *)
(* in a ConfigMap, and reads what other pods wrote there.  A pod that is   *)
(* being replaced finishes its jobs while the next one already serves.     *)
(*                                                                         *)
(* A write of a record is a patch on its way: patches of different threads *)
(* are applied in any order, one of a process that has ended is applied or *)
(* lost, and a pod's object is removed after that.  Read failures and lost *)
(* patches of a living process are faults.  The output of a job is left    *)
(* out, but not the writes made as it grows.                               *)
(***************************************************************************)
EXTENDS Integers, FiniteSets, FiniteSetsExt

CONSTANTS
  Runs,         \* the jobs there may be, numbered in the order they are submitted
  Units,        \* what they change, one each
  MaxPods,      \* bound on pods, numbered in the order they start
  Keep,         \* jobstore.KEEP
  MaxTrouble    \* bound on the events of bounds, all together

ASSUME JobsAssumption ==
  /\ Runs \subseteq Nat \ {0} /\ IsFiniteSet(Runs) /\ Units # {} /\ MaxPods \in Nat \ {0} /\ Keep \in Nat \ {0}
  /\ MaxTrouble \in Nat

VARIABLES
  pod,      \* what each pod is doing
  before,   \* Jobs._before of each pod: by id, the records it read
  nextId,   \* Jobs._ids of each pod
  job,      \* of each run: [pod, id, unit, state, thread], state being its pod's own
  store,    \* the ConfigMap: by id, a record
  patches,  \* the writes on their way
  bounds    \* history: requests accepted by a pod being stopped, processes that
            \* ended without draining, those started again in their pod, faults

vars == <<pod, before, nextId, job, store, patches, bounds>>

Pods == 1..MaxPods
Ids == 1..(Cardinality(Runs) + 1)
States == {"running", "succeeded", "failed", "interrupted"}
NoRecord == [run |-> 0, state |-> "failed"]
Records == [run : Runs \cup {0}, state : States]
Writers == {"start", "keep", "final", "settle"}
Patches == [by : Pods, writer : Writers, id : Ids, record : Records, forget : SUBSET Ids]

TypeOK ==
  /\ pod \in [Pods -> {"none", "up", "stopping", "draining", "ended", "gone"}]
  /\ before \in [Pods -> [Ids -> Records]]
  /\ nextId \in [Pods -> Ids]
  /\ job \in [Runs -> [pod : Pods \cup {0}, id : Ids \cup {0}, unit : Units, state : States,
                       thread : {"none", "starting", "working", "ended", "saving", "over", "dead"}]]
  /\ store \in [Ids -> Records]
  /\ patches \subseteq Patches

Init ==
  /\ pod = [p \in Pods |-> IF p = 1 THEN "up" ELSE "none"]
  /\ before = [p \in Pods |-> [i \in Ids |-> NoRecord]]
  /\ nextId = [p \in Pods |-> 1]
  /\ job = [r \in Runs |-> [pod |-> 0, id |-> 0, unit |-> CHOOSE u \in Units : TRUE,
                         state |-> "failed", thread |-> "none"]]
  /\ store = [i \in Ids |-> NoRecord]
  /\ patches = {}
  /\ bounds = [late |-> 0, crashes |-> 0, restarts |-> 0, faults |-> 0]

Serving(p) == pod[p] \in {"up", "stopping"}
Alive(p) == pod[p] \in {"up", "stopping", "draining"}
Mine(p) == {r \in Runs : job[r].pod = p /\ job[r].thread # "dead"}  \* Jobs._jobs
MyIds(p) == {job[r].id : r \in Mine(p)}

-----------------------------------------------------------------------------
(* What a pod sees of the others' jobs.                                    *)

(* JobStore.alive: whether the pod object exists.                          *)
OwnerGone(record) == pod[job[record.run].pod] = "gone"

Forsaken(seen) == {i \in Ids : seen[i].state = "running" /\ OwnerGone(seen[i])}

(* _settle: the jobs whose pod is gone are interrupted, and saved so.      *)
Settled(seen) ==
  [i \in Ids |-> IF i \in Forsaken(seen) THEN [seen[i] EXCEPT !.state = "interrupted"] ELSE seen[i]]
SettlePatches(p, seen) ==
  {[by |-> p, writer |-> "settle", id |-> i, record |-> Settled(seen)[i], forget |-> {}]
     : i \in Forsaken(seen)}

(* _refresh reads the store again only for what it already knows.          *)
Reread(p) ==
  [i \in Ids |-> IF NoRecord \in {before[p][i], store[i]} \/ i \in MyIds(p)
                 THEN before[p][i] ELSE store[i]]

(* What a pod may go by next, and what it saves then: what it had, within  *)
(* FOREIGN_TTL or when it knows of no running job; else what it reads.  A  *)
(* failed read of the store gives nothing; one of a pod settles nothing.   *)
Reading(p, seen, settle, faults) ==
  [seen |-> IF settle THEN Settled(seen) ELSE seen,
   patches |-> IF settle THEN SettlePatches(p, seen) ELSE {}, faults |-> faults]

ReadsNever(p) == {Reading(p, before[p], FALSE, 0)}  \* faulty: never reads again
Reads(p) ==
  {Reading(p, before[p], FALSE, 0)} \cup
  IF \A i \in Ids : before[p][i].state # "running" THEN {}
  ELSE {Reading(p, Reread(p), TRUE, 0), Reading(p, before[p], TRUE, 1), Reading(p, Reread(p), FALSE, 1)}

Happened(late, crashes, restarts, faults) ==
  /\ bounds' = [late |-> bounds.late + late, crashes |-> bounds.crashes + crashes,
                restarts |-> bounds.restarts + restarts, faults |-> bounds.faults + faults]
  /\ bounds'.late + bounds'.crashes + bounds'.restarts + bounds'.faults <= MaxTrouble

(* recent and get, for a page.                                             *)
Page(p) ==
  /\ Serving(p)
  /\ \E read \in Reads(p) :
       /\ before' = [before EXCEPT ![p] = read.seen]
       /\ patches' = patches \cup read.patches
       /\ Happened(0, 0, 0, read.faults)
  /\ UNCHANGED <<pod, nextId, job, store>>

-----------------------------------------------------------------------------
(* A job, from its request to its last record.                             *)
BusyHere(p, seen, u) ==  \* faulty: only the pod's own jobs count
  \E r \in Mine(p) : job[r].unit = u /\ job[r].state = "running"
Busy(p, seen, u) ==
  \/ \E r \in Mine(p) : job[r].unit = u /\ job[r].state = "running"
  \/ \E i \in Ids : seen[i].state = "running" /\ job[seen[i].run].unit = u

(* _forget: of the ids it knows all but the newest, unless running.        *)
Forgotten(p, seen) ==
  LET known == {i \in Ids : seen[i] # NoRecord} \cup MyIds(p)
      running == {i \in Ids : seen[i].state = "running"}
                   \cup {job[r].id : r \in {r \in Mine(p) : job[r].state = "running"}}
  IN  {i \in known : Cardinality({j \in known : j > i}) >= Keep - 1} \ running

Patch1(r, writer, state, forget) ==
  [by |-> job'[r].pod, writer |-> writer, id |-> job'[r].id,
   record |-> [run |-> r, state |-> state], forget |-> forget]

(* submit, under the lock; the save is made after it, and then the thread  *)
(* started.                                                                *)
Submit(p, r, u) ==
  /\ Serving(p)
  /\ job[r].thread = "none" /\ \A s \in Runs : s < r => job[s].thread # "none"
  /\ \E read \in Reads(p) :
       LET old == Forgotten(p, read.seen)
       IN  /\ ~Busy(p, read.seen, u)
           /\ before' = [before EXCEPT ![p] = [i \in Ids |-> IF i \in old THEN NoRecord ELSE read.seen[i]]]
           /\ job' = [job EXCEPT ![r] = [pod |-> p, id |-> nextId[p], unit |-> u,
                                    state |-> "running", thread |-> "starting"]]
           /\ patches' = patches \cup read.patches \cup {Patch1(r, "start", "running", old)}
           /\ Happened(IF pod[p] = "stopping" THEN 1 ELSE 0, 0, 0, read.faults)
  /\ nextId' = [nextId EXCEPT ![p] = @ + 1]
  /\ UNCHANGED <<pod, store>>

Thread(r, thread) == job' = [job EXCEPT ![r].thread = thread]

(* _keep: a running job's record is saved again as its output grows.       *)
KeepRecord(r) ==
  /\ job[r].thread = "working"
  /\ \A w \in patches : ~(w.writer = "keep" /\ w.record.run = r)
  /\ patches' = patches \cup {[by |-> job[r].pod, writer |-> "keep", id |-> job[r].id,
                               record |-> [run |-> r, state |-> "running"], forget |-> {}]}
  /\ UNCHANGED <<pod, before, nextId, job, store, bounds>>

(* _run: the state is set, and the record saved after that.                *)
Finish(r) ==
  /\ job[r].thread = "working"
  /\ \E state \in {"succeeded", "failed"} :
       job' = [job EXCEPT ![r].thread = "ended", ![r].state = state]
  /\ UNCHANGED <<pod, before, nextId, store, patches, bounds>>

SaveFinal(r) ==
  /\ job[r].thread = "ended"
  /\ Thread(r, "saving")
  /\ patches' = patches \cup {Patch1(r, "final", job[r].state, {})}
  /\ UNCHANGED <<pod, before, nextId, store, bounds>>

(* A patch is answered, or is lost; the thread that made it goes on.       *)
Answered(w) ==
  /\ patches' = patches \ {w}
  /\ IF w.record.run \in Mine(w.by) /\ w.writer \in {"start", "final"}
     THEN Thread(w.record.run, IF w.writer = "start" THEN "working" ELSE "over")
     ELSE UNCHANGED job

StoredWhole(w) ==  \* faulty: a write removes the other keys
  [i \in Ids |-> IF i = w.id THEN w.record ELSE NoRecord]
Stored(w) ==
  [i \in Ids |-> IF i = w.id THEN w.record ELSE IF i \in w.forget THEN NoRecord ELSE store[i]]

Apply(w) ==
  /\ w \in patches /\ Answered(w)
  /\ store' = Stored(w)
  /\ UNCHANGED <<pod, before, nextId, bounds>>

Lose(w) ==
  /\ w \in patches /\ Answered(w)
  /\ Happened(0, 0, 0, IF Alive(w.by) THEN 1 ELSE 0)
  /\ UNCHANGED <<pod, before, nextId, store>>

-----------------------------------------------------------------------------
(* The pods.                                                               *)

(* Jobs.__init__: an unread store is taken for an empty one.               *)
Loads(p) == {Reading(p, store, TRUE, 0), Reading(p, store, FALSE, 1),
             Reading(p, [i \in Ids |-> NoRecord], FALSE, 1)}

Load(p, restarts) ==
  /\ \E read \in Loads(p) :
       LET held == {i \in Ids : read.seen[i] # NoRecord}
       IN  /\ before' = [before EXCEPT ![p] = read.seen]
           /\ nextId' = [nextId EXCEPT ![p] = IF held = {} THEN 1 ELSE Max(held) + 1]
           /\ patches' = patches \cup read.patches
           /\ Happened(0, 0, restarts, read.faults)

Becomes(p, phase) == pod' = [pod EXCEPT ![p] = phase]

(* The pod's process ends, and its threads with it.                        *)
Ended(p) == [r \in Runs |-> IF job[r].pod = p THEN [job[r] EXCEPT !.thread = "dead"] ELSE job[r]]

(* A replacement starts once the one before it is being stopped.  It takes  *)
(* longer to start than the first patch of a job takes to arrive.          *)
Start(p) ==
  /\ pod[p] = "none" /\ pod[p - 1] \notin {"none", "up"}
  /\ \A w \in patches : w.writer # "start"
  /\ Becomes(p, "up") /\ Load(p, 0)
  /\ UNCHANGED <<job, store>>

(* The process dies and its container is started again in the same pod.    *)
Restart(p) ==
  /\ pod[p] = "up" /\ \A w \in patches : w.by # p
  /\ job' = Ended(p) /\ Load(p, 1)
  /\ UNCHANGED <<pod, store>>

(* The last pod of an instance is not replaced.                            *)
Stop(p) ==
  /\ pod[p] = "up" /\ p < MaxPods
  /\ Becomes(p, "stopping")
  /\ UNCHANGED <<before, nextId, job, store, patches, bounds>>

Drain(p) ==
  /\ pod[p] = "stopping"
  /\ Becomes(p, "draining")
  /\ UNCHANGED <<before, nextId, job, store, patches, bounds>>

(* drain waits for the states of its jobs, not for their records.          *)
Drained(p) == \A r \in Mine(p) : job[r].state # "running"

DrainDone(p) ==
  /\ pod[p] = "draining" /\ Drained(p)
  /\ Becomes(p, "ended") /\ job' = Ended(p)
  /\ UNCHANGED <<before, nextId, store, patches, bounds>>

(* A crash, a lost node, or a job that outlasts the wait.                  *)
Crash(p) ==
  /\ Alive(p) /\ p < MaxPods
  /\ Becomes(p, "ended") /\ job' = Ended(p)
  /\ Happened(0, 1, 0, 0)
  /\ UNCHANGED <<before, nextId, store, patches>>

Removed(p) ==
  /\ pod[p] = "ended" /\ \A w \in patches : w.by # p
  /\ Becomes(p, "gone")
  /\ UNCHANGED <<before, nextId, job, store, patches, bounds>>

Next ==
  \/ \E p \in Pods : Page(p) \/ Stop(p) \/ Drain(p) \/ DrainDone(p) \/ Crash(p) \/ Removed(p) \/ Restart(p)
  \/ \E p \in Pods \ {1} : Start(p)
  \/ \E p \in Pods, r \in Runs, u \in Units : Submit(p, r, u)
  \/ \E r \in Runs : KeepRecord(r) \/ Finish(r) \/ SaveFinal(r)
  \/ \E w \in patches : Apply(w) \/ Lose(w)

Spec == Init /\ [][Next]_vars

(* A page is open in every pod that serves: it reads again, some day.      *)
FairSpec == Spec /\ \A p \in Pods : WF_vars(Page(p))

-----------------------------------------------------------------------------
(* Properties.                                                             *)

Running(r) == job[r].thread \in {"starting", "working"}
Undisturbed == bounds.late = 0 /\ bounds.faults = 0

(* One job per target at a time (actions.py), over all pods: while the     *)
(* pods are replaced, crash and restart, a pod starts no job on a unit     *)
(* that a job of another pod is still changing, unless a request was       *)
(* accepted by a pod already being stopped, or a read or write failed.     *)
OneJobPerTarget ==
  Undisturbed => \A r, s \in Runs : r # s /\ Running(r) /\ Running(s) => job[r].unit # job[s].unit

(* The record of a running job is neither forgotten, nor overwritten by a  *)
(* job of another pod, nor called interrupted, with the same exceptions.   *)
RunningIsRemembered ==
  Undisturbed => \A r \in Runs : job[r].thread = "working"
                   => store[job[r].id] = [run |-> r, state |-> "running"]

(* A pod does not refuse a unit forever for a job whose pod is gone.       *)
ForsakenIsSettled ==
  \A p \in Pods : []<>(Serving(p) => Forsaken(before[p]) = {})
=============================================================================
