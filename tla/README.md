# Formal models of swhurl-platform

TLA+ models of the parts of this repository that keep state while other things
run, fail and restart beside them, and of the pure functions whose answers those
parts rely on. TLC checks them on small instances; TLAPS proves the safety
properties of eleven of the parts for every instance.

    tlc -config MCNotify.cfg MCNotify.tla      # a run: the cfg, then the module it is for
    tlapm NotifyProofs.tla                     # the proofs of a part

`PROJECT.json` lists the components, runs, mutants, findings, hazards and
theorems, and maps every definition to the lines it models.

## The system

A single-node platform. Flux applies what is on `main`; a console shows it and
opens pull requests; Go commands (`v2/cmd/swhurl-v2`) change app records, compile
them into manifests, and run as jobs and services in the cluster; a timer on the
host watches from outside. The parts meet in few places: the tree of `main`, the
objects of the Kubernetes API, the notify service's queue, and a backup bucket.

| Component | State | Operations | Interacts with | What makes it hard |
| --- | --- | --- | --- | --- |
| Notify service (`v2/notify`, `orchestration/notify.go`) | an outbox document in a ConfigMap, a copy of it in memory, one lock, a wake channel, the rate limit's counts | accept a message or an alert; deliver pass; checkpoint; restart | API server, ntfy; apps, ClickStack and the checker send to it | handlers race the pass; a write or a publication takes effect although it seemed to fail; a full queue |
| Notification checker (`v2/incident`, `orchestration/notifications_check.go`) | a document of incident clocks, waiting notices and remembered keys in a ConfigMap | a pass a minute: observe, evaluate, save, offer each notice, checkpoint | API server, ntfy, the notify service | a stopped job; saves between sends; clocks over missed passes; two destinations in one queue |
| Host heartbeat (`v2/heartbeat`, `orchestration/notifications_heartbeat.go`) | a flag for each watched CronJob in a file | a run every five minutes: read, decide, send, replace the file | API server, ntfy | a notice and the file that remembers it cannot change together |
| Restore (`orchestration/restore.go`, `images/backup/tool/restore.go`) | what it did to the cluster and owes it | take the app apart, run a Job over its database, put it back; undo on any failure | API server, controllers, the Job's pod, nightly backup, Helm and Flux | eight steps that can each fail, an undo that can fail too, a second run |
| Backup (`images/backup/tool`, `observe/backup.go`) | archives and their metadata in a bucket | copy, put the archive, put the metadata; judge what is there | S3, Kubernetes Jobs | a retried put is refused because the first succeeded; two Jobs share a stamp; reads at different times |
| `main`, its bots and commands (`tools/swhurl/bots.py`, `console/proposal.py`, `orchestration/create.go`, `edit.go`, `promote.go`, ...) | main's tree | ask for, merge, rebase pull requests; deliver images; render | GitHub | racing writers; a tree checked against a main that moves; merges by lines |
| Console jobs (`console/actions.py`, `jobstore.py`, `statestore.py`) | jobs in memory, their records in a ConfigMap | submit, run, keep, drain, settle, forget | an old and a new pod during a rollout | several threads write one record; two pods share a store |
| Status and progress of a change (`observe`, `console/status.py`, `stages.py`, `server.py`) | none but what a page remembers | read pull requests, `main` and the cluster one after another; judge | Flux, Helm, Kubernetes | reads at different times of things that move |
| Dashboards (`orchestration/dashboards.go`, `v2/dashboards`) | the objects in ClickStack, a record for the console | a pass: find apps, repair, update, record, prune | ClickStack, people, Flux | no transactions; overlapping passes; requests applied late |
| Platform checks (`orchestration/platform*.go`, `observe/platform*.go`) | none | read, take the time, judge | everything | reads that fail or depend on one another must not read as success |
| Kernel (`v2/kernel`, `calls`, `events`) | each instance's port, kept in `main` | refuse or compile an instance; allot ports | Flux, the egress proxy, the broker | the parts of one commit reach the cluster in any order |
| App policy (`v2/policy`) | none | judge what the chart rendered | the chart | arithmetic over pods of different lives; comparisons that could miss a change |
| Lifecycle events, console pages and flags, adapters, Python tooling, manifests | none, or one write each | thin I/O | | |

**What makes each correct.** Notify service: an accepted copy is neither lost nor
queued twice, each pass offers it whatever becomes of the others, it is repeated
only because of a fault, and it is sent or given up in the end. Checker: nothing is
sent that is not saved, nothing leaves undelivered, incident and recovery come in
order, and a recovery was really seen. Heartbeat: it remembers only what it told.
Restore: neither the app nor a backup comes to run beside a pod that replaces the
database, and what a run changed and did not put back it says. Backup: what is named by its
metadata is complete, and "current" means there is such a backup. `main`: what is
selected for production ran in staging, files rendered from the records agree with
them, and a port has one owner. Jobs: one job per target, and no running job
forgotten. Progress: what is called live ran, whole. Dashboards: the record names
what is there, and one undisturbed pass repairs all. Checks: they pass exactly when
what they promise is so. Kernel and cluster: a proxy never answers an app with
another's grants, and an app nobody changed notices nothing of a roll-out. Policy:
what passes runs within its grants.

## Modules

| Module | What it is |
| --- | --- |
| `Outbox`, `Notify`, `CopyPromise`, `RateLimit` | the notify service: pure operations on its document; handlers, loop, lock, ConfigMap and restarts; what it promises of its copies, with no queue, pass or lock in it; the rate limit of one app |
| `Incident`, `Checker` | the checker: pure operations on its document; its passes |
| `Heartbeat` | the heartbeat's runs |
| `Restore` | runs of the restore, the objects they change, the controllers, pods, Helm and Flux around them |
| `Backup` | backup Jobs, their pods and puts, the bucket, and the readers that judge it |
| `Records`, `Commands`, `Main` | a tree of records and the files rendered from it; the commands that change it; `main`, pull requests and the two workflows |
| `Jobs` | the console's jobs in the old and the new pod |
| `Observe`, `Landing` | findings and state of one instance (pure); a change followed from merge to live |
| `Dashboards` | the dashboard pass |
| `Verify` | the platform checks |
| `Cluster` | ports, callers, keys and users, and a cluster that takes them up commit by commit |
| `Compiler`, `Policy`, `Rollout` | what the kernel makes of one instance (pure); the policy (pure); an instance from its records to its pods |
| `MC*` | instances for TLC. `MCNotify` states that `Notify` implements `CopyPromise`. `MCAlone`, `MCApart` and `MCCluster` each hold parts that share nothing: the first state picks the part a behaviour runs |
| `NotifyProofs`, `CheckerProofs`, `ClusterProofs` (cluster, dashboards), `ApartProofs` (rate limit, heartbeat, backups, checks), `AloneProofs` (jobs, restore), `LandingProofs`, `MainProofs`, `Numbers` | the theorems, and lemmas about operators and sets of numbers |

An operator commented `faulty:` is a definition of the code with a plausible bug
in it. Nothing uses it; in the place of the one after it, it must break the property
`PROJECT.json` names, which shows that the property is about the code.

## The models and the code

### Notify service

`stored` is the ConfigMap's document, `outbox` is `Notifier.outbox` (or `Nil`),
`handlers` and `pass` are program counters, `wake` is the loop's channel of capacity
one, `clock` the time. `posts`, `quiet` and `faults` are history.

| Action | Code |
| --- | --- |
| `Request` | `AcceptMessage`, `AcceptAlert` up to the lock: the time and the team's channels are read here and used later |
| `QueueUnread`, `QueueFull`, `QueueNothing`, `Queue` | `Notifier.queue` under the lock, one action for each of its ends |
| `Answer` | `endpoint`: it wakes the loop after the lock is free, then answers |
| `Woken`, `Timer` | `loop`; the pass's time is read before its lock |
| `PassUnread`, `PassNothing`, `PassBegin` | `Deliver` up to its first save |
| `Offer`, `Checkpoint`, `Finish` | the loop of `Deliver`: send one copy, put it back or settle it, save |
| `Restart` | the pod stops at any point, a new one starts with its wake-up due |

The lock is held from `PassBegin` to `Finish`, and handlers act only while it is
free: one pass can be many steps and one handler's use of the lock a single one.
`Saved` and `NotSaved` are both outcomes of `save`: on an error memory is forgotten,
and the write may have been applied.

`RateLimit` is separate because it shares only the lock with the outbox. A request's
time is read when it arrives and counted when it has the lock, so counts are out of
order; `MaxDelay` bounds by how much.

### Notification checker

Time is counted in passes: `timeout 50` stops a job before the next is due and
`concurrencyPolicy: Forbid` keeps two from overlapping, so the clock stands still
during a pass and any number of passes may be missed. `Begin` reads the document and
either the cluster or nothing (`known = FALSE`); `ObserveApp` takes one app's
evidence, arbitrary at every pass; `Conclude` and `Deliver` follow the evaluation,
the first save and `checkerDeliver`'s loop. `Incident` has what `v2/incident` does
with one document: `Observe`, `CopyHealth`, `Enqueue`, `Settle` and their parts.

### Heartbeat

A run reads the file, decides for one job (`Turn`), posts and sets the flag in memory,
writes the whole file, and goes on with the next job whatever became of this one. A
flag that could not be saved stays in memory and is written with a later job's.

### Restore

`run[r].owes` holds what the code keeps in `r.suspended`, `r.scaled`, `r.secretName`,
`r.jobName` and `r.backupSuspended`. The code notes most of these before it sends its
request, so that a request that seemed to fail is undone too, and one only after: the
model does the same. A request is answered, refused for lack of time, or fails and
may have been applied. The undo goes on after a failed step, but stops before the app
while the Job's pod may hold the claim. The wait for that pod uses up the undo's time,
after which no request succeeds. The pod replaces the database in two halves; between
them there is none, and an app that starts then makes an empty one. `reason` is the first
step that failed, which the run reports. Controllers and pods act at any time; what they
do is taken from how the code waits for it.

Suspending an object matters because of who reads it. A release that is not suspended
may begin an upgrade (`UpgradeStarts`), and one under way ends whenever it does and sets
the count that the records state (`UpgradeScales`): suspending stops only the first. The
CronJob's suspension is rendered in the app's folder, whose unit applies it again at any
time (`UnitApplies`), and a restore does not suspend the unit. `before[r]` is what the
run found, or what Helm and Flux left since of anything the run does not owe.
`overruled` remembers that one of them changed what a run relied on, the count of an
app it had stopped or a schedule it had suspended; that counts as a fault. `Overtook(r)`
says that run `r` began while another's Job was there without a pod, which its preflight
cannot see.

### Backup

A Job's pods take the steps of one run: `Copy`, then `Put` of the archive and `Put` of
the metadata, each retried. A put is answered, refused, fails on its way, or loses its
answer; the archive's name is the second the pod began, so two Jobs may share one.
`JobEnds`, `JobExpires`, `CronSees` and `CleanUp` are Kubernetes'. `Status` reads the
CronJob, the pods and the run one after another and concludes as `backupOf` does;
`Complete` and `PlanState` are what `verify` and a restore's plan go by.

### main, its bots and commands

A tree maps paths to contents: `Records` gives the paths and what `render` writes from
the records, `Commands` one operator for each command, which answers a new tree or
refuses. In `Main` a person asks for a pull request (`Open`), it is merged when git can
merge it (`Merge`; line-merged files conflict by lines) or closed; `DeployRead` and
`RenderRead` take main's tree, work on it, and `DeployPush` and `RenderPush` push it if
nothing else was pushed meanwhile, or start again (`PushUntold`: the push was accepted
and its answer lost). `DeployReadPartly` is a registry that did not answer for every app.

### Console jobs

`pod` is what each pod does, `before` what it read of the store, `job` each run's own
state, `patches` the writes on their way: patches of different threads are applied in
any order, those of an ended process are applied or lost. `Submit` is `Jobs.submit`
(busy targets, the record's number, what it forgets), `KeepRecord`, `Finish` and
`SaveFinal` a job's threads, `Page` a listing that settles the jobs of a pod that is
gone, `Stop`, `Drain`, `DrainDone`, `Removed`, `Crash`, `Restart` a pod's life.

### Status and progress of a change

`Observe` concludes from reads as `v2/observe` does: a finding for each question,
absent and unavailable kept apart, and one state. `Landing` moves main, Flux's unit, the
HelmRelease, the Deployment and pods (external, from how the code reads them), and a
page that reads pull requests, main's pins and the cluster one after another
(`PagePulls`, `PagePins`, `PageReads`), then says of each change how far it got
(`Progress`) and remembers those at their end.

### Dashboards

A pass lists, plans and sends one request at a time: webhooks, dashboards, the
console's record, pruning, alerts. A plan is a set of requests, sent in the order of
the apps with the deletes last (`Due`); one phase gives way to the next when it has
nothing left to send (`Onward`). `Works` is a step that goes well; `Fails`,
`AnswerHasNoId`, `Lost`, `RecordLost` and `Late` are the ways one may not, `Person` an
edit in the UI, `Rebuilt` a cluster made anew. A run by hand takes the apps from the
records, the scheduled one from the cluster.

### Platform checks

A behaviour follows one check over one world of facts: `Ask` reads one, or fails to,
in the order the code reads them (`Wanted`: a read that needs an earlier one's answer
waits for it), `Report` takes the time and judges. `Promised` states of the world what
the operations catalogue says the check is for; the judges are the code's.

### Kernel, cluster and policy

`Cluster`: a commit holds every instance's records and ports; `Allocate` is
`allocateOne` over all of them. Each unit, pod, proxy pod, the egress unit, the broker
and its user list runs a commit of its own, and takes up a newer one when its
`dependsOn` allows. `Compiler` refuses an instance's facts and profile or answers its
documents, as `records.go`, `profile.go`, `compile.go` and `render.go` do; `Policy` has
one list of reasons for each check in `v2/policy`; `Rollout` renders (external), changes
the rendering as a chart of another version might, applies the policy, and lets pods
start, be replaced and end as their workloads say.

## Runs

| Run | Shows |
| --- | --- |
| `notify` | every safety invariant of the service, and that no wake-up is lost |
| `promise` | `Notify` implements `CopyPromise`; every copy is sent or given up in the end |
| `checker` | notices in order, saved before sent, kept until delivered, recoveries earned; platform notices drain |
| `alone` | console jobs: one per target, no running job forgotten, a forsaken one is settled. A restore and another after it: nothing runs beside the pod that replaces the database but for what an upgrade, the unit or an overtaken Job excuses, each run's account is true, the app comes back |
| `main` | the files of releases and ports agree with the records after any two pull requests and any bot's push, and the rest of the network once no Render is due; it is rendered in the end |
| `landing` | what a page calls live ran; pages agree with one another; every change but a removal settles |
| `apart` | backups that count verify, "current" has one, a Job fails only in trouble; the rate limit's window; a truthful heartbeat; a check's verdict is the truth |
| `dashboards` | the record names live dashboards, twins need excuses, one undisturbed pass repairs everything |
| `cluster` | no app is answered as another, an unchanged app is undisturbed, the cluster follows `main`. What is compiled is whole, what the policy passes runs within its grants |
| `restore_overlap`, `deploy_held`, `landing_removal` | disagreements, see *Findings* |

The passing runs take from half a minute to three minutes with two workers, the others
seconds.

### Bounds

Every bound on time, faults, requests and restarts is a CONSTANT.

- `notify`: two handlers and three request keys on one channel, so two requests race
  each other and the pass, and two waiting copies can be reordered while a third
  arrives. `MaxPending = 2` and `MaxOutboxBytes = 4` let the queue fill by number and
  by size. `History = 1` and `MaxTime = 3` let a key be remembered, forgotten and used
  again. One fault, anywhere.
- `promise`: one key and one handler, a live channel and one that always fails, two
  faults, and time enough to give a copy up and to accept its key again. The two copies
  of one request are what meet each other in the queue.
- `checker`: one app whose notices are copied, so that platform notices, copies and
  the notices about the checker and the notify service share the queue. Five passes see
  grace, incident, reminder and recovery; `History = 3` gives copies up;
  `MaxStateBytes = 9` lets the document overflow and still hold four notices. One fault.
- `alone`: two jobs on two units in two pods with one record kept, one trouble. Two
  restores, one after the other, of an app that its records run and back up and that may
  have been stopped or its schedule suspended by hand: two faults reach a failed step and
  a failed undo, or a killed run and what Helm or the unit then changes beneath it, which
  counts as a fault too; a second run begins after at most one.
- `main`: four apps, five instances, two teams, thirteen kinds of request of which any
  two are made, two attempts to push, one fault. Two are enough for two heads to
  conflict, to merge cleanly into what neither says, and to race both bots.
- `landing`: a created instance, one change of any kind, one trouble.
- `apart`: two Jobs, two pods each, two tries a put, one fault. Two in three seconds,
  two concurrent requests, a delay of one second, one restart. Two watched jobs that
  share the file, two faults, four runs. Each check over all of its worlds, with any
  reads failing, `Fresh = 2` of `Until = 4` ticks.
- `dashboards`: two environments, one preset, and any two events: an overlapping pass, a
  person's edit, a lost or late request, a failing step, a rebuilt cluster.
- `cluster`: two apps of one environment, one merge over any state left by earlier
  ones (`MaxCommits = 2`; three exceed what the run may take, and the theorems of
  `ClusterProofs` hold for any number). Six kinds of instance with any two facts
  otherwise, any part of one block of the profile, tighter quotas, any two of 59 changes
  of the chart; five nodes for a DaemonSet and five overlapping runs of a CronJob.

Sizes are abstract: an entry takes `EntryBytes` and a remembered key `SeenBytes`, never
more than an entry, because the entry's JSON repeats the key beside its text.

### Symmetry

`notify` uses it on handlers and request keys and `apart` on backup Jobs: nothing in
the modules orders them, and both runs check invariants only.

### Fairness

| Run | Assumed | Why |
| --- | --- | --- |
| `promise` | the timer fires, a pass under way goes on, time passes | `loop` selects on a ticker and its sends have timeouts |
| `checker` | passes are started and end, time passes | a CronJob every minute; requests have timeouts, and `timeout 50` |
| `alone` | a page is read in every serving pod; a restore that is not killed goes on; the Deployment's pods follow its replicas; a Job's pod ends. Nothing of Helm and the unit, which may act or not | an open page refreshes itself; each wait has a deadline and so has the Job; controllers reconcile |
| `main` | Render reads and pushes | a person's push to `main` starts the workflow |
| `landing` | Flux, Helm and pods go on; a page is read | controllers reconcile at intervals |
| `cluster` | each part is applied, started or reloaded | as above |

No fairness is put on a request, an observation, a fault or a success. Faults are
finite in number, which is what makes delivery possible at all. At the end of time
passes and runs go on with the clock standing still, so that a finite clock does not
cut liveness short.

### Deadlock

Checked in `notify`, `promise`, `checker` and `dashboards`. In the others a behaviour
may end for good: a restore or a run of checks is over, the requests and commits are
used up, and nothing is left to follow.

## What the checks say about the code

All passing runs pass. What they rely on is worth knowing:

- Forgetting memory after a failed save keeps the notify service's memory and its
  ConfigMap together, and putting retried copies at the tail with a count of what is
  left to offer is what makes each pass offer each copy once (`OffersEachOnce`).
- A wake-up is not lost even though it is sent after the lock is freed (`WakeNotLost`).
  The exceptions are in the property: the last pass failed, or the request was answered
  503 and saved all the same. For those the timer is the only wake-up.
- In the undo of a restore, stopping while the Job's pod may hold the claim is the one
  thing between a timeout and an app writing to a database that is being replaced
  (`NothingBesideRestore`). It keeps the release suspended too: resumed, an upgrade could
  start the app.
- A backup is complete whatever Jobs overlap because a put never replaces and a retried
  put accepts only its own bytes (`WhatCountsVerifies`).
- No proxy answers an app as another because ports are never used again: policies, pods
  and proxies of different commits then still agree on whose a port is.
- Pushing unforced is what keeps a bot from undoing a merge it has not seen
  (`RecordsChangeByRequest`).

### Findings

Each is a run that TLC finds violated; its trace shows how.

- `restore_overlap`. Preflight looks for restore pods (`restore.go:190`). A second run
  begun before the first has a pod is not refused; it fails at the Secret that exists,
  and its undo deletes that Secret and starts the app beside the first run's pod,
  although "restarting the app over it is worse than leaving the app stopped"
  (`restore.go:358`).
- `deploy_held`. All apps' new images are delivered as one tree, and nothing is pushed
  when its check fails (`bots.py:109`), so one image that drops an event another app
  receives holds every app, where docs/apps.md:588 says "(the others still deploy)".
- `landing_removal`. The console merges `v2-remove` (`merge.py:491`) and `progress` looks
  for `remove` (`stages.py:241`), so each merged removal is "historical", and drawn as
  finished, at once. docs/console.md:70 says that it ends "only when the merged tree and
  current `main` omit the instance and both its Flux unit and HelmRelease are gone".

### Noted without a run

Met while modelling. Where a property of a run has to allow for one, it says so in its
statement.

Notify service and checker:
- A 503 for a failed save may have queued its copies ("nothing was accepted",
  docs/services.md:282); sending again is harmless, because the key waits.
- A key is remembered from the time its pass was called, so a copy sent late in a long
  pass is remembered for less than two hours. The checker gives a copy up at that same
  age, on a clock of its own.
- Requests counted out of order can pass the rate limit in a window of exactly
  `RateSeconds`. A message counted and then answered 503 uses up the limit.
- A checker's pass whose first save fails is forgotten with the fault it saw, so a
  recovery can be told of an incident that was broken in between (docs/services.md:179);
  `RecoveryEarned` is about passes that did not end early.
- A pass that could not read the cluster does not record that its copies were accepted,
  so refusals before and after it count as one outage.
- A document that overflows stops all delivery at the first save until it fits again;
  `PlatformDrainsOrFull` allows for it.

Heartbeat and restore:
- When the heartbeat's file cannot be replaced after an alert was accepted, a job fresh
  by the next run is never reported as recovered (docs/services.md:220).
- `backupSuspended` is set only once the patch was answered (`restore.go:427`). When that
  request is applied but times out, the undo leaves the schedule suspended and the report
  says it is not, although `BackupSuspended` "is whether the run ended with the instance's
  backup schedule suspended" (`:82`) and, of the release, "a request that timed out may
  still have been applied" (`:405`). `NothingLeftSilently` holds because the failed step
  is told; without that alternative it is violated.
- The CronJob's suspension is rendered (`render.go:735`), and a restore does not suspend
  the unit that applies it. A reconciliation in the window resumes the schedule, although
  `suspendBackup` "stops the nightly run for the window" (`restore.go:411`). A backup that
  already runs is not stopped either.
- An upgrade under way when the release is suspended ends all the same, and a scale-down
  before its end is reverted, although suspending means that "no upgrade starts and the
  scale-down is not reverted" (`restore.go:404`).
- Preflight lists pods (`restore.go:183`). A run killed after it made its Job leaves one
  that has no pod yet; the next run goes ahead, although "no restore of this instance is
  already running" (`:174`), fails at the Secret, and its undo resumes the release and may
  start the app beside that pod. These three are what `NothingBesideRestore` excuses.
- With two faults before a second restore, a Job that the first could not delete can run
  beside the second one's, and replace again the database that the second says it has
  restored: what `RestoredMeansRestored` excuses of a run that overtook another's Job.

Backup and checks:
- A run that meets `activeDeadlineSeconds` has its pod deleted, so the newest run that
  is seen is an older success and the status stays "current".
- A plan takes the newest object by modification time, the platform's check the newest
  stamp with metadata. A database with no tables never has a plan that is ready.
- `SystemLogTTL` checks that there is a TTL, not that it is 7 days; the images are
  compared by containing ":" and the tag; isolation compares selectors, quota and labels
  but no rules; a CronJob's success stamped ahead of the clock counts as fresh.

`main`:
- A change that returns to settings `main` had before may be called live for what ran
  before it (`LiveRan` is about content). No request carries settings chosen when an
  instance is created.
- Between a person's push and Render, `main` may let a call pass, or hold broker users,
  that its records no longer ask for (the form of `NetworkFollowsRecords`).
- A new app that keeps a database cannot arrive connected, as docs/apps.md:190 has it:
  the `edit` between `create` and `render` (`merge.py:249-262`) compiles it before a port
  is allotted, and is refused (`render.go:909-911`).
- Two pull requests from one head that remove an app's two environments leave its
  `app.json`. One that subscribes merges cleanly with a delivery that drops the event,
  and main cannot be rendered until a person acts.
- Every console render writes the head it started from, so pull requests of different
  heads always conflict in `calls.json`.

Console:
- A job's state is set before its record is saved and a drain waits for the state only,
  so the next pod may call a finished job interrupted (`jobstore.py:5-7`,
  docs/console.md:102). A container restarted in its pod leaves an unfinished job
  "running"; a store that cannot be read at the start makes numbers begin at 1 again.
- A stopped unit is judged before an unknown revision, so a change can be called applied
  that is not (docs/console.md:71); `promote` is compared by its raw name where the
  record holds `v2-promote` (`stages.py:253`); a new app shows as failing until Flux
  creates its unit.

Dashboards: overlapping passes may delete a dashboard the other recorded, until the next
pass; a run from the records resets thresholds set by an annotation; twins and foreign
webhooks stop every pass until a person acts (docs/services.md:99). An update applied
late tags a board again that a person untagged, after a later pass made another.

Kernel and policy:
- A profile without a name service compiles to a rule with an empty namespace
  (`render.go:446`), though "no instance may reach anything without resolving it first"
  (`profile.go:132`), and one without a recipient to a backup job with an empty
  `AGE_RECIPIENT` (`:800`), though "the job encrypts to the platform's SOPS recipient"
  (`profile.go:109`; `mint.go:68` refuses such a profile). `CompiledIsWhole` excepts these
  two blocks; every other fact is asked for where a document needs it.
- docs/apps.md:388 says that the compiler leaves room for "a backup pod and a certificate
  solver"; `fits` counts only the backup's (`compile.go:231`), and so does the property.
- An instance with no grant and no database gets no port (`alloc.go:107`), where
  docs/apps.md:540, docs/services.md:137 and docs/operations.md:48 say that every instance
  has one; the platform's egress check then reports it as broken (`platform_apps.go:441`).
- An instance whose unit is never applied keeps `platform-auth` from everyone. A workload
  of other labels than the app's passes the policy though no NetworkPolicy selects it. The
  policy counts a surge of a quarter and the cluster of one; they agree only because the
  chart's default is Recreate.

## Proofs

A theorem holds for every value of the constants that the module's assumption allows,
so for any number of faults, keys, pods, instances or commits. Assumptions are only
that bounds are numbers and sets finite (`OutboxAssumption`, `NotifyAssumption`,
`IncidentAssumption`, `CheckerAssumption`, `JobsAssumption`, `BackupAssumption`,
`ClusterAssumption`, `RateAssumption`, `HeartbeatAssumption`, `RestoreAssumption`,
`VerifyAssumption`, `BoundsAreNumbers`, `ImagesAreImages`), that names and lists are of the right kind
(`DashboardsAssumption`, `KindsAreKinds`, `OrderIsInstances`, `RequestsAreRequests`), that
no content is a value of its own (`NothingIsNoContent`), and that `main` begins as a tree
its own checks pass (`FirstTreePasses`). TLC evaluates each in a run.

The invariants of the runs say what holds at the end of something, and nothing of what
is under way; none is inductive. For each part:

- **`NotifyProofs`**: `QueueSound`, `CheckpointKeepsOthers`, `OffersEachOnce`,
  `RepeatsNeedFaults` and `WakeNotLost`. `IInv` adds `PassHolds` (a pass past its start
  has an outbox in memory within `MaxPending`: its checkpoints write that document),
  `UnsavedOnlyRetries` (a pass that has put nothing back has saved what is in memory:
  `Finish` saves nothing then) and `Charged` (a waiting copy was posted no more often
  than there were faults, a done one once more: each unanswered post and failed save is a
  fault of its own). One lemma per action, after those on what
  `Accept`, `Expire`, `Settle` and `Requeue` keep. That a pass never meets the size bound
  rests on `SeenBytes <= EntryBytes`. For the wake-up, a second invariant says of each
  handler between its save and its answer that it will wake the loop.
  And `Notify` implements `CopyPromise` (`PromiseKept`), step by step: `TInv` is `IInv`
  with `Ties`, how far memory may have gone from the ConfigMap at each point of a pass,
  so that one write is one step of the promise or none.
- **`CheckerProofs`**: `InOrder`, `RepeatsNeedFaults`, `SavedUntilDelivered`,
  `RecoveryEarned`. `Sound` ties the document in memory to the saved one (`Kept`), the
  queue to the incidents (`Lines`: an open incident's record is at least as late as every
  notice of it), health to what passes saw (`Health`, `Earned`), and repeats to the
  faults that caused them (`Charges`).
- **`MainProofs`**: `ReleasesAgree`, `NetworkFollowsRecords`, `PortsNameOneCaller`,
  `RecordsChangeByRequest`. A tree is sound when each instance's records are all there
  or all gone with its unit, and the proxy's list states the ports, no two the same.
  Rendering sound records gives a sound tree that renders to itself, every console
  command leaves sound records, and a merge of two sound sides is sound because git
  refuses those that would mix. `IInv` says so of `main`, of every open pull request
  beside its base and beside the `main` there is now, and of the bots' runs; it also says
  that Render is due or under way whenever `main` is not rendered. A port is never
  given to another because no side of a merge gives up one the other keeps.
- **`LandingProofs`**: `LiveRan`, `PagesAgree`. A release settled at the spec it was given
  has its own pod and no other, so a commit that a unit has applied has run. While
  `main` stands still, what each read of a page found stays so until the next, so three
  reads at different times conclude as one would.
- **`ClusterProofs`**, the cluster: `ProxyKnowsTheCaller`, `Undisturbed`. Within a commit
  ports are distinct, between commits they are kept (`PortsApart`, `PortsKept`), so a port
  names one instance in all of them, and it does not matter which commit each part runs.
- **`ClusterProofs`**, the dashboards: `RecordNamesLive`, `TwinsNeedExcuses`,
  `OnePassRepairs`. Requests not yet sent fit the objects they were planned from; what
  the record or a pass names is there or counted as gone; and a pass not beside another
  deletes nothing that the record or it names, because the record is written before
  anything is deleted (`RecordInv`). What there is of one name, with what the passes and the late requests
  are still about to make of it, is never more than one and the excuses (`ClaimsFew`):
  that holds at each request, where the property alone would not. That one pass repairs
  rests on `CalmMends`: of a pass under way that nothing disturbed, what is there of a
  kind and what its plan has yet to send together make what is wanted, each phase's work
  stays done through the later ones, and the ids it keeps are those of the dashboards
  there are. So whatever it asks can be done, no alert is refused for a dashboard
  without tiles, and when its last request is answered nothing is left to do; what else
  can end it quietly is a plan refused, for two objects of one name or a foreign webhook.
- **`ApartProofs`**: `RateInShorterWindow`: the kept times are the last of those counted,
  each dropped one is `RateSeconds` old, and a time is counted at most `MaxDelay` after
  it was read; so counts `RateCount` apart in order are `RateSeconds - MaxDelay` apart
  in time (`RateInv`). `HeartbeatIsTruthful`: between its steps a run may have sent what
  it has not saved; the notices out of turn and the jobs that a fault led astray are
  together no more than the faults (`BeatInv`). `WhatCountsVerifies`, `CurrentIsBackedUp`,
  `FailsOnlyInTrouble`: metadata is put only by a pod whose own archive the bucket took
  under that stamp, and nothing is replaced; each trouble is charged to one stamp.
  `VerdictIsTruth`, for every check: a read is asked only when it was given at the start
  or what has been found calls for it, and what is called for stays so whatever is found
  later (`WantedStays`). So at the report each fact was read, failed or was never called
  for (`Settled` in `CheckInv`), and one lemma per check goes through what its judge may
  then have before it.
- **`AloneProofs`**: `OneJobPerTarget`, `RunningIsRemembered`. Only the last pod accepts
  jobs, it starts when no first record of another is on its way, and its numbers are
  above every number that the store, a memory or a patch names; so no patch under way
  can be of a job that another pod believes its own.
  `NothingBesideRestore` and `AccountIsTrue`, under the hypothesis `~Overlap` (with it the
  first is violated: see the findings). While a run's Job without its pod, or its pod, is
  there, the run owes "job", the release and the schedule are suspended and the app is
  scaled to none (`Apart`), unless the unit resumed the schedule (`Resumed`) or an upgrade
  set the count or a run overtook the Job (`Upset`): the excuses the property names. Each
  is needed: without any one of them TLC finds `NothingBesideRestore` violated. A run
  resumes and scales up only once its own Job and pod are gone; another's are there only
  if it overtook that Job, because its preflight found no pod.
  Each stage's assumptions are in `Stage`; the debts, one for each of the release, the
  schedule, the count, the Secret and the Job, are in `Accounts`, where the schedule may
  instead be told as the step that failed. From them follows `NothingLeftSilently`, half of
  `AccountIsTrue`. For the other half `Told` says of each stage what the Job's word stands
  for and what may still be owed there, of every run that overtook no Job. That exception
  is out of reach of the run's bounds, in which a second restore follows one fault; it
  takes two.

`Numbers` has facts about finite sets of numbers (they have a least and a greatest one)
that the allotment of ports, job numbers and stamps need.

### Only model-checked

- Liveness, which is beyond the prover: `EventuallyDischarged`, `PlatformDrainsOrFull`,
  `ForsakenIsSettled`, `AppComesBack`, `RenderedAgain`, `ChangesSettle`,
  `ClusterFollowsMain`.
- `CompiledIsWhole` and `PassedRunsContained`: one evaluation over many inputs rather
  than an invariant of steps; enumeration is the better check.

## Not modelled

- Token review, request bodies, alert bundling, routes and the rendering of messages:
  they change no state. A copy is its key and channel.
- Flux lifecycle events in the checker (`v2/incident/events.go`), which are read after
  the pass's clock and skipped when older than the memory of their keys.
- What health is made of: the checker's model lets evidence be anything, which includes
  whatever `health.go` can compute.
- The composition of the checker with the notify service. Each side's edge, the key's
  expiry and the giving up, is in its own module.
- Writes applied later than a following one in `Notify` and `Checker`: there a write
  that seems to have failed was applied at once or never. `Jobs` and `Dashboards` have
  late writes.
- The durability of a renamed file after a power loss.
- Routes, certificates and promotion's readiness in `Observe`; registration, channels,
  Secrets, hosts of egress grants and quotas in `Commands`; the gate that would merge
  pull requests by itself, which is off for every action.
- In `Cluster`: instances of two environments at once (they meet only at the proxy), the
  units for backups and image automation, which do not change, and the gap a Recreate
  leaves. A Helm upgrade and the pod's start are one step.
- Console pages and flags, adapters, Python tooling, manifests and host scripts.

## Plan

What the models have left: lifecycle events in the checker's document; the checker with
the notify service; instances of two environments in one cluster.
