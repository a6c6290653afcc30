------------------------------ MODULE Landing ------------------------------
(***************************************************************************)
(* How the console follows a merged change to one instance until it is     *)
(* there: main's commits, Flux and Kubernetes applying them (external), a  *)
(* page of Activity that reads pull requests, main and the cluster one     *)
(* after another (tools/swhurl/console/server.py change_rows, status.py),  *)
(* and stages.progress, which says how far each change has got.  A change  *)
(* once seen at its end is remembered in its job's record (Jobs.reach).    *)
(***************************************************************************)
EXTENDS Integers, Sequences, FiniteSets, Observe

CONSTANTS Kinds,        \* what each commit after the first may do
          MaxTrouble    \* failed reads and saves, timeouts, broken pods, suspensions

ASSUME KindsAreKinds ==
    /\ Kinds \in Seq(SUBSET {"edit", "scale", "promote", "remove", "create", "deploy", "around", "other"})
    /\ MaxTrouble \in Nat

VARIABLES log,       \* main's commits: what each did, and the instance's files in its tree
          unit,      \* the instance's Flux Kustomization
          release,   \* its HelmRelease
          dep,       \* its Deployment
          pods,      \* its pods: the spec each was made from, and how it is
          ran,       \* the commits whose tree the cluster has run, whole, since they were on main
          page,      \* the page being read
          shown,     \* what the pages last said of each commit's change
          seen,      \* the changes the console's memory holds as seen at their end
          kept,      \* those its store holds
          told,      \* those a page has said to be at their end, their record saved
          trouble

cluster == <<unit, release, dep, pods>>
console == <<page, shown, seen, kept, told>>
vars == <<log, cluster, ran, console, trouble>>

Commits == 1 .. 1 + Len(Kinds)
Last == Len(log)
First == [there |-> TRUE, image |-> 1, settings |-> 1, zero |-> FALSE, render |-> 1]
NoTree == [there |-> FALSE, image |-> 0, settings |-> 0, zero |-> FALSE, render |-> 0]
Tree(n) == log[n].tree

(* The commits a console job made a pull request of. *)
Tracked == {n \in 1 .. Last : log[n].kind \in {"edit", "scale", "promote", "remove", "create"}}

NoUnit == [there |-> FALSE, suspended |-> FALSE, stale |-> FALSE, ready |-> "none", applied |-> 0, trying |-> 0]
NoRelease == [there |-> FALSE, deleting |-> FALSE, spec |-> NoTree, gen |-> 0, seen |-> 0, ready |-> "none"]
NoDep == [there |-> FALSE, spec |-> NoTree, current |-> TRUE]
NoPage == [step |-> "none"]

Init ==
    /\ log = <<[kind |-> "create", tree |-> First]>>
    /\ unit = NoUnit /\ release = NoRelease /\ dep = NoDep /\ pods = {}
    /\ ran = {}
    /\ page = NoPage
    /\ shown = [n \in Commits |-> "nothing"]
    /\ seen = {} /\ kept = {} /\ told = {}
    /\ trouble = 0

Troubled == trouble < MaxTrouble /\ trouble' = trouble + 1

Wanted == IF dep.spec.zero THEN {} ELSE {[of |-> dep.spec, is |-> "up"]}

(* What the cluster runs whole: every pod is of the Deployment's spec, and up. *)
Running == IF dep.there /\ pods = Wanted THEN dep.spec ELSE NoTree

Records == ran' = ran \cup {n \in 1 .. Len(log') : Running' = log'[n].tree}

-----------------------------------------------------------------------------
(* main                                                                    *)

Other(n) == 3 - n

Becomes(kind, tree) ==
    CASE kind = "edit" -> [tree EXCEPT !.settings = Other(@)]
      [] kind = "scale" -> [tree EXCEPT !.zero = ~@]
      [] kind \in {"deploy", "promote"} -> [tree EXCEPT !.image = Other(@)]
      [] kind = "around" -> [tree EXCEPT !.render = Other(@)]
      [] kind = "remove" -> NoTree
      [] kind = "create" -> First
      [] kind = "other" -> tree

Merge ==
    /\ Last \in DOMAIN Kinds
    /\ \E kind \in Kinds[Last] :
          /\ Tree(Last).there # (kind = "create")
          /\ log' = Append(log, [kind |-> kind, tree |-> Becomes(kind, Tree(Last))])
    /\ UNCHANGED <<cluster, console, trouble>> /\ Records

-----------------------------------------------------------------------------
(* Flux: the parent Kustomization makes and prunes the instance's unit;    *)
(* the unit applies main's newest tree and waits for its release.          *)

UnitCreated ==
    /\ ~unit.there /\ Tree(Last).there
    /\ unit' = [NoUnit EXCEPT !.there = TRUE]
    /\ UNCHANGED <<log, release, dep, pods, console, trouble>> /\ Records

Reconcile ==
    /\ unit.there /\ ~unit.suspended /\ Tree(Last).there /\ ~release.deleting
    /\ unit.trying # Last
    /\ unit.applied # Last \/ unit.ready # "True" \/ unit.stale
    /\ unit' = [unit EXCEPT !.trying = Last, !.ready = "Unknown", !.stale = FALSE]
    /\ release' =
         IF ~release.there THEN [NoRelease EXCEPT !.there = TRUE, !.spec = Tree(Last), !.gen = 1]
         ELSE IF release.spec # Tree(Last) THEN [release EXCEPT !.spec = Tree(Last), !.gen = @ + 1]
         ELSE release
    /\ UNCHANGED <<log, dep, pods, console, trouble>> /\ Records

(* wait: true: a revision is applied once the release is ready at the spec it was given. *)
UnitReady ==
    /\ unit.trying # 0 /\ ~unit.suspended
    /\ release.there /\ release.seen = release.gen /\ release.ready = "True"
    /\ unit' = [unit EXCEPT !.applied = unit.trying, !.trying = 0, !.ready = "True"]
    /\ UNCHANGED <<log, release, dep, pods, console, trouble>> /\ Records

UnitTimesOut ==
    /\ Troubled
    /\ unit.trying # 0
    /\ unit' = [unit EXCEPT !.trying = 0, !.ready = "False"]
    /\ UNCHANGED <<log, release, dep, pods, console>> /\ Records

Prune ==
    /\ unit.there /\ ~unit.suspended /\ ~Tree(Last).there
    /\ unit' = NoUnit
    /\ release' = [release EXCEPT !.deleting = release.there]
    /\ UNCHANGED <<log, dep, pods, console, trouble>> /\ Records

Suspend ==
    /\ Troubled
    /\ unit.there /\ ~unit.suspended
    /\ unit' = [unit EXCEPT !.suspended = TRUE, !.trying = 0]
    /\ UNCHANGED <<log, release, dep, pods, console>> /\ Records

Resume ==
    /\ unit.suspended
    /\ unit' = [unit EXCEPT !.suspended = FALSE, !.stale = TRUE]
    /\ UNCHANGED <<log, release, dep, pods, console, trouble>> /\ Records

-----------------------------------------------------------------------------
(* Helm and Kubernetes: one replica, rolled out by surge.                  *)

Upgrade ==
    /\ release.there /\ ~release.deleting
    /\ release.seen # release.gen \/ release.ready = "False"
    /\ release' = [release EXCEPT !.seen = release.gen, !.ready = "Unknown"]
    /\ dep' = [there |-> TRUE, spec |-> release.spec, current |-> dep.there /\ dep.current /\ dep.spec = release.spec]
    /\ UNCHANGED <<log, unit, pods, console, trouble>> /\ Records

Settle ==
    /\ release.there /\ ~release.deleting /\ release.ready = "Unknown" /\ release.seen = release.gen
    /\ dep.current /\ pods = Wanted
    /\ release' = [release EXCEPT !.ready = "True"]
    /\ UNCHANGED <<log, unit, dep, pods, console, trouble>> /\ Records

UpgradeFails ==
    /\ Troubled
    /\ release.there /\ release.ready = "Unknown" /\ release.seen = release.gen
    /\ release' = [release EXCEPT !.ready = "False"]
    /\ UNCHANGED <<log, unit, dep, pods, console>> /\ Records

Uninstall ==
    /\ release.deleting
    /\ release' = NoRelease /\ dep' = NoDep
    /\ pods' = {}
    /\ UNCHANGED <<log, unit, console, trouble>> /\ Records

(* The Deployment's controller observes the spec, and makes a pod of it. *)
RollsOut ==
    /\ dep.there /\ ~dep.current
    /\ dep' = [dep EXCEPT !.current = TRUE]
    /\ pods' = IF dep.spec.zero \/ \E pod \in pods : pod.of = dep.spec THEN pods ELSE pods \cup {[of |-> dep.spec, is |-> "new"]}
    /\ UNCHANGED <<log, unit, release, console, trouble>> /\ Records

PodUp ==
    /\ \E pod \in pods : pod.is # "up" /\ pods' = (pods \ {pod}) \cup {[pod EXCEPT !.is = "up"]}
    /\ UNCHANGED <<log, unit, release, dep, console, trouble>> /\ Records

PodBreaks ==
    /\ Troubled
    /\ \E pod \in pods : pod.is # "broken" /\ pods' = (pods \ {pod}) \cup {[pod EXCEPT !.is = "broken"]}
    /\ UNCHANGED <<log, unit, release, dep, console>> /\ Records

PodGone ==
    /\ dep.there /\ dep.current
    /\ \E pod \in pods : /\ dep.spec.zero \/ (pod.of # dep.spec /\ Wanted \subseteq pods)
                         /\ pods' = pods \ {pod}
    /\ UNCHANGED <<log, unit, release, dep, console, trouble>> /\ Records

-----------------------------------------------------------------------------
(* A page of Activity, or a job's.  It reads which changes were merged,    *)
(* pins main, reads the units and has GitHub compare the commit each has   *)
(* applied with main's; then Go reads the units, the releases, the         *)
(* Deployments and the pods, each one list for all instances.              *)

Target(n) == [image |-> Tree(n).image, revision |-> n, replicas |-> IF Tree(n).zero THEN 0 ELSE 1]

PagePulls ==
    /\ page = NoPage
    /\ page' = [step |-> "pulls", known |-> Last]
    /\ UNCHANGED <<log, cluster, ran, shown, seen, kept, told, trouble>>

(* GitHub's comparison of two commits lists the files that differ between them, if one contains the other. *)
Comparison(from, to, read) ==
    [from |-> from, to |-> to, complete |-> read /\ from \in 1 .. to,
     relevant |-> from \in 1 .. to /\ Tree(from) # Tree(to)]

(* Main is pinned and the units' applied commits compared with it; Go is asked of the instances that main's tree has. *)
PagePins ==
    /\ page.step = "pulls"
    /\ \E read \in BOOLEAN :
          /\ IF read THEN UNCHANGED trouble ELSE Troubled
          /\ page' = [step |-> IF Tree(Last).there THEN "unit" ELSE "judge", known |-> page.known, head |-> Last,
                      compared |-> Comparison(unit.applied, Last, read), down |-> FALSE,
                      found |-> << >>, problems |-> FALSE]
    /\ UNCHANGED <<log, cluster, ran, shown, seen, kept, told>>

FluxUnit == [suspended |-> unit.suspended, ready |-> unit.ready, current |-> ~unit.stale, waiting |-> FALSE,
             reconciling |-> unit.trying # 0, applied |-> unit.applied]
FluxRelease == [suspended |-> FALSE, ready |-> release.ready, current |-> release.seen = release.gen, waiting |-> FALSE,
                reconciling |-> FALSE]
Up == Cardinality({pod \in pods : pod.is = "up"})
Deployment == [current |-> dep.current, available |-> dep.spec.zero \/ Up > 0, replicas |-> Up]
Pods == {[image |-> pod.of.image, started |-> pod.is # "new", problem |-> pod.is = "broken"] : pod \in pods}

(* One of Go's lists, in the order it reads them: it may fail alone, or be the first past the deadline that *)
(* all of them share. *)
After(step) == CASE step = "unit" -> "release" [] step = "release" -> "workload" [] step = "workload" -> "pods" [] step = "pods" -> "judge"

Found(list, ok) ==
    CASE list = "unit" -> UnitFindings(FromList(ok, unit.there, FluxUnit), Target(page.head), page.compared)
      [] list = "release" -> ReleaseFindings(FromList(ok, release.there, FluxRelease))
      [] list = "workload" -> WorkloadFindings(FromList(ok, dep.there, Deployment), Target(page.head))
      [] list = "pods" -> [image |-> ImageFinding(page.found["workload"].outcome, FromList(ok, TRUE, Pods), Target(page.head))]

With(found, more) == [field \in DOMAIN found \cup DOMAIN more |-> IF field \in DOMAIN more THEN more[field] ELSE found[field]]

PageReads ==
    /\ page.step \in {"unit", "release", "workload", "pods"}
    /\ \E ok, down \in BOOLEAN : \E more \in {Found(page.step, ok)} :
          /\ IF ok \/ page.down THEN UNCHANGED trouble ELSE Troubled
          /\ page.down => ~ok /\ down
          /\ down => ~ok
          /\ page' = [page EXCEPT !.step = After(page.step), !.down = down,
                                  !.compared = IF page.step = "unit" THEN << >> ELSE @,
                                  !.found = With(@, more),
                                  !.problems = page.step = "pods" /\ Problems(FromList(ok, TRUE, Pods))]
    /\ UNCHANGED <<log, cluster, ran, shown, seen, kept, told>>

State == StateOf(page.found, page.problems, Target(page.head))

(* How far the cluster, as it was read, has got to main's tree. *)
Lands ==
    [failing |-> "failing", suspended |-> "held", stopped |-> "zero", healthy |-> "live", unknown |-> "unread",
     updating |-> "applying"][State]

Reached == {"live", "zero"}

(* faulty: a change that was seen at its end is not looked up. *)
ProgressForgets(n) ==
    LET merged == Tree(n)
        main == Tree(page.head)
    IN  IF ~merged.there THEN "historical"
        ELSE IF merged.settings # main.settings \/ merged.zero # main.zero THEN "superseded"
        ELSE Lands

(* faulty: any newer configuration replaces a change, a newer release too. *)
ProgressAlone(n) ==
    LET merged == Tree(n)
        main == Tree(page.head)
    IN  IF ~merged.there THEN "historical"
        ELSE IF merged # main THEN IF n \in seen THEN "replaced" ELSE "superseded"
        ELSE Lands

(* stages.progress: a change carried by a newer release follows it; other settings replace it.  It is given the *)
(* action by its v2 name and compares it with "remove" and "promote": so a removal is one that has no records,  *)
(* and a promotion is followed like any other.                                                                  *)
Progress(n) ==
    LET merged == Tree(n)
        main == Tree(page.head)
    IN  IF ~merged.there THEN "historical"
        ELSE IF merged = main THEN Lands
        ELSE IF merged.settings # main.settings \/ merged.zero # main.zero
             THEN IF n \in seen THEN "replaced" ELSE "superseded"
        ELSE IF n \in seen /\ Lands \notin Reached THEN "replaced" ELSE Lands

(* faulty: the newest change is left to the next page. *)
JudgedLate == Tracked \cap 1 .. page.known - 1

(* The changes a page draws: those among the pull requests it listed. *)
Judged == Tracked \cap 1 .. page.known

(* The page draws each change, and records the first time one is at its end; a save that fails is not tried again. *)
PageJudges ==
    /\ page.step = "judge"
    /\ \E says \in {[n \in Judged |-> Progress(n)]} :
       \E ends \in {{n \in Judged : says[n] \in Reached}} :
          /\ shown' = [n \in Commits |-> IF n \in Judged THEN says[n] ELSE shown[n]]
          /\ seen' = seen \cup ends
          /\ \/ kept' = kept \cup (ends \ seen) /\ told' = told \cup (ends \ seen) /\ UNCHANGED trouble
             \/ ends \ seen # {} /\ Troubled /\ UNCHANGED <<kept, told>>
    /\ page' = NoPage
    /\ UNCHANGED <<log, cluster, ran>>

(* A console that starts knows what its store holds. *)
Restart ==
    /\ seen # kept
    /\ seen' = kept /\ page' = NoPage
    /\ UNCHANGED <<log, cluster, ran, shown, kept, told, trouble>>

-----------------------------------------------------------------------------
(* What goes on by itself: Flux and Helm retry, the kubelet starts what crashed, a person resumes what was *)
(* suspended, and an open page reads itself again every 30 seconds. *)
Applying ==
    \/ UnitCreated \/ Reconcile \/ UnitReady \/ Prune \/ Resume
    \/ Upgrade \/ Settle \/ Uninstall
    \/ RollsOut \/ PodUp \/ PodGone

Failures == UnitTimesOut \/ Suspend \/ UpgradeFails \/ PodBreaks

Page == PagePulls \/ PagePins \/ PageReads \/ PageJudges

Next == Merge \/ Applying \/ Failures \/ Page \/ Restart

Spec == Init /\ [][Next]_vars

FairSpec == Spec /\ WF_vars(Applying) /\ WF_vars(Page)

-----------------------------------------------------------------------------
TypeOK ==
    /\ Last \in Commits /\ trouble \in 0 .. MaxTrouble
    /\ unit.applied \in 0 .. Last /\ unit.trying \in 0 .. Last
    /\ release.seen <= release.gen /\ Cardinality(pods) <= 3
    /\ seen \cup kept \cup told \cup ran \subseteq 1 .. Last
    /\ \A n \in Commits : shown[n] \in Reached \cup {"nothing", "replaced", "superseded", "historical", "failing", "held", "unread", "applying"}

(* What a page says is live has run whole: some commit with the settings of a change it calls live has, and   *)
(* if main stood still while it read, the newest one.  Six reads made one after another, while Flux and Helm *)
(* go on, never add up to an instance that never was (explain.go, state.go, changes.go, stages.py).  A       *)
(* change back to earlier settings may be called live for what ran before it.                                *)
LiveRan ==
    /\ \A c \in Commits : shown[c] = "live" =>
         \E n \in ran : Tree(n).settings = Tree(c).settings /\ Tree(n).zero = Tree(c).zero
    /\ (page.step = "judge" /\ page.head = Last /\ Tree(page.head).there /\ State = "healthy") => page.head \in ran

(* A change that a page said was at its end is never said later to have been superseded before it got there, *)
(* whatever replaces it and however often the console restarts, unless saving that failed.                   *)
NeverUnsaid == \A c \in told : shown[c] # "superseded"

(* What is said to be superseded was replaced on main: a page never takes a main it read earlier for a newer one. *)
SupersededWasReplaced ==
    \A c \in Commits : shown[c] = "superseded" =>
        \E n \in c + 1 .. Last : Tree(n).settings # Tree(c).settings \/ Tree(n).zero # Tree(c).zero

(* What a page says of a change is neither taken back nor said too early. *)
PagesAgree == NeverUnsaid /\ SupersededWasReplaced

Done == Reached \cup {"replaced", "superseded"}

(* Every merged change that leaves the instance is in the end shown at its end, and stays there.  A removal is *)
(* not: its page calls it historical from the first on (RemovedIsGone).                                        *)
ChangesSettle == \A c \in Commits : <>[](c \in Tracked /\ log[c].kind # "remove" => shown[c] \in Done)

-----------------------------------------------------------------------------
(* What the console's documentation says of it, and what it does not do.   *)

(* A removal that nothing replaced is drawn among what is finished only when the unit and the release are gone; *)
(* an uninstalling release keeps it in progress.                                                                *)
RemovedIsGone ==
    (Last \in Tracked /\ log[Last].kind = "remove" /\ shown[Last] \in Done \cup {"historical"}) => ~unit.there /\ ~release.there
=============================================================================
