---------------------------- MODULE LandingProofs ----------------------------
(***************************************************************************)
(* What a page of the console says of a change is so: what it calls live   *)
(* has run, and is neither taken back nor said too early; for any number   *)
(* of changes of any kinds, and of troubles.                               *)
(*                                                                         *)
(* The argument: a release that is settled at the spec it was given has    *)
(* its own pod and no other, so a commit that a unit has applied has run;  *)
(* and while main stands still, what each read of a page found stays so    *)
(* until the next: the release keeps the newest tree once it has it, stays *)
(* settled once it is, and its one pod, once up, is what runs.             *)
(***************************************************************************)
EXTENDS Landing, SequenceTheorems, FiniteSetTheorems, TLAPS

Trees == {NoTree} \cup [there : {TRUE}, image : {1, 2}, settings : {1, 2}, zero : BOOLEAN, render : {1, 2}]
KindNames == {"edit", "scale", "promote", "remove", "create", "deploy", "around", "other"}
Conditions == {"none", "Unknown", "True", "False"}
Lists == {"unit", "release", "workload", "pods"}

UnitType == [there : BOOLEAN, suspended : BOOLEAN, stale : BOOLEAN, ready : Conditions, applied : Nat, trying : Nat]
ReleaseType == [there : BOOLEAN, deleting : BOOLEAN, spec : Trees, gen : Nat, seen : Nat, ready : Conditions]
DepType == [there : BOOLEAN, spec : Trees, current : BOOLEAN]
PodType == [of : Trees, is : {"new", "up", "broken"}]

Types ==
    /\ log \in Seq([kind : KindNames, tree : Trees]) /\ Last >= 1
    /\ unit \in UnitType
    /\ unit.applied <= Last /\ unit.trying <= Last
    /\ release \in ReleaseType
    /\ dep \in DepType
    /\ pods \in SUBSET PodType
    /\ ran \in SUBSET (1 .. Last)

(* Every commit the cluster runs now counts as run.                        *)
RunsCount == \A n \in 1 .. Last : Running = Tree(n) => n \in ran

HasRun(tree) == \E n \in ran : Tree(n) = tree
Settled == release.ready = "True" /\ release.seen = release.gen
Sent(n) == release.there /\ ~release.deleting /\ release.spec = Tree(n)

(* The one pod of a settled release, up or not.                            *)
OwnPod ==
    /\ dep.current
    /\ dep.spec.zero => pods = {}
    /\ ~dep.spec.zero => \E pod \in pods : pods = {pod} /\ pod.of = dep.spec

(* How the release follows main, and the Deployment the release.           *)
ReleaseFollows ==
    /\ release.there => \E n \in 1 .. Last : release.spec = Tree(n)
    /\ release.seen <= release.gen
    /\ release.there /\ release.seen = release.gen => dep.there /\ dep.spec = release.spec
    /\ ~release.there => release.ready = "none"
    /\ Settled => OwnPod /\ HasRun(release.spec)

(* How the unit does.                                                      *)
UnitFollows ==
    /\ unit.trying # 0 => unit.ready = "Unknown" /\ Sent(unit.trying)
    /\ unit.ready = "True" => unit.applied # 0 /\ Sent(unit.applied)
    /\ unit.applied # 0 => HasRun(Tree(unit.applied))

Follows == ReleaseFollows /\ UnitFollows

-----------------------------------------------------------------------------
(* Types.                                                                  *)

LEMMA TreesGoOn ==
    ASSUME NEW tree \in Trees, NEW kind \in KindNames, tree.there # (kind = "create")
    PROVE  Becomes(kind, tree) \in Trees
  <1>1. CASE kind = "create"
    BY <1>1 DEF Trees, Becomes, First
  <1>2. CASE kind \in {"remove", "other"}
    BY <1>2 DEF Trees, Becomes
  <1>3. CASE kind \notin {"create", "remove", "other"}
    <2>1. tree \in [there : {TRUE}, image : {1, 2}, settings : {1, 2}, zero : BOOLEAN, render : {1, 2}]
      <3>1. tree.there # FALSE
        BY <1>3
      <3>2. tree # NoTree
        <4>1. NoTree.there = FALSE
          BY DEF NoTree
        <4> QED
          BY <3>1, <4>1
      <3> QED
        BY <3>2 DEF Trees
    <2>2. CASE kind = "edit"
      <3>1. Becomes(kind, tree) = [tree EXCEPT !.settings = Other(tree.settings)]
        BY <2>2 DEF Becomes
      <3>2. Other(tree.settings) \in {1, 2}
        BY <2>1 DEF Other
      <3> QED
        BY <2>1, <3>1, <3>2 DEF Trees
    <2>3. CASE kind = "scale"
      BY <2>1, <2>3 DEF Trees, Becomes
    <2>4. CASE kind \in {"deploy", "promote"}
      <3>1. Becomes(kind, tree) = [tree EXCEPT !.image = Other(tree.image)]
        BY <2>4 DEF Becomes
      <3>2. Other(tree.image) \in {1, 2}
        BY <2>1 DEF Other
      <3> QED
        BY <2>1, <3>1, <3>2 DEF Trees
    <2>5. CASE kind = "around"
      <3>1. Becomes(kind, tree) = [tree EXCEPT !.render = Other(tree.render)]
        BY <2>5 DEF Becomes
      <3>2. Other(tree.render) \in {1, 2}
        BY <2>1 DEF Other
      <3> QED
        BY <2>1, <3>1, <3>2 DEF Trees
    <2> QED
      BY <1>3, <2>2, <2>3, <2>4, <2>5 DEF KindNames
  <1> QED
    BY <1>1, <1>2, <1>3

(* main only grows: a commit's tree stays what it was.                     *)
LEMMA CommitsStay ==
    ASSUME Types, log' = log \/ \E entry \in [kind : KindNames, tree : Trees] : log' = Append(log, entry)
    PROVE  /\ Last' \in Nat /\ Last <= Last'
           /\ \A n \in 1 .. Last : n \in 1 .. Last' /\ Tree(n)' = Tree(n)
  BY DEF Types, Last, Tree

LEMMA MergeGrows ==
    ASSUME Types, Merge
    PROVE  \E entry \in [kind : KindNames, tree : Trees] : log' = Append(log, entry)
  <1>1. PICK kind \in Kinds[Last] : /\ Tree(Last).there # (kind = "create")
                                    /\ log' = Append(log, [kind |-> kind, tree |-> Becomes(kind, Tree(Last))])
    BY DEF Merge
  <1>2. kind \in KindNames
    BY <1>1, KindsAreKinds DEF Merge, KindNames
  <1>3. Tree(Last) \in Trees
    <2>1. Last \in 1 .. Len(log)
      BY DEF Types, Last
    <2>2. log \in Seq([kind : KindNames, tree : Trees])
      BY DEF Types
    <2>3. log[Last] \in [kind : KindNames, tree : Trees]
      BY <2>1, <2>2, ElementOfSeq
    <2> QED
      BY <2>3 DEF Tree
  <1>4. Becomes(kind, Tree(Last)) \in Trees
    BY <1>1, <1>2, <1>3, TreesGoOn
  <1> QED
    BY <1>1, <1>2, <1>4

LEMMA LogMoves ==
    ASSUME Types, [Next]_vars
    PROVE  log' = log \/ \E entry \in [kind : KindNames, tree : Trees] : log' = Append(log, entry)
  <1>1. CASE Merge
    BY <1>1, MergeGrows
  <1>2. CASE UNCHANGED vars
    BY <1>2 DEF vars
  <1>3. CASE Applying \/ Failures \/ Page \/ Restart
    BY <1>3 DEF Applying, Failures, Page, Restart, UnitCreated, Reconcile, UnitReady, Prune, Resume, Upgrade, Settle,
                Uninstall, RollsOut, PodUp, PodGone, UnitTimesOut, Suspend, UpgradeFails, PodBreaks, PagePulls, PagePins,
                PageReads, PageJudges
  <1> QED
    BY <1>1, <1>2, <1>3 DEF Next

LEMMA RanGrows ==
    ASSUME Types, [Next]_vars
    PROVE  ran \subseteq ran' /\ (ran' = ran \/ Records)
  BY DEF Next, Merge, Records, vars, cluster,
         Applying, Failures, Page, Restart, UnitCreated, Reconcile, UnitReady, Prune, Resume, Upgrade, Settle,
         Uninstall, RollsOut, PodUp, PodGone, UnitTimesOut, Suspend, UpgradeFails, PodBreaks, PagePulls, PagePins,
         PageReads, PageJudges

LEMMA HasRunStays ==
    ASSUME Types, [Next]_vars, NEW tree, HasRun(tree)
    PROVE  HasRun(tree)'
  <1>1. PICK n \in ran : Tree(n) = tree
    BY DEF HasRun
  <1>2. n \in ran' /\ n \in 1 .. Last
    BY RanGrows DEF Types
  <1>3. Tree(n)' = Tree(n)
    BY <1>2, LogMoves, CommitsStay
  <1> QED
    BY <1>1, <1>2, <1>3 DEF HasRun

LEMMA ClusterTyped ==
    ASSUME Types, Tree(Last) \in Trees, Applying \/ Failures
    PROVE  /\ log' = log
           /\ unit' \in UnitType
           /\ unit'.applied <= Last /\ unit'.trying <= Last
           /\ release' \in ReleaseType
           /\ dep' \in DepType
           /\ pods' \in SUBSET PodType
           /\ Records
  <1> Last \in Nat
    BY DEF Types, Last
  <1> NoTree \in Trees
    BY DEF Trees
  <1>0. /\ unit \in UnitType /\ unit.applied <= Last /\ unit.trying <= Last
        /\ release \in ReleaseType /\ dep \in DepType /\ pods \in SUBSET PodType
    BY DEF Types
  <1>1. CASE UnitCreated
    <2>1. unit' \in UnitType /\ unit'.applied = 0 /\ unit'.trying = 0
      BY <1>0, <1>1 DEF UnitCreated, UnitType, Conditions, NoUnit
    <2>2. release' \in ReleaseType
      BY <1>0, <1>1 DEF UnitCreated
    <2> QED
      BY <1>0, <1>1, <2>1, <2>2 DEF UnitCreated
  <1>2. CASE Reconcile
    <2>1. unit' \in UnitType /\ unit'.applied = unit.applied /\ unit'.trying = Last
      BY <1>0, <1>2 DEF Reconcile, UnitType, Conditions
    <2>2. release' \in ReleaseType
      <3>1. CASE ~release.there
        <4>1. NoRelease \in ReleaseType
          BY DEF NoRelease, ReleaseType, Conditions
        <4>2. release' = [NoRelease EXCEPT !.there = TRUE, !.spec = Tree(Last), !.gen = 1]
          BY <1>2, <3>1 DEF Reconcile
        <4> QED
          BY <4>1, <4>2 DEF ReleaseType
      <3>2. CASE release.there /\ release.spec # Tree(Last)
        <4>1. release' = [release EXCEPT !.spec = Tree(Last), !.gen = @ + 1]
          BY <1>2, <3>2 DEF Reconcile
        <4>2. release.gen + 1 \in Nat
          BY <1>0 DEF ReleaseType
        <4> QED
          BY <1>0, <4>1, <4>2 DEF ReleaseType
      <3>3. CASE release.there /\ release.spec = Tree(Last)
        BY <1>0, <1>2, <3>3 DEF Reconcile
      <3> QED
        BY <3>1, <3>2, <3>3
    <2> QED
      BY <1>0, <1>2, <2>1, <2>2 DEF Reconcile
  <1>3. CASE UnitReady
    <2>1. unit' \in UnitType /\ unit'.applied = unit.trying /\ unit'.trying = 0
      BY <1>0, <1>3 DEF UnitReady, UnitType, Conditions
    <2>2. release' \in ReleaseType
      BY <1>0, <1>3 DEF UnitReady
    <2> QED
      BY <1>0, <1>3, <2>1, <2>2 DEF UnitReady
  <1>4. CASE UnitTimesOut
    <2>1. unit' \in UnitType /\ unit'.applied = unit.applied /\ unit'.trying = 0
      BY <1>0, <1>4 DEF UnitTimesOut, UnitType, Conditions
    <2>2. release' \in ReleaseType
      BY <1>0, <1>4 DEF UnitTimesOut
    <2> QED
      BY <1>0, <1>4, <2>1, <2>2 DEF UnitTimesOut
  <1>5. CASE Prune
    BY <1>0, <1>5 DEF Prune, UnitType, ReleaseType, Conditions, NoUnit
  <1>6. CASE Suspend
    <2>1. unit' \in UnitType /\ unit'.applied = unit.applied /\ unit'.trying = 0
      BY <1>0, <1>6 DEF Suspend, UnitType, Conditions
    <2>2. release' \in ReleaseType
      BY <1>0, <1>6 DEF Suspend
    <2> QED
      BY <1>0, <1>6, <2>1, <2>2 DEF Suspend
  <1>7. CASE Resume
    BY <1>0, <1>7 DEF Resume, UnitType
  <1>8. CASE Upgrade
    BY <1>0, <1>8 DEF Upgrade, ReleaseType, DepType, Conditions
  <1>9. CASE Settle
    BY <1>0, <1>9 DEF Settle, ReleaseType, Conditions
  <1>10. CASE UpgradeFails
    BY <1>0, <1>10 DEF UpgradeFails, ReleaseType, Conditions
  <1>11. CASE Uninstall
    BY <1>0, <1>11 DEF Uninstall, ReleaseType, DepType, Conditions, NoRelease, NoDep
  <1>12. CASE RollsOut
    <2>1. dep' \in DepType
      BY <1>0, <1>12 DEF RollsOut, DepType
    <2>2. [of |-> dep.spec, is |-> "new"] \in PodType
      BY <1>0 DEF DepType, PodType
    <2>3. pods' \in SUBSET PodType
      BY <1>0, <1>12, <2>2 DEF RollsOut
    <2> QED
      BY <1>0, <1>12, <2>1, <2>3 DEF RollsOut
  <1>13. CASE PodUp
    BY <1>0, <1>13 DEF PodUp, PodType
  <1>14. CASE PodBreaks
    BY <1>0, <1>14 DEF PodBreaks, PodType
  <1>15. CASE PodGone
    BY <1>0, <1>15 DEF PodGone, PodType
  <1> QED
    BY <1>1, <1>2, <1>3, <1>4, <1>5, <1>6, <1>7, <1>8, <1>9, <1>10, <1>11, <1>12, <1>13, <1>14, <1>15
       DEF Applying, Failures

LEMMA NewestTree ==
    ASSUME Types, NEW n \in 1 .. Last
    PROVE  Tree(n) \in Trees
  <1>1. n \in 1 .. Len(log) /\ log \in Seq([kind : KindNames, tree : Trees])
    BY DEF Types, Last
  <1>2. log[n] \in [kind : KindNames, tree : Trees]
    BY <1>1, ElementOfSeq
  <1> QED
    BY <1>2 DEF Tree

LEMMA PageMoves ==
    ASSUME Page \/ Restart \/ UNCHANGED vars
    PROVE  UNCHANGED <<log, unit, release, dep, pods, ran>>
  BY DEF Page, Restart, PagePulls, PagePins, PageReads, PageJudges, vars, cluster

LEMMA TypesNext ==
    ASSUME Types, [Next]_vars
    PROVE  Types'
  <1> DEFINE S == [kind : KindNames, tree : Trees]
  <1>1. CASE Merge
    <2>1. PICK entry \in S : log' = Append(log, entry)
      BY <1>1, MergeGrows
    <2>2. log' \in Seq(S) /\ Len(log') = Len(log) + 1
      <3> HIDE DEF S
      <3>1. log \in Seq(S)
        BY DEF Types, S
      <3> QED
        BY <2>1, <3>1
    <2>3. UNCHANGED <<unit, release, dep, pods>> /\ Records
      BY <1>1 DEF Merge, cluster
    <2>4. ran' \subseteq 1 .. Last'
      <3>1. Last' = Last + 1 /\ Last \in Nat /\ ran \subseteq 1 .. Last
        BY <2>2 DEF Types, Last
      <3> QED
        <4>1. ran' \subseteq ran \cup 1 .. Last'
          BY <2>3 DEF Records, Last
        <4>2. 1 .. Last \subseteq 1 .. Last'
          BY <3>1
        <4> QED
          BY <3>1, <4>1, <4>2
    <2> QED
      <3>1. /\ unit \in UnitType /\ unit.applied <= Last /\ unit.trying <= Last
            /\ release \in ReleaseType /\ dep \in DepType /\ pods \in SUBSET PodType /\ Last \in Nat
        BY DEF Types, Last
      <3>2. unit' \in UnitType /\ unit'.applied <= Last' /\ unit'.trying <= Last'
        <4>1. Last' = Last + 1
          BY <2>2 DEF Last
        <4>2. unit.applied \in Nat /\ unit.trying \in Nat
          BY <3>1 DEF UnitType
        <4> QED
          BY <2>3, <3>1, <4>1, <4>2
      <3>3. log' \in Seq(S) /\ Last' >= 1
        BY <2>2, <3>1 DEF Last
      <3> QED
        BY <2>3, <2>4, <3>1, <3>2, <3>3 DEF Types
  <1>2. CASE Applying \/ Failures
    <2>1. Tree(Last) \in Trees
      BY NewestTree DEF Types, Last
    <2>2. ran' \subseteq 1 .. Last'
      BY <1>2, <2>1, ClusterTyped DEF Records, Types, Last
    <2> QED
      BY <1>2, <2>1, <2>2, ClusterTyped DEF Types, Last
  <1>3. CASE Page \/ Restart \/ UNCHANGED vars
    BY <1>3, PageMoves DEF Types, Last
  <1> QED
    BY <1>1, <1>2, <1>3 DEF Next

LEMMA RunsCountNext ==
    ASSUME Types, RunsCount, [Next]_vars
    PROVE  RunsCount'
  <1>1. CASE Records
    BY <1>1 DEF Records, RunsCount, Tree, Last
  <1>2. CASE ~Records
    <2>1. Page \/ Restart \/ UNCHANGED vars
      BY <1>2, NewestTree, ClusterTyped DEF Next, Merge, Types, Last
    <2> QED
      BY <2>1, PageMoves DEF RunsCount, Running, Wanted, Tree, Last
  <1> QED
    BY <1>1, <1>2

-----------------------------------------------------------------------------
(* The cluster follows main.                                               *)

LEMMA ClusterSteps ==
    ASSUME Applying \/ Failures
    PROVE  \/ UnitCreated \/ Reconcile \/ UnitReady \/ UnitTimesOut \/ Prune \/ Suspend \/ Resume
           \/ Upgrade \/ Settle \/ UpgradeFails \/ Uninstall
           \/ RollsOut \/ PodUp \/ PodBreaks \/ PodGone
  BY DEF Applying, Failures

(* A settled release's pod may break or come up, and stays its only one.   *)
LEMMA OwnPodStays ==
    ASSUME OwnPod, UNCHANGED dep, pods \in SUBSET PodType, PodUp \/ PodBreaks \/ PodGone
    PROVE  OwnPod'
  <1>1. CASE dep.spec.zero
    <2>1. pods = {}
      BY <1>1 DEF OwnPod
    <2> QED
      BY <2>1 DEF PodUp, PodBreaks, PodGone
  <1>2. CASE ~dep.spec.zero
    <2>1. PICK pod \in pods : pods = {pod} /\ pod.of = dep.spec
      BY <1>2 DEF OwnPod
    <2>2. CASE PodUp
      <3>1. pods' = {[pod EXCEPT !.is = "up"]}
        BY <2>1, <2>2 DEF PodUp
      <3>2. [pod EXCEPT !.is = "up"].of = dep.spec
        BY <2>1 DEF PodType
      <3> QED
        BY <1>2, <3>1, <3>2 DEF OwnPod
    <2>3. CASE PodBreaks
      <3>1. pods' = {[pod EXCEPT !.is = "broken"]}
        BY <2>1, <2>3 DEF PodBreaks
      <3>2. [pod EXCEPT !.is = "broken"].of = dep.spec
        BY <2>1 DEF PodType
      <3> QED
        BY <1>2, <3>1, <3>2 DEF OwnPod
    <2>4. CASE PodGone
      BY <1>2, <2>1, <2>4 DEF PodGone
    <2> QED
      BY <2>2, <2>3, <2>4
  <1> QED
    BY <1>1, <1>2

(* A release settles on the pods it asked for, so its tree has run.        *)
LEMMA SettlesOnItsOwn ==
    ASSUME Types, RunsCount, ReleaseFollows, Settle
    PROVE  OwnPod /\ HasRun(release.spec)
  <1>1. /\ release.there /\ release.seen = release.gen /\ dep.current /\ pods = Wanted
        /\ dep.there /\ dep.spec = release.spec
    BY DEF Settle, ReleaseFollows
  <1>2. PICK n \in 1 .. Last : release.spec = Tree(n)
    BY <1>1 DEF ReleaseFollows
  <1>3. Running = Tree(n)
    BY <1>1, <1>2 DEF Running
  <1>4. HasRun(release.spec)
    BY <1>2, <1>3 DEF RunsCount, HasRun
  <1>5. OwnPod
    BY <1>1 DEF OwnPod, Wanted
  <1> QED
    BY <1>4, <1>5

LEMMA TreesStay ==
    ASSUME Types, [Next]_vars
    PROVE  /\ \A n \in 1 .. Last : n \in 1 .. Last' /\ Tree(n)' = Tree(n)
           /\ Last' \in Nat /\ Last <= Last'
  BY LogMoves, CommitsStay

LEMMA ReleaseFollowsNext ==
    ASSUME Types, RunsCount, ReleaseFollows, [Next]_vars
    PROVE  ReleaseFollows'
  <1>0. /\ release \in ReleaseType /\ dep \in DepType /\ pods \in SUBSET PodType
        /\ Last \in 1 .. Last /\ Last \in Nat
    BY DEF Types, Last
  <1>1. /\ \A n \in 1 .. Last : n \in 1 .. Last' /\ Tree(n)' = Tree(n)
        /\ \A tree : HasRun(tree) => HasRun(tree)'
    BY TreesStay, HasRunStays
  <1>2. CASE UNCHANGED <<release, dep, pods>>
    BY <1>1, <1>2 DEF ReleaseFollows, OwnPod, Settled
  <1>3. CASE Reconcile
    <2>1. UNCHANGED <<log, dep, pods>>
      BY <1>3 DEF Reconcile
    <2>5. release'.there => \E n \in 1 .. Last' : release'.spec = Tree(n)'
      <3>1. CASE release'.spec = Tree(Last)
        BY <1>0, <2>1, <3>1 DEF Tree, Last
      <3>2. CASE UNCHANGED release
        BY <1>1, <3>2 DEF ReleaseFollows
      <3> QED
        BY <1>0, <1>3, <3>1, <3>2 DEF Reconcile, NoRelease, ReleaseType
    <2>2. CASE UNCHANGED release
      BY <1>2, <2>1, <2>2
    <2>3. CASE ~release.there
      <3>1. /\ release'.there /\ release'.spec = Tree(Last) /\ release'.gen = 1 /\ release'.seen = 0
            /\ release'.ready = "none"
        BY <1>3, <2>3 DEF Reconcile, NoRelease
      <3> QED
        BY <2>1, <2>5, <3>1 DEF ReleaseFollows, Settled
    <2>4. CASE release.there /\ release.spec # Tree(Last)
      <3>1. /\ release'.there /\ release'.spec = Tree(Last) /\ release'.gen = release.gen + 1
            /\ release'.seen = release.seen /\ release'.ready = release.ready
        BY <1>0, <1>3, <2>4 DEF Reconcile, ReleaseType
      <3>2. release'.seen <= release'.gen /\ release'.seen # release'.gen
        BY <1>0, <3>1 DEF ReleaseFollows, ReleaseType
      <3> QED
        BY <2>1, <2>5, <3>1, <3>2 DEF ReleaseFollows, Settled
    <2> QED
      BY <1>3, <2>2, <2>3, <2>4 DEF Reconcile
  <1>4. CASE Prune
    <2>1. /\ UNCHANGED <<dep, pods>> /\ release'.there = release.there /\ release'.spec = release.spec
          /\ release'.gen = release.gen /\ release'.seen = release.seen /\ release'.ready = release.ready
      BY <1>0, <1>4 DEF Prune, ReleaseType
    <2> QED
      BY <1>1, <2>1 DEF ReleaseFollows, OwnPod, Settled
  <1>5. CASE Upgrade
    <2>1. /\ release'.there /\ release'.spec = release.spec /\ release'.ready = "Unknown"
          /\ release'.gen = release.gen /\ release'.seen = release.gen /\ release.there
          /\ dep'.there /\ dep'.spec = release.spec
      BY <1>0, <1>5 DEF Upgrade, ReleaseType
    <2> QED
      BY <1>0, <1>1, <2>1 DEF ReleaseFollows, Settled, ReleaseType
  <1>6. CASE Settle
    <2>1. /\ UNCHANGED <<dep, pods>> /\ release'.there = release.there /\ release'.spec = release.spec
          /\ release'.gen = release.gen /\ release'.seen = release.seen
      BY <1>0, <1>6 DEF Settle, ReleaseType
    <2>2. OwnPod /\ HasRun(release.spec) /\ release.there
      BY <1>6, SettlesOnItsOwn DEF Settle
    <2> QED
      BY <1>1, <2>1, <2>2 DEF ReleaseFollows, OwnPod, Settled
  <1>7. CASE UpgradeFails
    <2>1. /\ UNCHANGED <<dep, pods>> /\ release'.there = release.there /\ release'.spec = release.spec
          /\ release'.gen = release.gen /\ release'.seen = release.seen /\ release'.ready = "False" /\ release.there
      BY <1>0, <1>7 DEF UpgradeFails, ReleaseType
    <2> QED
      BY <1>1, <2>1 DEF ReleaseFollows, Settled
  <1>8. CASE Uninstall
    BY <1>8 DEF Uninstall, ReleaseFollows, Settled, NoRelease
  <1>9. CASE RollsOut
    <2>1. /\ UNCHANGED release /\ ~dep.current /\ dep'.there = dep.there /\ dep'.spec = dep.spec
      BY <1>0, <1>9 DEF RollsOut, DepType
    <2>2. ~Settled
      BY <2>1 DEF ReleaseFollows, OwnPod
    <2> QED
      BY <1>1, <2>1, <2>2 DEF ReleaseFollows, Settled
  <1>10. CASE PodUp \/ PodBreaks \/ PodGone
    <2>1. UNCHANGED <<release, dep>>
      BY <1>10 DEF PodUp, PodBreaks, PodGone
    <2>2. OwnPod => OwnPod'
      BY <1>0, <1>10, <2>1, OwnPodStays
    <2> QED
      BY <1>1, <2>1, <2>2 DEF ReleaseFollows, Settled
  <1>11. CASE Merge \/ UnitCreated \/ UnitReady \/ UnitTimesOut \/ Suspend \/ Resume
    BY <1>2, <1>11 DEF Merge, UnitCreated, UnitReady, UnitTimesOut, Suspend, Resume, cluster
  <1>12. CASE Page \/ Restart \/ UNCHANGED vars
    BY <1>2, <1>12, PageMoves
  <1> QED
    BY <1>3, <1>4, <1>5, <1>6, <1>7, <1>8, <1>9, <1>10, <1>11, <1>12, ClusterSteps DEF Next

LEMMA UnitFollowsNext ==
    ASSUME Types, ReleaseFollows, UnitFollows, [Next]_vars
    PROVE  UnitFollows'
  <1>0. /\ unit \in UnitType /\ unit.applied <= Last /\ unit.trying <= Last /\ release \in ReleaseType
        /\ Last \in 1 .. Last /\ Last \in Nat
    BY DEF Types, Last
  <1>1. /\ \A n \in 1 .. Last : Tree(n)' = Tree(n)
        /\ \A tree : HasRun(tree) => HasRun(tree)'
    BY TreesStay, HasRunStays
  <1>2. unit.applied # 0 => unit.applied \in 1 .. Last
    BY <1>0 DEF UnitType
  <1>3. unit.trying # 0 => unit.trying \in 1 .. Last
    BY <1>0 DEF UnitType
  <1>4. unit'.applied = unit.applied /\ unit.applied # 0 => HasRun(Tree(unit.applied))'
    BY <1>1, <1>2 DEF UnitFollows, HasRun, Tree
  <1>5. CASE /\ UNCHANGED unit
             /\ release'.there = release.there /\ release'.deleting = release.deleting /\ release'.spec = release.spec
    BY <1>1, <1>2, <1>3, <1>4, <1>5 DEF UnitFollows, Sent, Tree
  <1>6. CASE Reconcile
    <2>1. unit'.trying = Last /\ unit'.ready = "Unknown" /\ unit'.applied = unit.applied
      BY <1>0, <1>6 DEF Reconcile, UnitType
    <2>2. release'.there /\ ~release'.deleting /\ release'.spec = Tree(Last)
      BY <1>0, <1>6 DEF Reconcile, ReleaseType, NoRelease
    <2>3. log' = log
      BY <1>6 DEF Reconcile
    <2> QED
      BY <1>4, <2>1, <2>2, <2>3 DEF UnitFollows, Sent, Tree, Last
  <1>7. CASE UnitReady
    <2>1. unit'.trying = 0 /\ unit'.applied = unit.trying /\ unit.trying # 0
      BY <1>0, <1>7 DEF UnitReady, UnitType
    <2>2. UNCHANGED <<log, release>> /\ Settled
      BY <1>7 DEF UnitReady, Settled
    <2>3. HasRun(Tree(unit.trying))
      BY <2>1, <2>2 DEF UnitFollows, ReleaseFollows, Sent
    <2>4. \E n \in ran' : log[n].tree = log[unit.trying].tree
      BY RanGrows, <2>2, <2>3, <2>1 DEF HasRun, Tree, UnitReady
    <2>5. unit'.ready = "True" /\ Sent(unit.trying)
      BY <1>0, <1>7, <2>1 DEF UnitReady, UnitFollows, UnitType
    <2> QED
      BY <2>1, <2>2, <2>4, <2>5 DEF UnitFollows, Sent, HasRun, Tree
  <1>8. CASE UnitCreated \/ Prune
    BY <1>8 DEF UnitCreated, Prune, UnitFollows, NoUnit
  <1>9. CASE UnitTimesOut \/ Suspend \/ Resume
    <2>1. /\ UNCHANGED <<log, release>> /\ unit'.applied = unit.applied
          /\ unit'.trying = 0 \/ (unit'.trying = unit.trying /\ unit'.ready = unit.ready)
          /\ unit'.ready \in {"False", unit.ready}
      BY <1>0, <1>9 DEF UnitTimesOut, Suspend, Resume, UnitType
    <2> QED
      BY <1>4, <2>1 DEF UnitFollows, Sent, Tree
  <1>10. CASE Uninstall
    BY <1>4, <1>10 DEF Uninstall, UnitFollows, Sent
  <1>11. CASE Upgrade \/ Settle \/ UpgradeFails
    BY <1>0, <1>5, <1>11 DEF Upgrade, Settle, UpgradeFails, ReleaseType
  <1>12. CASE Merge \/ RollsOut \/ PodUp \/ PodBreaks \/ PodGone
    BY <1>5, <1>12 DEF Merge, cluster, RollsOut, PodUp, PodBreaks, PodGone
  <1>13. CASE Page \/ Restart \/ UNCHANGED vars
    BY <1>5, <1>13, PageMoves
  <1> QED
    BY <1>6, <1>7, <1>8, <1>9, <1>10, <1>11, <1>12, <1>13, ClusterSteps DEF Next

LEMMA FollowsNext ==
    ASSUME Types, RunsCount, Follows, [Next]_vars
    PROVE  Follows'
  BY ReleaseFollowsNext, UnitFollowsNext DEF Follows

-----------------------------------------------------------------------------
(* A page's reads.                                                         *)

Steps == {"unit", "release", "workload", "pods", "judge"}
Answered(step) ==
    CASE step = "unit" -> {}
      [] step = "release" -> {"unit", "revision"}
      [] step = "workload" -> {"unit", "revision", "release"}
      [] step \in {"pods", "judge"} -> {"unit", "revision", "release", "workload", "ready", "replicas"}

Parts == {"step", "known", "head", "compared", "down", "found", "problems"}

PageTyped ==
    /\ page.step \in {"none", "pulls"} \cup Steps
    /\ page.step = "pulls" => page.known \in 1 .. Last
    /\ page.step \in Steps =>
         /\ DOMAIN page = Parts
         /\ page.head \in 1 .. Last /\ page.known \in 1 .. page.head
         /\ page.step # "judge" => Tree(page.head).there
         /\ Tree(page.head).there => Answered(page.step) \subseteq DOMAIN page.found

Fine(found, fields) == \A field \in fields : found[field].outcome \in Positive

(* What each read that found all well still says of the cluster.           *)
PageTrue ==
    /\ page.step = "unit" =>
         ((page.compared.complete /\ ~page.compared.relevant) =>
             (page.compared.from \in 1 .. page.head /\ Tree(page.compared.from) = Tree(page.head)))
    /\ page.step \in Steps \ {"unit"} /\ Tree(page.head).there /\ Fine(page.found, {"unit", "revision"}) =>
         HasRun(Tree(page.head)) /\ (page.head = Last => Sent(page.head))
    /\ (page.step \in {"workload", "pods", "judge"} /\ Tree(page.head).there /\ page.head = Last
        /\ Fine(page.found, {"unit", "revision", "release"})) => Settled
    /\ (page.step \in {"pods", "judge"} /\ Tree(page.head).there /\ ~Tree(page.head).zero /\ page.head = Last
        /\ Fine(page.found, {"unit", "revision", "release", "replicas"})) => page.head \in ran

LEMMA Joined ==
    ASSUME NEW f, NEW g
    PROVE  /\ DOMAIN With(f, g) = DOMAIN f \cup DOMAIN g
           /\ \A x \in DOMAIN g : With(f, g)[x] = g[x]
           /\ \A x \in DOMAIN f \ DOMAIN g : With(f, g)[x] = f[x]
  BY DEF With

LEMMA FluxPositive ==
    ASSUME NEW ok \in BOOLEAN, NEW there \in BOOLEAN, NEW flux, NEW positive, NEW negative, negative \notin Positive,
           FluxFinding(FromList(ok, there, flux), positive, negative).outcome \in Positive
    PROVE  flux.ready = "True" /\ flux.current
  BY DEF FluxFinding, FromList, FluxReadiness, Finding, Positive

LEMMA RevisionPositive ==
    ASSUME NEW ok \in BOOLEAN, NEW there \in BOOLEAN, NEW flux, NEW target, NEW compared,
           UnitFindings(FromList(ok, there, flux), target, compared).revision.outcome \in Positive
    PROVE  /\ flux.applied # 0
           /\ \/ flux.applied = target.revision
              \/ /\ compared.from = flux.applied /\ compared.complete /\ ~compared.relevant
  BY DEF UnitFindings, FromList, Currentness, RevisionFinding, Finding, Positive

LEMMA ReplicasPositive ==
    ASSUME NEW ok \in BOOLEAN, NEW there \in BOOLEAN, NEW workload, NEW target,
           WorkloadFindings(FromList(ok, there, workload), target).replicas.outcome \in Positive
    PROVE  workload.replicas = target.replicas
  BY DEF WorkloadFindings, FromList, ReplicasFinding, Gated, Finding, Positive

(* Only a page whose every finding is positive is of a healthy instance.   *)
LEMMA HealthyIsFine ==
    ASSUME NEW found, NEW problems, NEW target, StateOf(found, problems, target) = "healthy"
    PROVE  target.replicas # 0 /\ Fine(found, Fields)
  BY DEF StateOf, Fine

LEMMA ReadMoves ==
    ASSUME PageTyped, PageReads
    PROVE  /\ page'.step = After(page.step) /\ page'.head = page.head /\ page'.known = page.known
           /\ DOMAIN page' = DOMAIN page
           /\ \E ok \in BOOLEAN : page'.found = With(page.found, Found(page.step, ok))
           /\ UNCHANGED <<log, unit, release, dep, pods, ran>>
  <1>1. DOMAIN page = Parts
    BY DEF PageTyped, PageReads, Steps
  <1>2. UNCHANGED <<log, unit, release, dep, pods, ran>>
    BY DEF PageReads, cluster
  <1>3. PICK ok \in BOOLEAN, down \in BOOLEAN : \E more \in {Found(page.step, ok)} :
          page' = [page EXCEPT !.step = After(page.step), !.down = down,
                               !.compared = IF page.step = "unit" THEN << >> ELSE @,
                               !.found = With(@, more),
                               !.problems = page.step = "pods" /\ Problems(FromList(ok, TRUE, Pods))]
    BY DEF PageReads
  <1> QED
    BY <1>1, <1>2, <1>3 DEF Parts

LEMMA FoundFields ==
    ASSUME NEW ok \in BOOLEAN
    PROVE  /\ DOMAIN Found("unit", ok) = {"unit", "revision"}
           /\ DOMAIN Found("release", ok) = {"release"}
           /\ DOMAIN Found("workload", ok) = {"workload", "ready", "replicas"}
           /\ DOMAIN Found("pods", ok) = {"image"}
  BY DEF Found, UnitFindings, ReleaseFindings, WorkloadFindings

LEMMA PageTypedNext ==
    ASSUME Types, PageTyped, [Next]_vars
    PROVE  PageTyped'
  <1>1. /\ \A n \in 1 .. Last : n \in 1 .. Last' /\ Tree(n)' = Tree(n)
        /\ Last' \in Nat /\ Last <= Last' /\ Last \in 1 .. Last /\ Last \in Nat
    BY TreesStay DEF Types, Last
  <1>2. CASE UNCHANGED page
    <2>1. CASE page.step \in Steps
      <3>1. Tree(page.head)' = Tree(page.head) /\ page.head \in 1 .. Last'
        BY <1>1, <1>2, <2>1 DEF PageTyped, Tree
      <3> QED
        BY <1>2, <2>1, <3>1 DEF PageTyped, Tree, Steps
    <2>2. CASE page.step = "pulls"
      BY <1>1, <1>2, <2>2 DEF PageTyped, Steps
    <2>3. CASE page.step = "none"
      BY <1>2, <2>3 DEF PageTyped, Steps
    <2> QED
      BY <2>1, <2>2, <2>3 DEF PageTyped
  <1>3. CASE PagePulls
    <2>1. page' = [step |-> "pulls", known |-> Last] /\ log' = log
      BY <1>3 DEF PagePulls
    <2> QED
      BY <1>1, <2>1 DEF PageTyped, Steps, Last
  <1>4. CASE PagePins
    <2>1. log' = log /\ page.step = "pulls" /\ page.known \in 1 .. Last
      BY <1>4 DEF PagePins, PageTyped
    <2>2. PICK read \in BOOLEAN :
            page' = [step |-> IF Tree(Last).there THEN "unit" ELSE "judge", known |-> page.known, head |-> Last,
                     compared |-> Comparison(unit.applied, Last, read), down |-> FALSE,
                     found |-> << >>, problems |-> FALSE]
      BY <1>4 DEF PagePins
    <2>3. /\ page'.step = (IF Tree(Last).there THEN "unit" ELSE "judge") /\ page'.known = page.known
          /\ page'.head = Last /\ DOMAIN page' = Parts
      BY <2>2 DEF Parts
    <2> QED
      BY <1>1, <2>1, <2>3 DEF PageTyped, Steps, Last, Tree, Answered
  <1>5. CASE PageReads
    <2>1. /\ page'.step = After(page.step) /\ page'.head = page.head /\ page'.known = page.known
          /\ DOMAIN page' = DOMAIN page /\ log' = log /\ page.step \in Lists
      BY <1>5, ReadMoves DEF PageReads, Lists
    <2>2. PICK ok \in BOOLEAN : page'.found = With(page.found, Found(page.step, ok))
      BY <1>5, ReadMoves
    <2>3. DOMAIN page'.found = DOMAIN page.found \cup DOMAIN Found(page.step, ok)
      BY <2>2, Joined
    <2>4. page.step \in Steps /\ page.step # "judge" /\ After(page.step) \in Steps
      BY <2>1 DEF Lists, Steps, After
    <2>5. Tree(page.head)' = Tree(page.head) /\ Last' = Last
      BY <2>1 DEF Tree, Last
    <2>6. Answered(page.step) \subseteq DOMAIN page.found
      BY <2>4 DEF PageTyped
    <2>7. Answered(After(page.step)) \subseteq Answered(page.step) \cup DOMAIN Found(page.step, ok)
      BY <2>1, FoundFields DEF Answered, After, Lists
    <2> QED
      BY <2>1, <2>3, <2>4, <2>5, <2>6, <2>7 DEF PageTyped, Steps
  <1>6. CASE PageJudges \/ Restart
    BY <1>6 DEF PageJudges, Restart, NoPage, PageTyped, Steps
  <1>7. CASE Merge \/ Applying \/ Failures \/ UNCHANGED vars
    BY <1>2, <1>7, ClusterSteps DEF Merge, console, vars, UnitCreated, Reconcile, UnitReady, Prune, Resume, Upgrade, Settle,
       Uninstall, RollsOut, PodUp, PodGone, UnitTimesOut, Suspend, UpgradeFails, PodBreaks
  <1> QED
    BY <1>3, <1>4, <1>5, <1>6, <1>7 DEF Next, Page

(* While main stands still, a release that has its newest tree keeps it,   *)
(* and stays settled once it is.                                           *)
LEMMA StandsStill ==
    ASSUME Types, ReleaseFollows, [Next]_vars, NEW n \in 1 .. Last, n = Last', Tree(n).there, Sent(n)
    PROVE  Sent(n)' /\ (Settled => Settled')
  <1>0. release \in ReleaseType /\ n \in Nat /\ Last \in Nat
    BY DEF Types, Last
  <1>1. n = Last /\ Tree(n)' = Tree(n)
    BY <1>0, TreesStay
  <1>2. CASE UNCHANGED release
    BY <1>1, <1>2 DEF Sent, Settled
  <1>3. CASE Merge \/ Prune \/ Uninstall
    <2>1. ~Prune /\ ~Uninstall
      BY <1>1 DEF Prune, Uninstall, Sent
    <2> QED
      BY <1>2, <1>3, <2>1 DEF Merge, cluster
  <1>4. CASE Reconcile
    BY <1>1, <1>2, <1>4 DEF Reconcile, Sent
  <1>5. CASE Upgrade
    <2>1. ~Settled
      BY <1>5 DEF Upgrade, Settled
    <2> QED
      BY <1>0, <1>1, <1>5, <2>1 DEF Upgrade, Sent, ReleaseType
  <1>6. CASE Settle \/ UpgradeFails
    BY <1>0, <1>1, <1>6 DEF Settle, UpgradeFails, Sent, Settled, ReleaseType
  <1>7. CASE UnitCreated \/ UnitReady \/ UnitTimesOut \/ Suspend \/ Resume \/ RollsOut \/ PodUp \/ PodBreaks \/ PodGone
    BY <1>2, <1>7 DEF UnitCreated, UnitReady, UnitTimesOut, Suspend, Resume, RollsOut, PodUp, PodBreaks, PodGone
  <1>8. CASE Page \/ Restart \/ UNCHANGED vars
    BY <1>2, <1>8, PageMoves
  <1> QED
    BY <1>3, <1>4, <1>5, <1>6, <1>7, <1>8, ClusterSteps DEF Next

(* The one pod of a settled release is what runs, once it is up.           *)
LEMMA OwnPodUpRuns ==
    ASSUME Types, RunsCount, ReleaseFollows, NEW n \in 1 .. Last, Sent(n), Settled, ~Tree(n).zero, Up = 1
    PROVE  n \in ran
  <1>1. dep.there /\ dep.spec = Tree(n) /\ OwnPod
    BY DEF ReleaseFollows, Sent, Settled
  <1>2. PICK pod \in pods : pods = {pod}
    BY <1>1 DEF OwnPod
  <1>3. pod \in PodType /\ pod.of = dep.spec
    BY <1>1, <1>2 DEF OwnPod, Types
  <1>4. pod.is = "up"
    <2>1. SUFFICES ASSUME pod.is # "up" PROVE FALSE
      OBVIOUS
    <2>2. {p \in pods : p.is = "up"} = {}
      BY <1>2, <2>1
    <2> QED
      BY <2>2, FS_EmptySet DEF Up
  <1>5. pod = [of |-> dep.spec, is |-> "up"]
    BY <1>3, <1>4 DEF PodType
  <1>6. Running = Tree(n)
    BY <1>1, <1>2, <1>5 DEF Running, Wanted
  <1> QED
    BY <1>6 DEF RunsCount

LEMMA PageTrueStays ==
    ASSUME Types, RunsCount, Follows, PageTyped, PageTrue, [Next]_vars, UNCHANGED page
    PROVE  PageTrue'
  <1> SUFFICES ASSUME page.step \in Steps
               PROVE  PageTrue'
    BY DEF PageTrue, Steps
  <1>1. PICK n \in 1 .. Last : n = page.head
    BY DEF PageTyped
  <1>2. /\ \A m \in 1 .. Last : Tree(m)' = Tree(m)
        /\ \A tree : HasRun(tree) => HasRun(tree)'
        /\ ran \subseteq ran'
        /\ n = Last' => n = Last
    <2>1. Last' \in Nat /\ Last <= Last' /\ Last \in Nat
      BY TreesStay DEF Types, Last
    <2> QED
      BY <2>1, TreesStay, HasRunStays, RanGrows
  <1>3. Tree(page.head)' = Tree(n) /\ Tree(page.head) = Tree(n)
    BY <1>1, <1>2 DEF Tree
  <1>4. Tree(n).there /\ Sent(n) /\ n = Last' => Sent(n)' /\ (Settled => Settled')
    BY StandsStill DEF Follows
  <1>5. Sent(page.head)' <=> Sent(n)'
    BY <1>1 DEF Sent, Tree
  <1>6. HasRun(Tree(n)) => HasRun(Tree(page.head))'
    BY <1>1, <1>2, <1>3 DEF HasRun, Tree
  <1>7. page.step = "unit" /\ page.compared.complete /\ ~page.compared.relevant =>
          Tree(page.compared.from)' = Tree(n) /\ page.compared.from \in 1 .. page.head
    <2>1. SUFFICES ASSUME page.step = "unit" /\ page.compared.complete /\ ~page.compared.relevant
                   PROVE  Tree(page.compared.from)' = Tree(n) /\ page.compared.from \in 1 .. page.head
      OBVIOUS
    <2>2. page.compared.from \in 1 .. page.head /\ Tree(page.compared.from) = Tree(page.head)
      BY <2>1 DEF PageTrue
    <2>3. PICK m \in 1 .. Last : m = page.compared.from
      BY <1>1, <2>2 DEF Types, Last
    <2> QED
      BY <1>1, <1>2, <2>2, <2>3 DEF Tree
  <1>8. Fine(page.found, {"unit", "revision", "release", "replicas"}) => Fine(page.found, {"unit", "revision", "release"})
    BY DEF Fine
  <1>9. Fine(page.found, {"unit", "revision", "release"}) => Fine(page.found, {"unit", "revision"})
    BY DEF Fine
  <1>10. (page.step = "unit" => (page.compared.complete /\ ~page.compared.relevant =>
             page.compared.from \in 1 .. page.head /\ Tree(page.compared.from) = Tree(page.head)))'
    BY <1>3, <1>7
  <1>11. (page.step \in Steps \ {"unit"} /\ Tree(page.head).there /\ Fine(page.found, {"unit", "revision"}) =>
            HasRun(Tree(page.head)) /\ (page.head = Last => Sent(page.head)))'
    BY <1>1, <1>2, <1>3, <1>4, <1>5, <1>6 DEF PageTrue, Fine
  <1>12. ((page.step \in {"workload", "pods", "judge"} /\ Tree(page.head).there /\ page.head = Last
           /\ Fine(page.found, {"unit", "revision", "release"})) => Settled)'
    BY <1>1, <1>2, <1>3, <1>4, <1>9 DEF PageTrue, Fine, Steps
  <1>13. ((page.step \in {"pods", "judge"} /\ Tree(page.head).there /\ ~Tree(page.head).zero /\ page.head = Last
           /\ Fine(page.found, {"unit", "revision", "release", "replicas"})) => page.head \in ran)'
    BY <1>1, <1>2, <1>3 DEF PageTrue, Fine
  <1> QED
    BY <1>10, <1>11, <1>12, <1>13 DEF PageTrue

(* The reads, one after another: each that found all well says so of the   *)
(* cluster as it is then.                                                  *)
LEMMA ReadsTruly ==
    ASSUME Types, RunsCount, Follows, PageTyped, PageTrue, PageReads
    PROVE  PageTrue'
  <1>1. /\ page.step \in Lists /\ page.step \in Steps /\ DOMAIN page = Parts
        /\ Tree(page.head).there /\ Answered(page.step) \subseteq DOMAIN page.found /\ page.head \in 1 .. Last
    BY DEF PageReads, PageTyped, Lists, Steps
  <1>2. /\ page'.step = After(page.step) /\ page'.head = page.head
        /\ UNCHANGED <<log, unit, release, dep, pods, ran>>
    BY ReadMoves
  <1>3. PICK ok \in BOOLEAN : page'.found = With(page.found, Found(page.step, ok))
    BY ReadMoves
  <1> DEFINE more == Found(page.step, ok)
             early == Fine(page.found, {"unit", "revision"})
             then == Fine(page.found, {"unit", "revision", "release"})
             now == Fine(page'.found, {"unit", "revision"})
             nowSettled == Fine(page'.found, {"unit", "revision", "release"})
             nowUp == Fine(page'.found, {"unit", "revision", "release", "replicas"})
             n == page.head
  <1>4. /\ \A field \in DOMAIN more : page'.found[field] = more[field]
        /\ \A field \in DOMAIN page.found \ DOMAIN more : page'.found[field] = page.found[field]
    <2>1. page'.found = With(page.found, more)
      BY <1>3
    <2> HIDE DEF more
    <2>2. /\ \A field \in DOMAIN more : With(page.found, more)[field] = more[field]
          /\ \A field \in DOMAIN page.found \ DOMAIN more : With(page.found, more)[field] = page.found[field]
      BY Joined
    <2> QED
      BY <2>1, <2>2
  <1>5. UNCHANGED Tree(n) /\ UNCHANGED Last
    BY <1>2 DEF Tree, Last
  <1>6. CASE page.step = "unit"
    <2>1. more = UnitFindings(FromList(ok, unit.there, FluxUnit), Target(n), page.compared)
      BY <1>6 DEF Found
    <2>2. SUFFICES ASSUME now
                   PROVE  HasRun(Tree(n)) /\ (n = Last => Sent(n))
      BY <1>2, <1>5, <1>6 DEF PageTrue, After, Fine, HasRun, Sent, Tree
    <2>3. more.unit.outcome \in Positive /\ more.revision.outcome \in Positive
      <3>1. DOMAIN more = {"unit", "revision"}
        BY <1>6, FoundFields
      <3> QED
        BY <1>4, <2>2, <3>1 DEF Fine
    <2>4. unit.ready = "True"
      <3>1. FluxFinding(FromList(ok, unit.there, FluxUnit), "reconciled", "not_reconciled").outcome \in Positive
        BY <2>1, <2>3 DEF UnitFindings
      <3>2. unit.there \in BOOLEAN /\ "not_reconciled" \notin Positive
        BY DEF Types, UnitType, Positive
      <3>3. FluxUnit.ready = "True"
        BY <3>1, <3>2, FluxPositive
      <3> QED
        BY <3>3 DEF FluxUnit
    <2>5. /\ FluxUnit.applied # 0
          /\ \/ FluxUnit.applied = Target(n).revision
             \/ page.compared.from = FluxUnit.applied /\ page.compared.complete /\ ~page.compared.relevant
      <3>1. UnitFindings(FromList(ok, unit.there, FluxUnit), Target(n), page.compared).revision.outcome \in Positive
        BY <2>1, <2>3
      <3>2. unit.there \in BOOLEAN
        BY DEF Types, UnitType
      <3> HIDE DEF n, more
      <3> QED
        BY <3>1, <3>2, RevisionPositive
    <2>6. unit.applied # 0 /\ Tree(unit.applied) = Tree(n)
      <3>1. FluxUnit.applied = unit.applied /\ Target(n).revision = n
        BY DEF FluxUnit, Target
      <3> QED
        BY <1>6, <2>5, <3>1 DEF PageTrue
    <2> QED
      BY <2>4, <2>6 DEF Follows, UnitFollows, Sent
  <1>7. CASE page.step = "release"
    <2>1. DOMAIN more = {"release"} /\ more.release = FluxFinding(FromList(ok, release.there, FluxRelease), "settled", "not_settled")
      BY <1>7, FoundFields DEF Found, ReleaseFindings
    <2>2. now => early
      <3>1. {"unit", "revision"} \subseteq DOMAIN page.found \ DOMAIN more
        BY <1>1, <1>7, <2>1 DEF Answered
      <3> QED
        BY <1>4, <3>1 DEF Fine
    <2>3. now => HasRun(Tree(n)) /\ (n = Last => Sent(n))
      BY <1>1, <1>7, <2>2 DEF PageTrue
    <2>4. ASSUME nowSettled
          PROVE  Settled
      <3>1. more.release.outcome \in Positive
        BY <1>4, <2>1, <2>4 DEF Fine
      <3>2. release.there \in BOOLEAN /\ "not_settled" \notin Positive
        BY DEF Types, ReleaseType, Positive
      <3>3. FluxRelease.ready = "True" /\ FluxRelease.current
        BY <2>1, <3>1, <3>2, FluxPositive
      <3> QED
        BY <3>3 DEF FluxRelease, Settled
    <2> QED
      BY <1>2, <1>5, <1>7, <2>3, <2>4 DEF PageTrue, After, HasRun, Sent, Tree, Settled
  <1>8. CASE page.step = "workload"
    <2>1. /\ DOMAIN more = {"workload", "ready", "replicas"}
          /\ more.replicas = WorkloadFindings(FromList(ok, dep.there, Deployment), Target(n)).replicas
      BY <1>8, FoundFields DEF Found
    <2>2. {"unit", "revision", "release"} \subseteq DOMAIN page.found \ DOMAIN more
      BY <1>1, <1>8, <2>1 DEF Answered
    <2>3. (now => early) /\ (nowSettled => then)
      BY <1>4, <2>2 DEF Fine
    <2>4. now => HasRun(Tree(n)) /\ (n = Last => Sent(n))
      BY <1>1, <1>8, <2>3 DEF PageTrue
    <2>5. nowSettled /\ n = Last => Settled
      BY <1>1, <1>8, <2>3 DEF PageTrue
    <2>6. ASSUME nowUp, n = Last, ~Tree(n).zero
          PROVE  n \in ran
      <3>1. more.replicas.outcome \in Positive
        BY <1>4, <2>1, <2>6 DEF Fine
      <3>2. Deployment.replicas = Target(n).replicas
        <4>1. WorkloadFindings(FromList(ok, dep.there, Deployment), Target(n)).replicas.outcome \in Positive
          BY <2>1, <3>1
        <4>2. dep.there \in BOOLEAN
          BY DEF Types, DepType
        <4> HIDE DEF n, more
        <4> QED
          BY <4>1, <4>2, ReplicasPositive
      <3>3. Up = 1
        BY <2>6, <3>2 DEF Deployment, Target
      <3>4. Sent(n) /\ Settled
        BY <2>4, <2>5, <2>6 DEF Fine
      <3> HIDE DEF n
      <3>5. n \in 1 .. Last
        BY <1>1 DEF n
      <3> QED
        BY <2>6, <3>3, <3>4, <3>5, OwnPodUpRuns DEF Follows
    <2> QED
      BY <1>2, <1>5, <1>8, <2>4, <2>5, <2>6 DEF PageTrue, After, HasRun, Sent, Tree, Settled
  <1>9. CASE page.step = "pods"
    <2>1. DOMAIN more = {"image"}
      BY <1>9, FoundFields
    <2>2. {"unit", "revision", "release", "replicas"} \subseteq DOMAIN page.found \ DOMAIN more
      BY <1>1, <1>9, <2>1 DEF Answered
    <2>3. \A fields \in SUBSET {"unit", "revision", "release", "replicas"} :
            Fine(page'.found, fields) => Fine(page.found, fields)
      BY <1>4, <2>2 DEF Fine
    <2>4. /\ now => HasRun(Tree(n)) /\ (n = Last => Sent(n))
          /\ nowSettled /\ n = Last => Settled
          /\ nowUp /\ n = Last /\ ~Tree(n).zero => n \in ran
      BY <1>1, <1>9, <2>3 DEF PageTrue
    <2> QED
      BY <1>2, <1>5, <1>9, <2>4 DEF PageTrue, After, HasRun, Sent, Tree, Settled
  <1> QED
    BY <1>1, <1>6, <1>7, <1>8, <1>9 DEF Lists

LEMMA PageTrueNext ==
    ASSUME Types, RunsCount, Follows, PageTyped, PageTrue, [Next]_vars
    PROVE  PageTrue'
  <1>1. CASE PagePulls \/ PageJudges \/ Restart
    <2>1. page'.step \in {"none", "pulls"}
      BY <1>1 DEF PagePulls, PageJudges, Restart, NoPage
    <2> QED
      BY <2>1 DEF PageTrue, Steps
  <1>2. CASE PagePins
    <2>1. log' = log /\ Tree(Last)' = Tree(Last)
      BY <1>2 DEF PagePins, Tree, Last
    <2>2. PICK read \in BOOLEAN :
            page' = [step |-> IF Tree(Last).there THEN "unit" ELSE "judge", known |-> page.known, head |-> Last,
                     compared |-> Comparison(unit.applied, Last, read), down |-> FALSE,
                     found |-> << >>, problems |-> FALSE]
      BY <1>2 DEF PagePins
    <2>3. /\ page'.step = (IF Tree(Last).there THEN "unit" ELSE "judge") /\ page'.head = Last
          /\ page'.compared = Comparison(unit.applied, Last, read)
      BY <2>2
    <2>4. page'.compared.complete /\ ~page'.compared.relevant =>
            page'.compared.from \in 1 .. Last /\ Tree(page'.compared.from) = Tree(Last)
      BY <2>3 DEF Comparison
    <2>5. CASE Tree(Last).there
      <3>1. page'.step = "unit"
        BY <2>3, <2>5
      <3>2. (page.compared.complete /\ ~page.compared.relevant =>
               page.compared.from \in 1 .. page.head /\ Tree(page.compared.from) = Tree(page.head))'
        BY <2>1, <2>3, <2>4 DEF Tree
      <3> QED
        BY <3>1, <3>2 DEF PageTrue, Steps
    <2>6. CASE ~Tree(Last).there
      <3>1. page'.step = "judge"
        BY <2>3, <2>6
      <3>2. ~Tree(page.head)'.there
        BY <2>1, <2>3, <2>6 DEF Tree
      <3> QED
        BY <3>1, <3>2 DEF PageTrue, Steps
    <2> QED
      BY <2>5, <2>6
  <1>3. CASE PageReads
    BY <1>3, ReadsTruly
  <1>4. CASE Merge \/ Applying \/ Failures \/ UNCHANGED vars
    <2>1. UNCHANGED page
      BY <1>4, ClusterSteps DEF Merge, console, vars, UnitCreated, Reconcile, UnitReady, Prune, Resume, Upgrade, Settle,
         Uninstall, RollsOut, PodUp, PodGone, UnitTimesOut, Suspend, UpgradeFails, PodBreaks
    <2> QED
      BY <2>1, PageTrueStays
  <1> QED
    BY <1>1, <1>2, <1>3, <1>4 DEF Next, Page

-----------------------------------------------------------------------------
(* What pages say.                                                         *)

LEMMA HealthySays ==
    ASSUME PageTyped, page.step = "judge", State = "healthy"
    PROVE  ~Tree(page.head).zero /\ Fine(page.found, Fields)
  <1>1. Target(page.head).replicas # 0 /\ Fine(page.found, Fields)
    BY HealthyIsFine DEF State
  <1> QED
    BY <1>1 DEF Target

LEMMA JudgesTruly ==
    ASSUME Types, PageTyped, PageTrue, PageJudges, NEW c \in Judged, Progress(c) = "live"
    PROVE  \E n \in ran : Tree(n).settings = Tree(c).settings /\ Tree(n).zero = Tree(c).zero
  <1>1. page.step = "judge" /\ page.step \in Steps
    BY DEF PageJudges, Steps
  <1>2. c \in 1 .. Last /\ Tree(c) \in Trees /\ Tree(page.head) \in Trees
    BY <1>1, NewestTree DEF Judged, Tracked, PageTyped
  <1>3. /\ Tree(c).there /\ Lands = "live"
        /\ Tree(c).settings = Tree(page.head).settings /\ Tree(c).zero = Tree(page.head).zero
    BY DEF Progress
  <1>4. State = "healthy"
    BY <1>3 DEF Lands, State, StateOf
  <1>5. Tree(page.head).there
    <2>1. Tree(c).settings \in {1, 2}
      <3>1. NoTree.there = FALSE
        BY DEF NoTree
      <3> QED
        BY <1>2, <1>3, <3>1 DEF Trees
    <2>2. NoTree.settings = 0
      BY DEF NoTree
    <2>3. Tree(page.head) # NoTree
      BY <1>3, <2>1, <2>2
    <2> QED
      BY <1>2, <2>3 DEF Trees
  <1>6. Fine(page.found, {"unit", "revision"})
    BY <1>1, <1>4, HealthySays DEF Fine, Fields
  <1>7. HasRun(Tree(page.head))
    BY <1>1, <1>5, <1>6 DEF PageTrue
  <1> QED
    BY <1>3, <1>7 DEF HasRun

ShownRan ==
    \A c \in Commits : shown[c] = "live" =>
        c <= Last /\ \E n \in ran : Tree(n).settings = Tree(c).settings /\ Tree(n).zero = Tree(c).zero

LEMMA ShownRanNext ==
    ASSUME Types, PageTyped, PageTrue, ShownRan, [Next]_vars
    PROVE  ShownRan'
  <1>1. /\ \A n \in 1 .. Last : n \in 1 .. Last' /\ Tree(n)' = Tree(n)
        /\ ran \subseteq ran' /\ ran \subseteq 1 .. Last /\ Last' \in Nat /\ Last <= Last' /\ Last \in Nat
    BY TreesStay, RanGrows DEF Types, Last
  <1> SUFFICES ASSUME NEW c \in Commits, shown'[c] = "live"
               PROVE  c <= Last' /\ \E n \in ran' : Tree(n)'.settings = Tree(c)'.settings /\ Tree(n)'.zero = Tree(c)'.zero
    BY DEF ShownRan
  <1>2. c \in Nat /\ c >= 1
    BY KindsAreKinds DEF Commits
  <1>3. SUFFICES c <= Last /\ \E n \in ran : Tree(n).settings = Tree(c).settings /\ Tree(n).zero = Tree(c).zero
    BY <1>1, <1>2
  <1>4. CASE UNCHANGED shown
    BY <1>4 DEF ShownRan
  <1>5. CASE PageJudges
    <2>1. shown' = [n \in Commits |-> IF n \in Judged THEN Progress(n) ELSE shown[n]]
      BY <1>5 DEF PageJudges
    <2>2. CASE c \in Judged
      <3>1. Progress(c) = "live" /\ c <= Last
        BY <2>1, <2>2 DEF Judged, Tracked
      <3> QED
        BY <1>5, <2>2, <3>1, JudgesTruly
    <2>3. CASE c \notin Judged
      BY <2>1, <2>3 DEF ShownRan
    <2> QED
      BY <2>2, <2>3
  <1>6. CASE ~PageJudges
    <2>1. UNCHANGED shown
      BY <1>6, ClusterSteps DEF Next, Merge, Page, Restart, PagePulls, PagePins, PageReads, console, vars,
         UnitCreated, Reconcile, UnitReady, Prune, Resume, Upgrade, Settle,
         Uninstall, RollsOut, PodUp, PodGone, UnitTimesOut, Suspend, UpgradeFails, PodBreaks
    <2> QED
      BY <1>4, <2>1
  <1> QED
    BY <1>5, <1>6

(* If main stood still while a page read it all well, its newest commit    *)
(* has run.                                                                *)
LEMMA NewestHasRun ==
    ASSUME PageTyped, PageTrue, page.step = "judge", page.head = Last, Tree(page.head).there, State = "healthy"
    PROVE  page.head \in ran
  <1>1. ~Tree(page.head).zero /\ Fine(page.found, {"unit", "revision", "release", "replicas"})
    BY HealthySays DEF Fine, Fields
  <1> QED
    BY <1>1 DEF PageTrue

(* The console's memory and store hold what pages said.                    *)
Remembered == told \subseteq seen /\ told \subseteq kept /\ told \subseteq Commits

LEMMA CommitsBounded ==
    ASSUME Types, Last \in Commits, [Next]_vars
    PROVE  Last' \in Commits
  <1>1. CASE Merge
    <2>1. PICK entry \in [kind : KindNames, tree : Trees] : log' = Append(log, entry)
      BY <1>1, MergeGrows
    <2>2. Last \in 1 .. Len(Kinds) /\ Len(Kinds) \in Nat
      BY <1>1, KindsAreKinds DEF Merge
    <2>3. Last' = Last + 1
      <3> DEFINE S == [kind : KindNames, tree : Trees]
      <3>1. log \in Seq(S) /\ entry \in S
        BY <2>1 DEF Types
      <3> HIDE DEF S
      <3> QED
        BY <2>1, <3>1 DEF Last
    <2> QED
      BY <2>2, <2>3 DEF Commits
  <1>2. CASE ~Merge
    <2>1. UNCHANGED log
      BY <1>2, ClusterSteps DEF Next, Page, Restart, PagePulls, PagePins, PageReads, PageJudges, vars,
         UnitCreated, Reconcile, UnitReady, Prune, Resume, Upgrade, Settle,
         Uninstall, RollsOut, PodUp, PodGone, UnitTimesOut, Suspend, UpgradeFails, PodBreaks
    <2> QED
      BY <2>1 DEF Last
  <1> QED
    BY <1>1, <1>2

LEMMA ShownMoves ==
    ASSUME [Next]_vars
    PROVE  \/ UNCHANGED <<shown, seen, kept, told>>
           \/ PageJudges
           \/ UNCHANGED <<shown, kept, told>> /\ seen' = kept
  BY ClusterSteps DEF Next, Merge, Page, Restart, PagePulls, PagePins, PageReads, console, vars,
     UnitCreated, Reconcile, UnitReady, Prune, Resume, Upgrade, Settle,
     Uninstall, RollsOut, PodUp, PodGone, UnitTimesOut, Suspend, UpgradeFails, PodBreaks

(* What a change is judged to be: superseded only while it was not seen at *)
(* its end.                                                                *)
LEMMA JudgesNoOther ==
    ASSUME NEW c, Progress(c) = "superseded"
    PROVE  /\ c \notin seen
           /\ Tree(c).settings # Tree(page.head).settings \/ Tree(c).zero # Tree(page.head).zero
  BY DEF Progress, Lands, State, StateOf

LEMMA PagesAgreeNext ==
    ASSUME Types, Last \in Commits, PageTyped, Remembered, PagesAgree, [Next]_vars
    PROVE  Remembered' /\ PagesAgree'
  <1>1. /\ \A n \in 1 .. Last : n \in 1 .. Last' /\ Tree(n)' = Tree(n)
        /\ Last' \in Nat /\ Last <= Last' /\ Last \in Nat
    BY TreesStay DEF Types, Last
  <1>2. Commits \subseteq Nat \ {0}
    BY KindsAreKinds DEF Commits
  <1>3. SupersededWasReplaced => \A c \in Commits : shown[c] = "superseded" =>
          \E n \in c + 1 .. Last' : Tree(n)'.settings # Tree(c)'.settings \/ Tree(n)'.zero # Tree(c)'.zero
    <2>1. SUFFICES ASSUME SupersededWasReplaced, NEW c \in Commits, shown[c] = "superseded"
                   PROVE  \E n \in c + 1 .. Last' : Tree(n)'.settings # Tree(c)'.settings \/ Tree(n)'.zero # Tree(c)'.zero
      OBVIOUS
    <2>2. PICK n \in c + 1 .. Last : Tree(n).settings # Tree(c).settings \/ Tree(n).zero # Tree(c).zero
      BY <2>1 DEF SupersededWasReplaced
    <2>3. n \in 1 .. Last /\ c \in 1 .. Last /\ n \in c + 1 .. Last'
      BY <1>1, <1>2, <2>2
    <2> QED
      BY <1>1, <2>2, <2>3
  <1>4. CASE UNCHANGED <<shown, kept, told>> /\ (seen' = seen \/ seen' = kept)
    BY <1>3, <1>4 DEF PagesAgree, NeverUnsaid, SupersededWasReplaced, Remembered
  <1>5. CASE PageJudges
    <2> DEFINE says == [n \in Judged |-> Progress(n)]
               ends == {n \in Judged : says[n] \in Reached}
    <2>1. /\ shown' = [n \in Commits |-> IF n \in Judged THEN says[n] ELSE shown[n]]
          /\ seen' = seen \cup ends
          /\ \/ kept' = kept \cup (ends \ seen) /\ told' = told \cup (ends \ seen)
             \/ UNCHANGED <<kept, told>>
          /\ log' = log /\ page.step = "judge"
      BY <1>5 DEF PageJudges
    <2>2. Remembered'
      <3>1. Judged \subseteq Commits
        BY <1>1, <2>1, KindsAreKinds DEF PageTyped, Steps, Judged, Tracked, Commits
      <3> QED
        BY <2>1, <3>1 DEF Remembered
    <2>3. NeverUnsaid'
      <3> SUFFICES ASSUME NEW c \in told', shown'[c] = "superseded"
                   PROVE  FALSE
        BY DEF NeverUnsaid
      <3>3. c \in Commits
        BY <2>2 DEF Remembered
      <3>1. CASE c \in Judged
        <4>1. Progress(c) = "superseded"
          BY <2>1, <3>1, <3>3
        <4>2. c \notin seen /\ c \notin ends
          BY <4>1, JudgesNoOther DEF Reached
        <4> QED
          BY <2>1, <4>2 DEF Remembered
      <3>2. CASE c \notin Judged
        BY <2>1, <3>2, <3>3 DEF PagesAgree, NeverUnsaid
      <3> QED
        BY <3>1, <3>2
    <2>4. SupersededWasReplaced'
      <3> SUFFICES ASSUME NEW c \in Commits, shown'[c] = "superseded"
                   PROVE  \E n \in c + 1 .. Last : Tree(n).settings # Tree(c).settings \/ Tree(n).zero # Tree(c).zero
        BY <2>1 DEF SupersededWasReplaced, Tree, Last
      <3>1. CASE c \in Judged
        <4>1. Tree(c).settings # Tree(page.head).settings \/ Tree(c).zero # Tree(page.head).zero
          BY <2>1, <3>1, JudgesNoOther
        <4>2. page.head \in 1 .. Last /\ page.known \in 1 .. page.head /\ c \in 1 .. page.known
          BY <2>1, <3>1 DEF PageTyped, Steps, Judged
        <4>3. page.head \in c + 1 .. Last
          BY <1>1, <1>2, <4>1, <4>2
        <4> QED
          BY <4>1, <4>3
      <3>2. CASE c \notin Judged
        BY <2>1, <3>2 DEF PagesAgree, SupersededWasReplaced
      <3> QED
        BY <3>1, <3>2
    <2> QED
      BY <2>2, <2>3, <2>4 DEF PagesAgree
  <1> QED
    BY <1>4, <1>5, ShownMoves

-----------------------------------------------------------------------------
(* The whole invariant.                                                    *)

LandingInv ==
    /\ Types /\ Last \in Commits /\ RunsCount /\ Follows
    /\ PageTyped /\ PageTrue
    /\ ShownRan /\ Remembered /\ PagesAgree

LEMMA LandingInit ==
    ASSUME Init
    PROVE  LandingInv
  <1>1. Len(log) = 1 /\ log[1] = [kind |-> "create", tree |-> First]
    BY DEF Init
  <1>2. Types
    <2>1. First \in Trees /\ NoTree \in Trees
      BY DEF Trees, First
    <2>2. log \in Seq([kind : KindNames, tree : Trees]) /\ Last = 1
      BY <2>1 DEF Init, KindNames, Last
    <2>3. unit \in UnitType /\ unit.applied = 0 /\ unit.trying = 0
      BY DEF Init, NoUnit, UnitType, Conditions
    <2>4. release \in ReleaseType /\ dep \in DepType
      BY <2>1 DEF Init, NoRelease, ReleaseType, Conditions, NoDep, DepType
    <2> QED
      BY <2>2, <2>3, <2>4 DEF Init, Types
  <1>7. Last \in Commits
    BY <1>1, KindsAreKinds DEF Last, Commits
  <1>3. RunsCount
    <2>1. Running = NoTree
      BY DEF Init, NoDep, Running
    <2>2. Tree(1) = First /\ Last = 1 /\ First # NoTree
      BY <1>1 DEF Tree, Last, First, NoTree
    <2> QED
      BY <2>1, <2>2 DEF RunsCount
  <1>4. Follows
    BY DEF Init, Follows, ReleaseFollows, UnitFollows, Settled, NoUnit, NoRelease
  <1>5. PageTyped /\ PageTrue
    BY DEF Init, NoPage, PageTyped, PageTrue, Steps
  <1>6. ShownRan /\ Remembered /\ PagesAgree
    BY DEF Init, ShownRan, Remembered, PagesAgree, NeverUnsaid, SupersededWasReplaced
  <1> QED
    BY <1>2, <1>3, <1>4, <1>5, <1>6, <1>7 DEF LandingInv

LEMMA LandingNext ==
    ASSUME LandingInv, [Next]_vars
    PROVE  LandingInv'
  BY TypesNext, CommitsBounded, RunsCountNext, FollowsNext, PageTypedNext, PageTrueNext, ShownRanNext, PagesAgreeNext DEF LandingInv

LEMMA LandingHolds == Spec => []LandingInv
  <1>1. LandingInv /\ [Next]_vars => LandingInv'
    BY LandingNext
  <1> QED
    BY <1>1, LandingInit, PTL DEF Spec

(* What a page calls live has run whole; and what it found healthy while   *)
(* main stood still is main's newest commit.                               *)
THEOREM LiveHasRun == Spec => []LiveRan
  <1>1. LandingInv => LiveRan
    <2> SUFFICES ASSUME LandingInv PROVE LiveRan
      OBVIOUS
    <2>1. \A c \in Commits : shown[c] = "live" =>
            \E n \in ran : Tree(n).settings = Tree(c).settings /\ Tree(n).zero = Tree(c).zero
      BY DEF LandingInv, ShownRan
    <2>2. (page.step = "judge" /\ page.head = Last /\ Tree(page.head).there /\ State = "healthy") => page.head \in ran
      BY NewestHasRun DEF LandingInv
    <2> QED
      BY <2>1, <2>2 DEF LiveRan
  <1> QED
    BY <1>1, LandingHolds, PTL

(* What pages say of a change is not taken back, and not said too early.   *)
THEOREM PagesDoAgree == Spec => []PagesAgree
  <1>1. LandingInv => PagesAgree
    BY DEF LandingInv
  <1> QED
    BY <1>1, LandingHolds, PTL
=============================================================================
