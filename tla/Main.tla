-------------------------------- MODULE Main --------------------------------
(***************************************************************************)
(* main, and everyone who writes it: people, who ask the console for pull  *)
(* requests and merge them (tools/swhurl/console/proposal.py); the Deploy  *)
(* v2 workflow and the Render workflow (tools/swhurl/bots.py), which read  *)
(* main, prepare a tree for as long as their checks take, and push it      *)
(* unforced.  Apps publish images meanwhile.                               *)
(***************************************************************************)
EXTENDS Commands

CONSTANTS Requests,      \* the changes people ask for
          Initial,       \* the instances main starts with
          Links,         \* the calls it may start with, <<caller, callee's app>>
          MaxRequests,   \* pull requests asked for in a behaviour
          Attempts,      \* how often one run of a bot tries to push
          MaxFaults      \* failed reads, torn writes and pushes whose answer is lost

VARIABLES main,        \* main's tree
          head,        \* how many commits main has
          prs,         \* the open pull requests: what, from which tree and commit
          asked,       \* how many were asked for
          render,      \* the Render workflow's run: the commit it started from and the tree it will push
          deploy,      \* the Deploy v2 workflow's run
          renderDue,   \* a person's push has started a Render run that has not read main yet
          published,   \* the images the apps have published
          ran,         \* the images main has selected in staging
          faults

(* What the console's forms can ask for. *)
ASSUME RequestsAreRequests ==
    \A q \in Requests :
        \/ /\ q.do = "new" /\ <<q.app, "staging">> \in Instances /\ q.team \in Teams
           /\ q.calls \in SUBSET Apps /\ q.subs \in SUBSET (Apps \X STRING)
        \/ /\ q.do = "edit" /\ q.inst \in Instances
           /\ \/ q.line = "calls" /\ q.to \in SUBSET Apps
              \/ q.line = "allows" /\ q.to \in SUBSET (Apps \cup Teams)
              \/ q.line = "subs" /\ q.to \in SUBSET (Apps \X STRING)
        \/ q.do = "remove" /\ q.inst \in Instances
        \/ q.do = "promote" /\ q.app \in Apps
        \/ q.do = "team" /\ q.app \in Apps /\ q.team \in Teams
        \/ q.do \in {"team-add", "team-remove"} /\ q.team \in Teams

ASSUME BoundsAreNumbers == Attempts \in Nat \ {0} /\ MaxRequests \in Nat /\ MaxFaults \in Nat

vars == <<main, head, prs, asked, render, deploy, renderDue, published, ran, faults>>

Idle == [at |-> 0, tree |-> Nothing, left |-> 0]

FirstImage(a) == CHOOSE m \in Images : m.app = a /\ \A o \in Images : o.app = a => m.run <= o.run

(* What an instance main starts with declares: its calls, and its caller's team. *)
FirstLine(line, i, links, team) ==
    CASE line = "calls" -> {l[2] : l \in {link \in links : link[1] = i}}
      [] line = "allows" -> IF \E l \in links : Beside(l[1], l[2]) = i THEN {team} ELSE {}
      [] line = "subs" -> {}

(* A tree people have registered teams in and put instances on, with links between some, each rendered. *)
FirstTree(links) ==
    LET team == CHOOSE t \in Teams : TRUE
        records == [p \in RecordPaths |->
            CASE p[1] = "team" -> TRUE
              [] p[1] = "app" -> IF \E i \in Initial : i[1] = p[2] THEN team ELSE Nothing
              [] p[1] \in {"release", "select"} -> IF p[2] \in Initial THEN FirstImage(p[2][1]) ELSE Nothing
              [] p[1] \in {"calls", "allows", "subs"} ->
                     IF p[2] \in Initial THEN FirstLine(p[1], p[2], links, team) ELSE Nothing]
    IN  RenderAt(Put(Empty, records), 0)

(* An app has a first image, the instances main starts with are instances, and their tree passes its checks. *)
ASSUME FirstTreePasses ==
    /\ \A a \in Apps : \E m \in Images : m.app = a /\ \A o \in Images : o.app = a => m.run <= o.run
    /\ Initial \subseteq Instances /\ Links \subseteq Instances \X Apps
    /\ \A links \in {{}, Links} : Checked(FirstTree(links))

Init ==
    /\ \E links \in {{}, Links} : main = FirstTree(links)
    /\ head = 1
    /\ prs = {} /\ asked = 0
    /\ render = Idle /\ deploy = Idle /\ renderDue = FALSE
    /\ published = {FirstImage(a) : a \in Apps}
    /\ ran = {FirstImage(i[1]) : i \in Initial}
    /\ faults = 0

-----------------------------------------------------------------------------
SelectedInStaging(T) == {T[<<"select", i>>] : i \in Staging \cap Present(T)}

(* A commit on main. *)
Commit(tree) ==
    /\ main' = tree /\ head' = head + 1
    /\ ran' = ran \cup SelectedInStaging(tree)

Publish ==
    /\ \E m \in Images \ published :
          /\ \A o \in published : o.app = m.app => o.run < m.run
          /\ published' = published \cup {m}
    /\ UNCHANGED <<main, head, prs, asked, render, deploy, renderDue, ran, faults>>

(* The console opens a pull request: it judges the change in a download of main, and carries only owned paths. *)
Open ==
    /\ asked < MaxRequests
    /\ \E request \in Requests : \E U \in {Changed(main, published, request)} :
       \E tree \in {Proposed(main, U, request, head)} :
          /\ tree # Nothing
          /\ prs' = prs \cup {[what |-> request, at |-> head, base |-> main, tree |-> tree]}
    /\ asked' = asked + 1
    /\ UNCHANGED <<main, head, render, deploy, renderDue, published, ran, faults>>

(* git merges main and a pull request from their common tree, path by path; a file of one instance's record *)
(* that one side deletes and the other changes is a conflict, like a path both change differently. *)
Touches(pr, p) == pr.tree[p] # pr.base[p]
Moved(pr, p) == main[p] # pr.base[p]

(* faulty: the merge takes the files whose lines no two changes share. *)
ConflictOfLines(pr) ==
    \E p \in Paths \ Whole : Touches(pr, p) /\ Moved(pr, p) /\ main[p] # pr.tree[p]

Conflict(pr) ==
    \/ \E p \in Paths : Touches(pr, p) /\ Moved(pr, p) /\ main[p] # pr.tree[p]
    \/ \E i \in Instances :
          /\ \E line \in Lines : Touches(pr, <<line, i>>)
          /\ \E line \in Lines : Moved(pr, <<line, i>>)
          /\ (main[<<"select", i>>] = Nothing) # (pr.tree[<<"select", i>>] = Nothing)

Merged(pr) == [p \in Paths |-> IF Touches(pr, p) THEN pr.tree[p] ELSE main[p]]

(* A person merges a pull request that has no conflict; the push starts the Render workflow. *)
Merge ==
    \E pr \in prs :
       /\ ~Conflict(pr)
       /\ Commit(Merged(pr))
       /\ prs' = prs \ {pr}
       /\ renderDue' = TRUE
       /\ UNCHANGED <<asked, render, deploy, published, faults>>

Close ==
    /\ \E pr \in prs : prs' = prs \ {pr}
    /\ UNCHANGED <<main, head, asked, render, deploy, renderDue, published, ran, faults>>

-----------------------------------------------------------------------------
(* The bots.  A run reads main, prepares a tree and has it checked; a tree *)
(* that is refused, or that changes nothing, ends the run.                 *)

Carrying(ok, tree, left) == IF ok /\ tree # main THEN [at |-> head, tree |-> tree, left |-> left] ELSE Idle

(* faulty: the run pushes what it delivered without the whole tree's check. *)
PassesAnyway(T) == TRUE

(* The checks a bot's tree must pass before it is pushed. *)
Passes(T) == Checked(T)

(* A delivery run's tree: the newest images it could take, then the broker's users, or nothing when they *)
(* or the checks refuse; torn is the instance whose files were not all written. *)
Delivers(unread, torn, files, left) ==
    \E moving \in {Moving(main, published, unread)} :
    \E S \in {SelectedAll(main, published, moving)} :
    \E R \in {Torn(main, Compiled(S, moving), torn, files)} :
    \E U \in {WithUsers(R)} : deploy' = Carrying(U # Nothing /\ Passes(U), U, left)

Renders(left) == render' = Carrying(Renderable(main), RenderIfStale(main, head), left)

RenderRead ==
    /\ renderDue /\ render = Idle
    /\ renderDue' = FALSE
    /\ Renders(Attempts - 1)
    /\ UNCHANGED <<main, head, prs, asked, deploy, published, ran, faults>>

(* The hourly run, or the one an image update dispatches. *)
DeployRead ==
    /\ deploy = Idle
    /\ Delivers({}, Nothing, 0, Attempts - 1)
    /\ deploy' # Idle
    /\ UNCHANGED <<main, head, prs, asked, render, renderDue, published, ran, faults>>

Outdated == {i \in Staging \cap Present(main) : main[<<"select", i>>] # Newest(published, i[1])}

(* A run that cannot read one app's registry, or fails part-way through one instance's files. *)
DeployReadPartly ==
    /\ deploy = Idle
    /\ faults < MaxFaults /\ faults' = faults + 1
    /\ \E i \in Outdated :
          \/ Delivers({i}, Nothing, 0, Attempts - 1)
          \/ \E n \in 1 .. Len(Written) - 1 : Delivers({}, i, n, Attempts - 1)
    /\ deploy' # Idle
    /\ UNCHANGED <<main, head, prs, asked, render, renderDue, published, ran>>

(* faulty: the push is forced. *)
Forced(run) == TRUE

(* Not forced: a main that moved since it was read refuses the push. *)
Accepted(run) == run.at = head

(* A push that lost makes the change again on the newer main, while the run has attempts left. *)
RenderAgain == IF render.left = 0 THEN render' = Idle ELSE Renders(render.left - 1)

(* faulty: a run that lost its push tries again without counting. *)
DeployAgainAlways == Delivers({}, Nothing, 0, deploy.left - 1)

DeployAgain == IF deploy.left = 0 THEN deploy' = Idle ELSE Delivers({}, Nothing, 0, deploy.left - 1)

RenderPush ==
    /\ render # Idle
    /\ \/ Accepted(render) /\ Commit(render.tree) /\ render' = Idle
       \/ ~Accepted(render) /\ UNCHANGED <<main, head, ran>> /\ RenderAgain
    /\ UNCHANGED <<prs, asked, deploy, renderDue, published, faults>>

DeployPush ==
    /\ deploy # Idle
    /\ \/ Accepted(deploy) /\ Commit(deploy.tree) /\ deploy' = Idle
       \/ ~Accepted(deploy) /\ UNCHANGED <<main, head, ran>> /\ DeployAgain
    /\ UNCHANGED <<prs, asked, render, renderDue, published, faults>>

(* A push that main took and the bot was told nothing of: the run tries again and finds nothing to change, *)
(* or finds what came since. *)
PushUntold ==
    /\ faults < MaxFaults /\ faults' = faults + 1
    /\ deploy # Idle /\ Accepted(deploy)
    /\ Commit(deploy.tree)
    /\ deploy' = IF deploy.left = 0 THEN Idle ELSE [deploy EXCEPT !.left = @ - 1]
    /\ UNCHANGED <<prs, asked, render, renderDue, published>>

Next ==
    \/ Publish \/ Open \/ Merge \/ Close
    \/ RenderRead \/ RenderPush \/ DeployRead \/ DeployReadPartly \/ DeployPush \/ PushUntold

Spec == Init /\ [][Next]_vars

(* The Render run a push starts goes on to its end. *)
FairSpec == Spec /\ WF_vars(RenderRead) /\ WF_vars(RenderPush)

(* Deploy v2 is started every hour, and goes on to its end. *)
HourlySpec == FairSpec /\ WF_vars(DeployRead) /\ WF_vars(DeployPush)

-----------------------------------------------------------------------------
(* Main's tree, the open pull requests and the bots' runs have their types. *)
TypeOK ==
    /\ DOMAIN main = Paths
    /\ \A i \in Instances : {main[<<"release", i>>], main[<<"select", i>>]} \subseteq Images \cup {Nothing}
    /\ \A pr \in prs : pr.what \in Requests /\ pr.at <= head /\ DOMAIN pr.tree = Paths
    /\ \A run \in {render, deploy} : run # Idle =>
            run.at \in 1 .. head /\ run.left \in 0 .. Attempts - 1 /\ DOMAIN run.tree = Paths
    /\ asked \in 0 .. MaxRequests /\ faults \in 0 .. MaxFaults
    /\ renderDue \in BOOLEAN
    /\ published \subseteq Images /\ ran \subseteq Images

(* An instance on main always selects the release recorded beside it, whatever was merged and however    *)
(* a delivery's writes failed: git never holds a half-delivered pair (DeployImage, checked, push_main).  *)
SelectedIsRecorded == \A i \in Present(main) : main[<<"select", i>>] = main[<<"release", i>>]

(* An app's instances all run one kind of workload and agree about keeping a database: neither a         *)
(* delivery, a promotion, nor removing an app and creating it again from another image, can leave        *)
(* production on what staging no longer is (AcceptDeclaration, appAbsent).                               *)
OneKindPerApp ==
    \A i, j \in Present(main) : i[1] = j[1] =>
        /\ main[<<"select", i>>].kind = main[<<"select", j>>].kind
        /\ main[<<"select", i>>].database = main[<<"select", j>>].database

(* Production only ever selects an image that main selected in staging before (Promote).                 *)
PromotedRanInStaging == \A i \in Present(main) : i[2] = "prod" => main[<<"select", i>>] \in ran

(* What main's instances select agrees, at every commit, with their records, with each other and with staging. *)
ReleasesAgree == SelectedIsRecorded /\ OneKindPerApp /\ PromotedRanInStaging

(* A proxy port names one caller for ever: two instances never hold one, also not two that merged pull   *)
(* requests gave the lowest free port each, and an instance keeps its own, through its removal and       *)
(* another app's creation (Allocate).                                                                    *)
PortsNameOneCaller ==
    [][/\ DistinctPorts([i \in Instances |-> main'[<<"port", i>>]])
       /\ \A i \in Instances : main[<<"port", i>>] # Nothing =>
            main'[<<"port", i>>] # Nothing /\ main'[<<"port", i>>].port = main[<<"port", i>>].port]_vars

(* A call passes when the caller's pod has the callee's address, token and way out, at the port the      *)
(* callee listens on, and the callee's list of callers names it; each side is a folder of main of its    *)
(* own age.                                                                                              *)
CallPasses(T, i, j) ==
    /\ T[<<"unit", i>>] # Nothing /\ T[<<"policy", j>>] # Nothing
    /\ <<j[1], T[<<"policy", j>>].port>> \in T[<<"unit", i>>].reaches
    /\ i \in T[<<"policy", j>>].callers

(* No call passes on main that its records do not connect: of the two folders a call needs, one is as    *)
(* new as the records that part them.                                                                    *)
CallsAreConnected ==
    \A i, j \in Instances : i[2] = j[2] /\ CallPasses(main, i, j) =>
        i \in Present(main) /\ j[1] \in main[<<"calls", i>>] /\ Reason(main, i, j[1]) = "connected"

(* The proxy's list gives every caller the port its allocation states at every commit, also one no bot   *)
(* has rendered: pull requests carry both, and two that change them conflict.  What else the network asks *)
(* for, the calls that pass and the broker's users, may be older than the records it is derived from     *)
(* only while a Render run that will derive it again is under way or started, or while the records       *)
(* cannot be rendered at all ("accepted intent, not yet materialised").                                  *)
ProxyFollowsRecords == main[<<"proxy", "platform">>] = [i \in Instances |-> main[<<"port", i>>]]
UsersFollowRecords == main[<<"users", "platform">>] = Users(main)

NetworkFollowsRecords ==
    /\ ProxyFollowsRecords
    /\ Renderable(main) /\ ~renderDue /\ render = Idle => CallsAreConnected /\ UsersFollowRecords

(* A record on main changes only as a merged request says, or as a delivery moves a staging release      *)
(* forward: no bot's push undoes what a person merged while it ran (push_main pushes unforced).          *)
Forward(p) ==
    /\ p[1] \in {"release", "select"} /\ p[2] \in Staging
    /\ main[p] # Nothing /\ main'[p] # Nothing /\ main[p].run < main'[p].run

RecordsChangeByRequest ==
    [][\A p \in RecordPaths : main'[p] # main[p] =>
            \/ \E pr \in prs \ prs' : p \in Owned(pr.what)
            \/ prs' = prs /\ Forward(p)]_vars

(* Whenever main's records can be rendered, main is in the end what they render, or they can no longer   *)
(* be: a bot's own push starts no workflow, so nothing else would repair it.                             *)
RenderedAgain == []<>(Renderable(main) => Rendered(main))

(* The documentation's promise of a delivery: an instance whose newest image passes every check when it   *)
(* moves alone gets it, whatever the others' images are ("the others still deploy").                     *)
PassesAlone(i) ==
    \E S \in {SelectedAll(main, published, {i})} : \E R \in {Compiled(S, {i})} : \E U \in {WithUsers(R)} :
        U # Nothing /\ Passes(U)

Waiting(i) ==
    /\ i \in Present(main) /\ main[<<"select", i>>] # Newest(published, i[1])
    /\ Takes(main, i, Newest(published, i[1])) /\ PassesAlone(i)

OthersStillDeploy == \A i \in Staging : Waiting(i) ~> ~Waiting(i)
=============================================================================
