----------------------------- MODULE Dashboards -----------------------------
(***************************************************************************)
(* The dashboard pass (v2/orchestration/dashboards.go, v2/dashboards, the  *)
(* ClickStack adapter): it finds the apps, repairs the two reserved        *)
(* webhooks, brings each app's dashboard to its definition, records the    *)
(* dashboards for the console, deletes those of apps that are gone and     *)
(* brings the default alerts to the dashboards as they now are.            *)
(*                                                                         *)
(* The CronJob runs a pass a minute from the cluster's HelmReleases, one   *)
(* at a time; `make clickstack-dashboards` runs one from the records,      *)
(* beside it.  ClickStack knows nothing of a transaction, people change    *)
(* its objects in its UI, and a request whose answer is lost, or whose     *)
(* pass was stopped, may be applied then or later.                         *)
(*                                                                         *)
(* An app is known by its place in the alphabet and an object by a number; *)
(* so are the tiles of a dashboard, which an update makes new.             *)
(***************************************************************************)
EXTENDS Integers, FiniteSets

CONSTANTS
  Initial,     \* the instances that Git names and the cluster runs at first
  Worlds,      \* what Git may hold: sets of instances
  Presets,     \* the default alerts
  Other,       \* a dashboard's name that is no app's
  MaxEvents    \* bound on what happens besides the scheduled passes

VARIABLES
  git,      \* the instances of the records
  cluster,  \* the instances whose HelmReleases Flux has applied
  click,    \* ClickStack's dashboards, alerts and webhooks
  made,     \* how many of them there have been
  record,   \* the console's record: <<app, dashboard>> pairs
  pass,     \* the scheduled pass and one run by hand
  late,     \* requests given up that may still be applied
  gone,     \* dashboards the record may name although they are gone
  excuses,  \* why there may be two objects of one name
  events    \* requests and passes that went wrong, edits in the UI, changes
            \* of Git and of the cluster, passes by hand

vars == <<git, cluster, click, made, record, pass, late, gone, excuses,
          events>>

Passes == {"scheduled", "byHand"}
Kinds == {"boards", "alerts", "hooks"}
Hooks == <<"ntfy: platform", "swhurl notify">>
Idle == [pc |-> "idle", apps |-> {}, prune |-> FALSE, todo |-> {}, ids |-> {}, hook |-> 0,
         beside |-> FALSE, disturbed |-> FALSE]

Init ==
  /\ git = Initial /\ cluster = Initial
  /\ click = [on \in Kinds |-> {}]
  /\ made = [on \in Kinds |-> 0] /\ record = {} /\ late = {} /\ gone = {} /\ excuses = 0
  /\ pass = [p \in Passes |-> Idle]
  /\ events = 0

Event == events < MaxEvents /\ events' = events + 1

-----------------------------------------------------------------------------
(* The apps of a set of instances.  Staging's facts are the app's.         *)

First(found) ==
  CHOOSE i \in found : i.env = "staging" \/ \A j \in found : j.env # "staging"

Grouped(instances) ==
  LET Of(a) == {i \in instances : i.app = a}
      Said(a) == {i \in Of(a) : i.alerts # ""}
      App(a) == [name |-> a, kind |-> First(Of(a)).kind, envs |-> {i.env : i \in Of(a)},
                 alerts |-> IF Said(a) = {} THEN "" ELSE First(Said(a)).alerts]
  IN  {App(i.app) : i \in instances}

(* The records state no alert settings.                                    *)
OfRecords(instances) == Grouped({[i EXCEPT !.alerts = ""] : i \in instances})

-----------------------------------------------------------------------------
(* A request to ClickStack and what it does.  An object that is not there  *)
(* is neither updated nor deleted.                                         *)

Request(op, on, id, doc) == [op |-> op, on |-> on, id |-> id, doc |-> doc]

Kept(on, x) == Request("keep", on, x.id, x)

Possible(r) == r.op = "create" \/ \E x \in click[r.on] : x.id = r.id

Numbered(r) ==
  LET was == {x \in click[r.on] : x.id = r.id}
      doc == IF r.on = "boards"
             THEN [r.doc EXCEPT !.tiles = 1 + (IF r.op = "create" THEN 0 ELSE (CHOOSE x \in was : TRUE).tiles)]
             ELSE r.doc
  IN  [doc EXCEPT !.id = IF r.op = "create" THEN made[r.on] + 1 ELSE r.id]

After(r) ==
  LET others == {x \in click[r.on] : x.id # r.id}
  IN  [click EXCEPT ![r.on] = CASE r.op = "create" -> @ \cup {Numbered(r)}
                                [] r.op = "update" -> others \cup {Numbered(r)}
                                [] r.op = "delete" -> others]

Applied(r) ==
  /\ click' = After(r)
  /\ made' = IF r.op = "create" THEN [made EXCEPT ![r.on] = @ + 1] ELSE made

-----------------------------------------------------------------------------
(* The plans.  Each is a set of requests, or Refused.                      *)

Refused == {Request("refused", "", 0, [id |-> 0])}
Twins(objects) == \E x, y \in objects : x # y /\ x.name = y.name

Hook(name) == [id |-> 0, name |-> name, body |-> "wanted"]

PlanWebhooks(live) ==
  LET Of(n) == {h \in live : h.name = Hooks[n]}
      Step(n) ==
        IF Of(n) = {} THEN Request("create", "hooks", 0, Hook(Hooks[n]))
        ELSE LET h == CHOOSE h \in Of(n) : TRUE
             IN  IF h.body = "wanted" THEN Kept("hooks", h)
                 ELSE Request("update", "hooks", h.id, Hook(Hooks[n]))
  IN  IF Twins(live) \/ \E h \in live : h.body = "foreign"
      THEN Refused
      ELSE {Step(n) : n \in DOMAIN Hooks}

Tagged(live) == {b \in live : b.tagged}
Ours(on) == IF on = "boards" THEN Tagged(click[on]) ELSE click[on]

(* The tiles filter on the app's namespaces and count by its kind.         *)
Definition(app) ==
  [id |-> 0, name |-> app.name, tagged |-> TRUE, tiles |-> 0,
   body |-> [kind |-> app.kind, envs |-> app.envs]]

Same(live, wanted) == live.body = wanted.body

Stale(apps, live) == {b \in Tagged(live) : b.name \notin {app.name : app \in apps}}

(* faulty: a dashboard that differs is not its app's.                      *)
PlanDashboardsByBody(apps, live, prune) ==
  LET Of(app) == {b \in Tagged(live) : b.name = app.name /\ Same(b, Definition(app))}
      Step(app) == IF Of(app) = {} THEN Request("create", "boards", 0, Definition(app))
                   ELSE Kept("boards", CHOOSE b \in Of(app) : TRUE)
  IN  {Step(app) : app \in apps}

(* Each app's dashboard is kept, updated in place or created; with prune   *)
(* the other tagged ones named for an app are deleted.                     *)
PlanDashboards(apps, live, prune) ==
  LET Of(app) == {b \in Tagged(live) : b.name = app.name}
      Step(app) ==
        IF Of(app) = {} THEN Request("create", "boards", 0, Definition(app))
        ELSE LET b == CHOOSE b \in Of(app) : TRUE
             IN  IF Same(b, Definition(app)) THEN Kept("boards", b)
                 ELSE Request("update", "boards", b.id, Definition(app))
      deleted == IF prune THEN {b \in Stale(apps, live) : b.name # Other} ELSE {}
  IN  IF Twins(Tagged(live)) THEN Refused
      ELSE {Step(app) : app \in apps} \cup {Request("delete", "boards", b.id, b) : b \in deleted}

Threshold(app) == IF app.alerts = "none" THEN 0 ELSE 5

(* One alert for each preset the app has not switched off.                 *)
WantedAlerts(app, board, hook) ==
  IF Threshold(app) = 0 THEN {}
  ELSE {[id |-> 0, name |-> <<app.name, preset>>, board |-> board.id, tiles |-> board.tiles,
         threshold |-> Threshold(app), hook |-> hook] : preset \in Presets}

(* faulty: the tile an alert watches is not compared.                      *)
SameAlertOnBoard(live, wanted) ==
  [live EXCEPT !.id = 0, !.tiles = 0] = [wanted EXCEPT !.tiles = 0]

SameAlert(live, wanted) == [live EXCEPT !.id = 0] = wanted

PlanAlerts(apps, boards, live, hook, prune) ==
  LET Mine(app) == {b \in boards : b.name = app.name}
      wanted == UNION {UNION {WantedAlerts(app, b, hook) : b \in Mine(app)} : app \in apps}
      Of(w) == {a \in live : a.name = w.name}
      Step(w) ==
        IF Of(w) = {} THEN Request("create", "alerts", 0, w)
        ELSE LET a == CHOOSE a \in Of(w) : TRUE
             IN  IF SameAlert(a, w) THEN Kept("alerts", a)
                 ELSE Request("update", "alerts", a.id, w)
      stale == IF prune THEN {a \in live : \A w \in wanted : w.name # a.name} ELSE {}
  IN  IF Twins(live) \/ \E app \in apps, b \in boards : b \in Mine(app) /\ b.body.kind = "bare"
      THEN Refused
      ELSE {Step(w) : w \in wanted} \cup {Request("delete", "alerts", a.id, a) : a \in stale}

-----------------------------------------------------------------------------
(* One pass.  Whatever fails stops it; what it did so far stays.           *)

Stopped(p) == pass' = [pass EXCEPT ![p] = Idle]

Overlaps(p) == \E q \in Passes \ {p} : pass[q].pc # "idle"
Beside(p, now) ==
  IF Overlaps(p) THEN [q \in Passes |-> [now[q] EXCEPT !.beside = TRUE, !.disturbed = TRUE]] ELSE now

Disturbed ==
  pass' = [q \in Passes |-> IF pass[q].pc = "idle" THEN pass[q]
                            ELSE [pass[q] EXCEPT !.disturbed = TRUE]]

(* discover: from the cluster there may be no app, and then nothing is     *)
(* deleted; records that name none fail the pass.                          *)
Begin(p) ==
  /\ pass[p].pc = "idle"
  /\ IF p = "byHand" THEN git # {} /\ Event ELSE UNCHANGED events
  /\ LET apps == IF p = "byHand" THEN OfRecords(git) ELSE Grouped(cluster)
     IN  pass' = Beside(p, [pass EXCEPT ![p] = [Idle EXCEPT
                   !.pc = "webhooks", !.apps = apps, !.prune = p = "byHand" \/ apps # {}]])
  /\ excuses' = IF Overlaps(p) /\ ~\E q \in Passes : pass[q].beside THEN excuses + 1 ELSE excuses
  /\ UNCHANGED <<git, cluster, click, made, record, late, gone>>

(* A read is refused, the secrets or the ClickStack app cannot be had, or  *)
(* the pass runs into its time limit between two requests.                 *)
Fails(p) ==
  /\ pass[p].pc # "idle"
  /\ Event /\ Stopped(p)
  /\ UNCHANGED <<git, cluster, click, made, record, late, gone, excuses>>

NextPhase(pc) ==
  CASE pc = "hook" -> "dashboards" [] pc = "board" -> "record"
    [] pc = "record" -> "prune" [] pc = "prune" -> "alerts" [] pc = "alert" -> "idle"

(* faulty: dashboards are deleted before the console's record is written.  *)
SendingDeletes(now) == {r \in now.todo : now.pc \in {"hook", "board", "prune", "alert"}}

(* What this phase sends: its plan, with deletes of dashboards left to the *)
(* prune, by app and deletes last.                                         *)
Sending(now) ==
  {r \in now.todo : /\ now.pc \in {"hook", "board", "prune", "alert"}
                    /\ now.pc = "board" => r.op # "delete"}

Place(r) ==
  CASE r.on = "hooks" -> (CHOOSE n \in DOMAIN Hooks : Hooks[n] = r.doc.name)
    [] r.on = "boards" -> r.doc.name
    [] r.on = "alerts" -> r.doc.name[1]

Earlier(q, r) ==
  \/ q.op # "delete" /\ r.op = "delete"
  \/ (q.op = "delete" <=> r.op = "delete") /\ Place(q) < Place(r)

Due(now) == {r \in Sending(now) : \A q \in Sending(now) : ~Earlier(q, r)}

(* A phase with nothing left to send gives way to the next.                *)
Onward(now) ==
  IF now.pc \notin {"hook", "board", "prune", "alert"} \/ Sending(now) # {} THEN now
  ELSE IF now.pc = "alert" THEN Idle
  ELSE [now EXCEPT !.pc = NextPhase(@)]

(* The three listings and the plans made from them.  What is there already *)
(* is known by the id it has.                                              *)
Known(steps, on) ==
  {<<r.doc.name, r.id>> : r \in {x \in steps : x.on = on /\ x.op \in {"keep", "update"}}}

Planned(now, phase, steps) ==
  LET hooks == {x[2] : x \in {y \in Known(steps, "hooks") : y[1] = Hooks[2]}}
  IN  [now EXCEPT !.pc = phase, !.ids = @ \cup Known(steps, "boards"),
                  !.hook = IF hooks = {} THEN @ ELSE CHOOSE id \in hooks : TRUE,
                  !.todo = {r \in steps : r.op # "keep"}]

Plan(p, pc, phase, steps) ==
  /\ pass[p].pc = pc
  /\ IF steps = Refused THEN Stopped(p)
     ELSE pass' = [pass EXCEPT ![p] = Onward(Planned(@, phase, steps))]
  /\ UNCHANGED <<git, cluster, click, made, record, late, gone, excuses, events>>

ListWebhooks(p) == Plan(p, "webhooks", "hook", PlanWebhooks(click["hooks"]))
ListDashboards(p) ==
  Plan(p, "dashboards", "board", PlanDashboards(pass[p].apps, click["boards"], pass[p].prune))

(* Of two dashboards of one name the alerts are for the one listed last.   *)
ListAlerts(p) ==
  \E boards \in SUBSET Ours("boards") :
    /\ ~Twins(boards) /\ {b.name : b \in boards} = {b.name : b \in Ours("boards")}
    /\ Plan(p, "alerts", "alert",
            PlanAlerts(pass[p].apps, boards, click["alerts"], pass[p].hook, pass[p].prune))

(* What the pass learns from the answer: the webhook its alerts name, the  *)
(* dashboard to record.                                                    *)
Learnt(now, r, id) ==
  [now EXCEPT !.todo = @ \ {r}, !.disturbed = @ \/ id = 0,
              !.hook = IF r.on = "hooks" /\ r.doc.name = Hooks[2] THEN id ELSE @,
              !.ids = IF r.on = "boards" /\ r.op = "create" THEN @ \cup {<<r.doc.name, id>>} ELSE @]

Learn(p, r, id) == pass' = [pass EXCEPT ![p] = Onward(Learnt(@, r, id))]

Deleted(p, r) ==
  gone' = IF r.op = "delete" /\ r.on = "boards" /\ pass[p].beside THEN gone \cup {r.id} ELSE gone

Send(p) ==
  \E r \in Due(pass[p]) :
    /\ IF Possible(r) THEN Applied(r) /\ Deleted(p, r) /\ Learn(p, r, Numbered(r).id)
       ELSE Stopped(p) /\ UNCHANGED <<click, made, gone>>
    /\ UNCHANGED <<git, cluster, record, late, excuses, events>>

(* The dashboard is made and the answer says no id: it is not recorded.    *)
AnswerHasNoId(p) ==
  \E r \in Due(pass[p]) :
    /\ pass[p].pc = "board" /\ r.op = "create"
    /\ Event /\ Applied(r) /\ Learn(p, r, 0)
    /\ UNCHANGED <<git, cluster, record, late, gone, excuses>>

(* The request fails or its pass is killed: it was applied, will be later, *)
(* or never is.                                                            *)
Lost(p) ==
  \E r \in Due(pass[p]) :
    /\ Event /\ Stopped(p)
    /\ \/ Possible(r) /\ Applied(r) /\ Deleted(p, r) /\ UNCHANGED late
       \/ late' = late \cup {r} /\ UNCHANGED <<click, made, gone>>
    /\ UNCHANGED <<git, cluster, record, excuses>>

(* Only an entry with an id is recorded.                                   *)
Recordable(ids) == {x \in ids : x[2] # 0}

Writing(p) ==
  /\ pass[p].pc = "record"
  /\ pass[p].prune \/ pass[p].apps # {}
  /\ record # Recordable(pass[p].ids)

Record(p) ==
  /\ pass[p].pc = "record"
  /\ record' = IF Writing(p) THEN Recordable(pass[p].ids) ELSE record
  /\ pass' = [pass EXCEPT ![p] = Onward([@ EXCEPT !.pc = NextPhase("record")])]
  /\ UNCHANGED <<git, cluster, click, made, late, gone, excuses, events>>

RecordLost(p) ==
  /\ Writing(p)
  /\ Event /\ Stopped(p)
  /\ \/ record' = Recordable(pass[p].ids) /\ UNCHANGED late
     \/ /\ late' = late \cup {Request("record", "", 0, [pairs |-> Recordable(pass[p].ids)])}
        /\ UNCHANGED record
  /\ UNCHANGED <<git, cluster, click, made, gone, excuses>>

-----------------------------------------------------------------------------
(* What else happens.                                                      *)

(* A request given up is applied.  A late record names what it names.      *)
(* Another may show an object of a name where the pass after it saw none.  *)
Shows(r) ==
  /\ Possible(r) /\ r.op # "delete"
  /\ \A x \in Ours(r.on) : ~(x.id = r.id /\ x.name = r.doc.name)

Late ==
  /\ \E r \in late :
       /\ late' = late \ {r}
       /\ IF r.op = "record"
          THEN /\ record' = r.doc.pairs /\ gone' = gone \cup {x[2] : x \in r.doc.pairs}
               /\ UNCHANGED <<click, made, excuses>>
          ELSE /\ IF Possible(r) THEN Applied(r) ELSE UNCHANGED <<click, made>>
               /\ excuses' = IF Shows(r) THEN excuses + 1 ELSE excuses
               /\ gone' = IF r.op = "delete" /\ r.on = "boards" THEN gone \cup {r.id} ELSE gone
               /\ UNCHANGED record
  /\ Disturbed
  /\ UNCHANGED <<git, cluster, events>>

(* People change what the UI shows them: an object is edited, copied or    *)
(* deleted, a dashboard renamed, untagged or emptied, a webhook made one   *)
(* of another service.                                                     *)
Edits(on, x) ==
  CASE on = "boards" -> {[x EXCEPT !.body.kind = "edited"], [x EXCEPT !.body.kind = "bare"],
                         [x EXCEPT !.name = Other], [x EXCEPT !.tagged = FALSE]}
    [] on = "alerts" -> {[x EXCEPT !.threshold = 1]}
    [] on = "hooks"  -> {[x EXCEPT !.body = "edited"], [x EXCEPT !.body = "foreign"]}

Person ==
  \E on \in Kinds : \E x \in click[on] :
    /\ Event
    /\ gone' = IF on = "boards" THEN gone \cup {x.id} ELSE gone
    /\ \/ \E y \in Edits(on, x) :
            /\ click' = [click EXCEPT ![on] = (@ \ {x}) \cup {y}]
            /\ excuses' = IF y.name # x.name THEN excuses + 1 ELSE excuses
            /\ UNCHANGED made
       \/ /\ click' = [click EXCEPT ![on] = @ \ {x}]
          /\ UNCHANGED <<made, excuses>>
       \/ /\ Applied(Request("create", on, 0, x))
          /\ excuses' = excuses + 1
    /\ Disturbed
    /\ UNCHANGED <<git, cluster, record, late>>

GitMoves ==
  /\ Event /\ git' \in Worlds \ {git}
  /\ Disturbed
  /\ UNCHANGED <<cluster, click, made, record, late, gone, excuses>>

(* Flux applies the units one by one.                                      *)
Flux ==
  /\ \E i \in git \cup cluster :
       LET others == {j \in cluster : <<j.app, j.env>> # <<i.app, i.env>>}
           wanted == {j \in git : <<j.app, j.env>> = <<i.app, i.env>>}
       IN  cluster' = others \cup wanted /\ cluster' # cluster
  /\ Disturbed
  /\ UNCHANGED <<git, click, made, record, late, gone, excuses, events>>

(* The cluster is built anew and its volumes put back.                     *)
Rebuilt ==
  /\ Event /\ cluster # {} /\ cluster' = {}
  /\ Disturbed
  /\ UNCHANGED <<git, click, made, record, late, gone, excuses>>

Works(p) ==
  \/ ListWebhooks(p) \/ ListDashboards(p) \/ ListAlerts(p)
  \/ Send(p) \/ Record(p)

Next ==
  \/ \E p \in Passes :
       \/ Begin(p) \/ Works(p)
       \/ Fails(p) \/ AnswerHasNoId(p) \/ Lost(p) \/ RecordLost(p)
  \/ Late \/ Person \/ GitMoves \/ Flux \/ Rebuilt

Spec == Init /\ [][Next]_vars

-----------------------------------------------------------------------------
(* The console links to each app's dashboard by the record.  What it names *)
(* is a dashboard ClickStack has, of that app, unless a person took it     *)
(* away, another pass deleted it meanwhile, or a late write put an old     *)
(* record back (record: "the console would link to dashboards that are     *)
(* gone").                                                                 *)
RecordNamesLive ==
  \A x \in record :
    x[2] \in gone \/ \E b \in Ours("boards") : b.id = x[2] /\ b.name = x[1]

(* No pass by itself makes a second dashboard, alert or webhook of a name, *)
(* whatever requests fail or lose their answer: it takes two passes at     *)
(* once, a request applied after the next pass listed, or a person.        *)
TwinsNeedExcuses ==
  \A on \in Kinds : \A x \in Ours(on) : Cardinality({y \in Ours(on) : y.name = x.name}) <= 1 + excuses

AsWanted(apps) ==
  LET boards == Ours("boards")
      Board(app) == CHOOSE b \in boards : b.name = app.name
      Notify == CHOOSE h \in click["hooks"] : h.name = Hooks[2]
  IN  /\ {[h EXCEPT !.id = 0] : h \in click["hooks"]} = {Hook(Hooks[1]), Hook(Hooks[2])}
      /\ apps # {} =>
           /\ \A app \in apps : \E b \in boards : b.name = app.name /\ Same(b, Definition(app))
           /\ record = {<<app.name, Board(app).id>> : app \in apps}
           /\ {b.name : b \in boards} \subseteq {app.name : app \in apps} \cup {Other}
           /\ {[a EXCEPT !.id = 0] : a \in click["alerts"]} =
                UNION {WantedAlerts(app, Board(app), Notify.id) : app \in apps}

NeedsPerson ==
  \/ Twins(Ours("boards")) \/ Twins(click["alerts"]) \/ Twins(click["hooks"])
  \/ \E h \in click["hooks"] : h.body = "foreign"

(* One pass that nothing disturbs repairs whatever earlier passes, lost    *)
(* requests and people left behind: after it ClickStack holds what the     *)
(* apps call for and the record says so.  Only two objects of one name, or *)
(* a reserved webhook of another service, stop it, until a person removes  *)
(* one.                                                                    *)
OnePassRepairs ==
  [][\A p \in Passes : \A apps \in {pass[p].apps} :
       pass[p].pc # "idle" /\ ~pass[p].disturbed /\ events' = events /\ pass'[p].pc = "idle"
       => NeedsPerson' \/ AsWanted(apps)']_vars

=============================================================================
