------------------------------- MODULE Verify -------------------------------
(***************************************************************************)
(* The platform checks (`swhurl-v2 verify --scope platform`, the command   *)
(* behind `make verify-platform`): one run takes the files of a checkout   *)
(* and what its caller supplied, reads the cluster, the registry, the      *)
(* object store and GitHub one read after the other, takes the time once   *)
(* every read is done, and judges.  What it reads stands still, time does  *)
(* not.                                                                    *)
(*                                                                         *)
(* The checks share nothing but the run's clock, so a behaviour follows    *)
(* one of them (`check`).  A fact is what one read would find: an object   *)
(* that is there, with what the check looks at, or none (`Gone`); a read   *)
(* that fails finds neither (`Unread`).                                    *)
(***************************************************************************)
EXTENDS Integers, FiniteSets

CONSTANTS
    Fresh,          \* platformFresh, heartbeatFresh and the age of the oldest backup allowed
    Until           \* the latest time of a run

VARIABLES
    check,      \* the check this behaviour follows
    world,      \* its facts, as its reads find them
    asked,      \* the facts read so far
    failed,     \* those among them whose read failed
    now,        \* the clock
    report      \* "reading", "none" (the run stopped) or "judged"

vars == <<check, world, asked, failed, now, report>>

There(v) == [status |-> "present", is |-> v]
Gone     == [status |-> "absent"]
Unread   == [status |-> "unavailable"]
Present(read) == read.status = "present"
Absent(read)  == read.status = "absent"

Listed(V)  == {There(v) : v \in V}
Maybe(V)   == Listed(V) \cup {Gone}

Never   == -1       \* no time is stated
Garbled == -2       \* one is that cannot be read
Times   == {Never, Garbled} \cup 0..Until - 1

(***************************************************************************)
(* The facts of each check, in what a cluster, a checkout or a caller can  *)
(* have.                                                                   *)
(***************************************************************************)
Workload  == [ready : 0..2, wanted : {2}]
Running   == Maybe({[ready |-> r, wanted |-> 1] : r \in 0..1})
Cron      == Maybe([suspended : BOOLEAN, success : Times])
Hooks     == {"none", "disabled", "lacking", "silent", "200", "502"}
Archives  == SUBSET [stamp : {Until - Fresh - 1, Until - Fresh}, described : BOOLEAN]
Queries   == Listed({"met", "unmet", "garbled"})

\* One compiled instance, whose files name the objects to read.
IsolationFacts == [compiled : Maybe(BOOLEAN), teams : Maybe(BOOLEAN), namespaces : Maybe({"none", "same", "moved"}),
                   quotas : Listed(BOOLEAN), policies : Listed(BOOLEAN)]
ImageFacts     == [records : Maybe({"digest", "older", "garbled", "none"}),
                   policies : Maybe(SUBSET BOOLEAN), newest : Listed({"digest"})]
SigningFacts   == [profile : Maybe(SUBSET {"keys", "issuer"}), keys : Listed({TRUE})]
EventFacts     == [compiled : Maybe(BOOLEAN), server : Running, controller : Running,
                   objects : Listed({"none", "unready", "ready"})]
PortFacts      == [allocation : Maybe({"each", "shared", "short"}), proxy : Maybe(Workload)]
ChannelFacts   == [teams : Maybe({"none", "routed", "unrouted"}), routes : Maybe({"same", "other", "garbled"}),
                   secrets : Listed(BOOLEAN)]
MongoFacts     == [credentials : Maybe({TRUE}), job : Maybe(BOOLEAN), listing : Listed(Archives)]
DatabaseFacts  == [releases : Listed({"none", "database", "garbled"}), profile : Maybe(BOOLEAN),
                   credentials : Maybe({TRUE}), listing : Listed(Archives)]
ConsoleFacts   == [tag : Maybe({"src-a", "src-b"}), release : Maybe({"src-a", "other", "none"}), jobs : Maybe({TRUE})]
PushFacts      == [token : Maybe({TRUE}), settings : Maybe(BOOLEAN), receiver : Maybe(BOOLEAN), hooks : Listed(Hooks)]
ImageHookFacts == [token : Maybe({TRUE}), releases : Listed({"ours", "other", "garbled"}), settings : Maybe(BOOLEAN),
                   receiver : Maybe(BOOLEAN), hooks : Listed(Hooks)]
TokenFacts     == [secret : Maybe({"set", "unset"}), source : Maybe(BOOLEAN), accepted : Listed({"yes", "expiring", "no"})]
\* The release and the arguments flux.json states, and what a controller runs.
ControllerFacts == [settings : Maybe(BOOLEAN), deployment : Maybe({"pinned", "drifted", "garbled"})]
KeyFacts       == [collector : Maybe({"a", "b", "empty"}), team : Maybe({"a", "two"})]
TeamFacts      == [deployment : Maybe(BOOLEAN), pods : Maybe(BOOLEAN), team : Listed({"exists", "none", "garbled"})]
RetentionFacts == [telemetry : Queries, system : Queries, merges : Queries, claim : Maybe(BOOLEAN), volume : Maybe(BOOLEAN)]
\* What `systemctl show` printed on the host, in a file its caller names.
TimerFacts     == [facts : Maybe([timer : {"active", "dead", "none"}, success : BOOLEAN, exit : Times])]

Worlds == [
    fluxUnits     |-> [units : Maybe(SUBSET BOOLEAN)],
    ingress       |-> [traefik : Maybe(BOOLEAN)],
    alerts        |-> [alerts : Maybe({"none", "provider", "other"}), providers : Maybe(SUBSET {"provider"})],
    notifyService |-> [deployment : Maybe([ready : 0..1, image : {"a", "b", "none"}]),
                       console : Maybe({"a", "b", "none"})],
    dashboards    |-> [job : Cron],
    notifications |-> [job : Cron],
    images        |-> ImageFacts,
    isolation     |-> IsolationFacts,
    signing       |-> SigningFacts,
    events        |-> EventFacts,
    egress        |-> PortFacts,
    channels      |-> ChannelFacts,
    backups       |-> MongoFacts,
    databases     |-> DatabaseFacts,
    console       |-> ConsoleFacts,
    pushWebhook   |-> PushFacts,
    imageWebhooks |-> ImageHookFacts,
    consoleToken  |-> TokenFacts,
    controllers   |-> ControllerFacts,
    secrets       |-> [collector : Maybe({"a", "b", "empty"})],
    ingestion     |-> KeyFacts,
    registration  |-> TeamFacts,
    retention     |-> RetentionFacts,
    heartbeat     |-> TimerFacts]

\* What a run is given, or reads from the checkout before any read that can fail.
Given == [
    images |-> {"records"}, isolation |-> {"compiled", "teams"}, signing |-> {"profile"}, events |-> {"compiled"},
    egress |-> {"allocation"}, channels |-> {"teams"}, backups |-> {"credentials"},
    databases |-> {"releases", "profile", "credentials"}, console |-> {"tag"}, pushWebhook |-> {"token"},
    imageWebhooks |-> {"token", "releases"}, controllers |-> {"settings"}, heartbeat |-> {"facts"}]
GivenTo(c) == IF c \in DOMAIN Given THEN Given[c] ELSE {}

(* faulty: what a read failed to find is taken not to be there. *)
EvidenceGone == [f \in DOMAIN world |-> IF f \in asked \ failed THEN world[f] ELSE IF f \in asked THEN Gone ELSE Unread]

\* A fact that was not read is as one whose read failed: neither is there.
Evidence == [f \in DOMAIN world |-> IF f \in asked \ failed THEN world[f] ELSE Unread]

(***************************************************************************)
(* The judges: the levels of the entries a check makes of its evidence.    *)
(***************************************************************************)
Level(good) == IF good THEN "ok" ELSE "bad"
Warned(good) == IF good THEN "ok" ELSE "warn"

FluxUnits(e) ==
    IF ~Present(e.units) \/ e.units.is = {} THEN {"bad"} ELSE {Level(ready) : ready \in e.units.is}

Ingress(e) == {Level(Present(e.traefik) /\ e.traefik.is)}

\* The Flux alert may be missing; one that is there must name a provider that is.
Alerts(e) ==
    IF ~Present(e.alerts) \/ ~Present(e.providers) THEN {"bad"}
    ELSE IF e.alerts.is = "none" THEN {"warn"}
    ELSE {Level(e.alerts.is \in e.providers.is)}

NotifyService(e) ==
    IF \/ ~Present(e.deployment) \/ ~Present(e.console)
       \/ e.deployment.is.image = "none" \/ e.deployment.is.ready = 0 \/ e.console.is = "none"
    THEN {"bad"} ELSE {Warned(e.deployment.is.image = e.console.is)}

\* The console's two CronJobs: the time is taken after the read.
CronJob(e) ==
    {Level(/\ Present(e.job) /\ ~e.job.is.suspended
           /\ e.job.is.success \notin {Never, Garbled} /\ now - e.job.is.success <= Fresh)}

\* Only a policy Flux calls Ready has a tag to compare; a staging record the checkout lacks may be behind main.
Images(e) ==
    IF ~Present(e.policies) THEN {"bad"}
    ELSE IF e.policies.is = {} THEN {"ok"}
    ELSE {IF ~ready THEN "bad"
          ELSE IF Absent(e.records) THEN "warn"
          ELSE IF e.records.is \in {"garbled", "none"} THEN "bad"
          ELSE Warned(Present(e.newest) /\ e.newest.is = e.records.is) : ready \in e.policies.is}

\* One compiled instance.  A folder that cannot be read names no namespace, so nothing more is asked of it.
Isolation(e) ==
    IF \/ ~Present(e.namespaces)
       \/ Present(e.compiled) /\ e.compiled.is /\ (~Present(e.quotas) \/ ~Present(e.policies))
    THEN {"bad"}
    ELSE (IF Present(e.teams) THEN {} ELSE {"bad"}) \cup
         (IF Absent(e.compiled) THEN {Level(Present(e.teams))}
          ELSE {Level(/\ e.compiled.is /\ e.namespaces.is = "same" /\ e.quotas.is /\ e.policies.is
                      /\ Present(e.teams) => e.teams.is)})

\* What the profile states as the cluster does.
Signing(e) ==
    IF ~Present(e.keys) \/ ~Present(e.profile) THEN {"bad"}
    ELSE {Level(f \in e.profile.is) : f \in {"keys", "issuer"}}

EventWorkload(read) == Level(Present(read) /\ read.is.ready > 0)
Events(e) ==
    IF \/ e.server = Unread \/ e.controller = Unread
       \/ Present(e.compiled) /\ e.compiled.is /\ ~Present(e.objects)
    THEN {"bad"}
    ELSE {EventWorkload(e.server), EventWorkload(e.controller)} \cup
         (IF Absent(e.compiled) THEN {} ELSE {Level(e.compiled.is /\ e.objects.is = "ready")})

Egress(e) ==
    IF ~Present(e.proxy) THEN {"bad"}
    ELSE {IF e.proxy.is.ready = 0 THEN "bad" ELSE Warned(e.proxy.is.ready >= e.proxy.is.wanted),
          Level(Present(e.allocation) /\ e.allocation.is = "each")}

\* A team without a channel is warned of; a channel without its Secret is not passed.
Channels(e) ==
    IF ~Present(e.teams) \/ e.routes = Unread \/ ~Present(e.secrets) THEN {"bad"}
    ELSE IF Present(e.routes) /\ e.routes.is = "garbled" THEN {"bad"}
    ELSE {Level(Present(e.routes) /\ e.routes.is = "same")} \cup
         (IF e.teams.is = "routed" THEN {Level(e.secrets.is)} ELSE {}) \cup
         (IF e.teams.is = "unrouted" THEN {"warn"} ELSE {})

\* The newest archive whose metadata is beside it, by the stamp in its name.
Newest(objects) == {o.stamp : o \in {p \in objects : p.described /\ \A q \in objects : q.described => q.stamp <= p.stamp}}
Archive(credentials, listing) ==
    Level(/\ Present(credentials) /\ Present(listing)
          /\ \E taken \in Newest(listing.is) : now - taken <= Fresh)
MongoBackup(e) == {IF Present(e.job) /\ e.job.is THEN Archive(e.credentials, e.listing) ELSE "bad"}
Databases(e) ==
    IF e.releases.is = "garbled" \/ ~Present(e.profile) \/ ~e.profile.is THEN {"bad"}
    ELSE IF e.releases.is = "none" THEN {"ok"}
    ELSE {Archive(e.credentials, e.listing)}

Console(e) ==
    IF ~Present(e.release) \/ e.release.is = "none" THEN {"bad"}
    ELSE (IF Present(e.jobs) THEN {} ELSE {"bad"}) \cup
         {IF Absent(e.tag) THEN "bad" ELSE Warned(e.release.is = e.tag.is)}

\* The repository and the host the cluster's own objects name.
Installed(read) == Present(read) /\ read.is
Receiver(read) == Level(Present(read) /\ read.is)
Supplied(token) == IF Present(token) THEN {} ELSE {"bad"}
PushWebhook(e) ==
    {Receiver(e.receiver)} \cup Supplied(e.token) \cup
    (IF ~Installed(e.settings) THEN {"bad"}
     ELSE IF Absent(e.token) THEN {}
     ELSE {Warned(Present(e.hooks) /\ e.hooks.is \in {"200", "lacking"})})
ImageWebhooks(e) ==
    {Receiver(e.receiver)} \cup Supplied(e.token) \cup
    (IF ~Installed(e.settings) \/ e.releases.is = "garbled" THEN {"bad"}
     ELSE IF Absent(e.token) \/ e.releases.is = "other" THEN {}
     ELSE {Warned(Present(e.hooks) /\ e.hooks.is \in {"silent", "200"})})

\* The token the console needs; its second one may be unset, which warns.
ConsoleToken(e) ==
    IF e.secret = Unread \/ ~Installed(e.source) THEN {"bad"}
    ELSE IF Absent(e.secret) \/ e.secret.is = "unset" THEN {"bad", "warn"}
    ELSE IF ~Present(e.accepted) \/ e.accepted.is = "no" THEN {"bad"}
    ELSE {Warned(e.accepted.is = "yes")}

Controllers(e) ==
    IF ~Present(e.settings) \/ ~e.settings.is \/ e.deployment = Unread THEN {"bad"}
    ELSE IF Absent(e.deployment) THEN {"warn"}
    ELSE {IF e.deployment.is = "garbled" THEN "bad" ELSE Warned(e.deployment.is = "pinned")}

Held(read) == Present(read) /\ read.is # "empty"
RuntimeSecrets(e) == {Level(Held(e.collector))}
\* Two teams have no one key to compare with.
Ingestion(e) ==
    {Level(/\ Present(e.team) /\ e.team.is # "two"
           /\ Held(e.collector) /\ e.collector.is = e.team.is)}

Registration(e) == {Level(Present(e.team) /\ e.team.is = "exists")}

Query(read) == Level(Present(read) /\ read.is = "met")
Retention(e) == {Query(e.telemetry), Query(e.system), Query(e.merges), Level(Present(e.volume) /\ e.volume.is)}

\* An inactive timer is one entry; the service's last run is another, left out only when it is sound.
Heartbeat(e) ==
    IF Absent(e.facts) \/ e.facts.is.timer = "none" THEN {"bad"}
    ELSE LET active == e.facts.is.timer = "active"
             sound == /\ e.facts.is.success /\ e.facts.is.exit \notin {Never, Garbled}
                      /\ now - e.facts.is.exit \in 0..Fresh
         IN (IF active THEN {} ELSE {"bad"}) \cup
            (IF ~sound THEN {"bad"} ELSE IF active THEN {"ok"} ELSE {})

Judge(e) ==
    CASE check = "fluxUnits" -> FluxUnits(e)
      [] check = "ingress" -> Ingress(e)
      [] check = "alerts" -> Alerts(e)
      [] check = "notifyService" -> NotifyService(e)
      [] check \in {"dashboards", "notifications"} -> CronJob(e)
      [] check = "images" -> Images(e)
      [] check = "isolation" -> Isolation(e)
      [] check = "signing" -> Signing(e)
      [] check = "events" -> Events(e)
      [] check = "egress" -> Egress(e)
      [] check = "channels" -> Channels(e)
      [] check = "backups" -> MongoBackup(e)
      [] check = "databases" -> Databases(e)
      [] check = "console" -> Console(e)
      [] check = "pushWebhook" -> PushWebhook(e)
      [] check = "imageWebhooks" -> ImageWebhooks(e)
      [] check = "consoleToken" -> ConsoleToken(e)
      [] check = "controllers" -> Controllers(e)
      [] check = "secrets" -> RuntimeSecrets(e)
      [] check = "ingestion" -> Ingestion(e)
      [] check = "registration" -> Registration(e)
      [] check = "retention" -> Retention(e)
      [] check = "heartbeat" -> Heartbeat(e)

(***************************************************************************)
(* The run.                                                                *)
(***************************************************************************)
Said(read, v) == Present(read) /\ read.is = v

ReadsImages(e, f)    == f = "newest" => Present(e.policies) /\ TRUE \in e.policies.is
                                        /\ Present(e.records) /\ e.records.is \notin {"garbled", "none"}
ReadsIsolation(e, f) == f \in {"quotas", "policies"} => Said(e.compiled, TRUE)
ReadsEvents(e, f)    == f = "objects" => Said(e.compiled, TRUE)
ReadsBackups(e, f)   == f = "listing" => Said(e.job, TRUE) /\ Present(e.credentials)
ReadsDatabases(e, f) == f = "listing" => /\ Said(e.releases, "database") /\ Said(e.profile, TRUE)
                                         /\ Present(e.credentials)
ReadsHooks(e, f)     == f = "hooks" => /\ Present(e.token) /\ Said(e.settings, TRUE)
                                       /\ check = "imageWebhooks" => Said(e.releases, "ours")
ReadsTokens(e, f)    == f = "accepted" => Said(e.secret, "set") /\ Said(e.source, TRUE)
ReadsControllers(e, f) == f = "deployment" => Said(e.settings, TRUE)
ReadsPods(e, f)      == /\ f = "pods" => Said(e.deployment, TRUE)
                        /\ check = "registration" /\ f = "team" => Said(e.pods, TRUE)
                        /\ f = "volume" => Said(e.claim, TRUE)

\* What is read only when an earlier read named it.
Wanted(f) ==
    CASE check = "images" -> ReadsImages(Evidence, f)
      [] check = "isolation" -> ReadsIsolation(Evidence, f)
      [] check = "events" -> ReadsEvents(Evidence, f)
      [] check = "backups" -> ReadsBackups(Evidence, f)
      [] check = "databases" -> ReadsDatabases(Evidence, f)
      [] check \in {"pushWebhook", "imageWebhooks"} -> ReadsHooks(Evidence, f)
      [] check = "consoleToken" -> ReadsTokens(Evidence, f)
      [] check = "controllers" -> ReadsControllers(Evidence, f)
      [] check \in {"registration", "retention"} -> ReadsPods(Evidence, f)
      [] OTHER -> TRUE

Timed == {"dashboards", "notifications", "backups", "databases", "heartbeat"}

Init ==
    /\ check \in DOMAIN Worlds
    /\ world \in Worlds[check]
    /\ asked = GivenTo(check) /\ failed = {}
    /\ now = Until - 1
    /\ report = "reading"

Ask(f) ==
    /\ report = "reading" /\ f \notin asked /\ Wanted(f)
    /\ asked' = asked \cup {f}
    /\ failed' \in {failed, failed \cup {f}}
    /\ UNCHANGED <<check, world, now, report>>

\* A request an adapter refuses to make is an error, with no report.
Refuse ==
    /\ report = "reading" /\ asked # DOMAIN world
    /\ report' = "none"
    /\ UNCHANGED <<check, world, asked, failed, now>>

Report ==
    /\ report = "reading" /\ \A f \in DOMAIN world \ asked : ~Wanted(f)
    /\ report' = "judged"
    /\ UNCHANGED <<check, world, asked, failed, now>>

Tick ==
    /\ report = "reading" /\ check \in Timed /\ now < Until
    /\ now' = now + 1
    /\ UNCHANGED <<check, world, asked, failed, report>>

Next == \/ \E f \in DOMAIN world : Ask(f)
        \/ Refuse \/ Report \/ Tick

Spec == Init /\ [][Next]_vars

(***************************************************************************)
(* What passing means, check by check, as the catalogue of the checks and  *)
(* the operations page's table state it.                                   *)
(***************************************************************************)
Recent(time) == time \in 0..now /\ now - time <= Fresh
BackedUp == Recent(CHOOSE t \in {o.stamp : o \in {p \in world.listing.is : p.described}} \cup {Never} :
                      \A o \in world.listing.is : o.described => o.stamp <= t)

Promised ==
    CASE check = "fluxUnits" -> Present(world.units) /\ world.units.is = {TRUE}
      [] check = "ingress" -> world.traefik = There(TRUE)
      [] check = "alerts" -> /\ Present(world.alerts) /\ Present(world.providers)
                             /\ world.alerts.is = "none" \/ world.alerts.is \in world.providers.is
      [] check = "notifyService" -> /\ Present(world.deployment) /\ world.deployment.is.ready > 0
                                    /\ world.deployment.is.image # "none"
                                    /\ Present(world.console) /\ world.console.is # "none"
      [] check \in {"dashboards", "notifications"} ->
            Present(world.job) /\ ~world.job.is.suspended /\ Recent(world.job.is.success)
      [] check = "images" -> /\ Present(world.policies) /\ FALSE \notin world.policies.is
                             /\ world.policies.is # {} /\ Present(world.records)
                                => world.records.is \in {"digest", "older"}
      [] check = "isolation" -> /\ Present(world.namespaces) /\ Present(world.teams)
                                /\ Present(world.compiled) =>
                                     /\ world.compiled.is /\ world.namespaces.is = "same" /\ world.teams.is
                                     /\ world.quotas.is /\ world.policies.is
      [] check = "signing" -> Present(world.profile) /\ world.profile.is = {"keys", "issuer"}
      [] check = "events" -> /\ \A read \in {world.server, world.controller} : Present(read) /\ read.is.ready > 0
                             /\ Present(world.compiled) => world.compiled.is /\ world.objects.is = "ready"
      [] check = "egress" -> /\ Present(world.proxy) /\ world.proxy.is.ready > 0
                             /\ world.allocation = There("each")
      [] check = "channels" -> /\ Present(world.teams) /\ world.routes = There("same")
                               /\ world.teams.is = "routed" => world.secrets.is
      [] check = "backups" -> world.job = There(TRUE) /\ Present(world.credentials) /\ BackedUp
      [] check = "databases" -> /\ world.releases.is # "garbled" /\ world.profile = There(TRUE)
                                /\ world.releases.is = "database" => Present(world.credentials) /\ BackedUp
      [] check = "console" -> /\ Present(world.release) /\ world.release.is # "none"
                              /\ Present(world.tag) /\ Present(world.jobs)
      [] check = "pushWebhook" -> Present(world.token) /\ world.settings = There(TRUE) /\ world.receiver = There(TRUE)
      [] check = "imageWebhooks" -> /\ Present(world.token) /\ world.settings = There(TRUE)
                                    /\ world.receiver = There(TRUE) /\ world.releases.is # "garbled"
      [] check = "consoleToken" -> /\ world.secret = There("set") /\ world.source = There(TRUE)
                                   /\ world.accepted.is # "no"
      [] check = "controllers" -> /\ world.settings = There(TRUE)
                                  /\ Present(world.deployment) => world.deployment.is # "garbled"
      [] check = "secrets" -> Present(world.collector) /\ world.collector.is # "empty"
      [] check = "ingestion" -> Present(world.team) /\ world.collector = world.team
      [] check = "registration" -> /\ world.deployment = There(TRUE) /\ world.pods = There(TRUE)
                                   /\ world.team.is = "exists"
      [] check = "retention" -> /\ \A read \in {world.telemetry, world.system, world.merges} : read.is = "met"
                                /\ world.claim = There(TRUE) /\ world.volume = There(TRUE)
      [] check = "heartbeat" -> /\ Present(world.facts) /\ world.facts.is.timer = "active"
                                /\ world.facts.is.success /\ Recent(world.facts.is.exit)

(***************************************************************************)
(* A report passes a check exactly when every read it made was answered,   *)
(* but for the registry and the hooks, whose loss only warns, and what the *)
(* catalogue says passing means is so: a read that failed, an object that  *)
(* is not there, an input that was not supplied or a time that went by     *)
(* under the reads never passes, and nothing else fails.  No check is      *)
(* silent: EncodePlatformReport refuses one without entries.               *)
(***************************************************************************)
Passed == "bad" \notin Judge(Evidence)
VerdictIsTruth ==
    report = "judged" => /\ Judge(Evidence) # {}
                         /\ Passed <=> failed \subseteq {"newest", "hooks"} /\ Promised
=============================================================================
