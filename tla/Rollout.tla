------------------------------- MODULE Rollout -------------------------------
(***************************************************************************)
(* One instance from its records to its pods: the kernel compiles it or    *)
(* refuses, the chart renders it (as pinned, or changed as another chart   *)
(* might), the app policy judges what is rendered, and what it passes the  *)
(* cluster runs: pods start, are replaced and end as their workloads say.  *)
(* The cluster's side is external and a definition of its own, by which    *)
(* the policy's arithmetic and its comparisons are judged.                 *)
(***************************************************************************)
EXTENDS Policy

CONSTANTS Instances,      \* pairs of facts and profile, rendered as the pinned chart does
          Changed,        \* the pairs on which changes of the chart are tried, two at a time
          Many            \* a cluster's nodes, and the runs of a CronJob that overlap where they may

VARIABLES known,          \* the facts, the profile, what they compile to and what the chart renders of it
          passed,         \* accepted by the kernel and by the policy
          pods            \* of each workload: the pods that run of the roll-out before, and of this one

rollout == <<known, passed, pods>>

-----------------------------------------------------------------------------
(* Changes of the rendered objects.                                        *)

OnKind(kind, F(_), R) == [n \in DOMAIN R |-> IF R[n].kind = kind THEN [R[n] EXCEPT !.body = F(@)] ELSE R[n]]
OnWorkload(F(_), R) == OnKind("Deployment", F, R)
OnPod(F(_), R) == OnWorkload(LAMBDA b : [b EXCEPT !.pod = F(@)], R)
OnContainer(F(_), R) == OnPod(LAMBDA q : [q EXCEPT !.containers = [n \in DOMAIN @ |-> F(@[n])]], R)
OnEnv(F(_), R) == OnContainer(LAMBDA k : [k EXCEPT !.env = F(@)], R)
OnMounts(name, F(_), R) ==
  OnContainer(LAMBDA k : [k EXCEPT !.mounts = {IF m.name = name THEN F(m) ELSE m : m \in @}], R)
OnVolumes(type, F(_), R) ==
  OnPod(LAMBDA q : [q EXCEPT !.volumes = [n \in DOMAIN @ |-> IF @[n].type = type THEN F(@[n]) ELSE @[n]]], R)
Without(kind, R) == SelectSeq(R, LAMBDA d : d.kind # kind)

Small == [cpu |-> 10, memory |-> 64, limit |-> 64]
Large == [cpu |-> 10, memory |-> 400, limit |-> 400]
Extra(name, resources, restart) == [Container(name, resources, <<>>, <<>>, {}) EXCEPT !.restart = restart]
Started(name, resources, restart, R) ==
  OnPod(LAMBDA q : [q EXCEPT !.inits = Append(@, Extra(name, resources, restart))], R)

(* Another workload: a small pod of its own, which mounts claim if there is one. *)
Other(kind, claim, replicas, concurrency) ==
  LET tokens == <<Volume("tokens", "tokens", <<"notify">>)>>
      held == IF claim = Nothing THEN <<>> ELSE <<Volume("data", "claim", claim)>>
      pod == Pod(<<[Extra("extra", Small, Nothing) EXCEPT !.mounts = {Mount("tokens", "/var/run/swhurl/tokens", TRUE)}]>>, tokens \o held)
  IN  Document(kind, "other", Space,
        [Workload({"other"}, pod) EXCEPT !.replicas = replicas, !.concurrency = concurrency, !.strategy = "Recreate"])

WorkloadChange(e, R) ==
  CASE e = "replicas"  -> OnWorkload(LAMBDA b : [b EXCEPT !.replicas = 2], R)
    [] e = "omitted"   -> OnWorkload(LAMBDA b : [b EXCEPT !.replicas = Nothing], R)
    [] e = "rolling"   -> OnWorkload(LAMBDA b : [b EXCEPT !.strategy = Nothing], R)
    [] e = "surge"     -> OnWorkload(LAMBDA b : [b EXCEPT !.strategy = Nothing, !.surge = 2], R)
    [] e = "labels"    -> OnWorkload(LAMBDA b : [b EXCEPT !.labels = {"other"}], R)
    [] e = "automount" -> OnPod(LAMBDA q : [q EXCEPT !.automount = TRUE], R)
    [] e = "host"      -> OnPod(LAMBDA q : [q EXCEPT !.host = TRUE], R)
    [] e = "hostPath"  -> OnPod(LAMBDA q : [q EXCEPT !.volumes = Append(@, Volume("node", "host", "/"))], R)
    [] e = "init"      -> Started("init", Small, Nothing, R)
    [] e = "large"     -> Started("large", Large, Nothing, R)
    [] e = "sidecar"   -> Started("sidecar", Small, "Always", R)
    [] e = "beside"    -> OnPod(LAMBDA q : [q EXCEPT !.containers = Append(@, Extra("extra", Small, Nothing))], R)

ContainerChange(e, R) ==
  CASE e = "root"       -> OnContainer(LAMBDA k : [k EXCEPT !.uid = "root"], R)
    [] e = "mayBeRoot"  -> OnContainer(LAMBDA k : [k EXCEPT !.nonRoot = FALSE], R)
    [] e = "uid"        -> OnPod(LAMBDA q : [q EXCEPT !.uid = "another"], R)
    [] e = "escalation" -> OnContainer(LAMBDA k : [k EXCEPT !.escalation = Nothing], R)
    [] e = "adds"       -> OnContainer(LAMBDA k : [k EXCEPT !.adds = TRUE], R)
    [] e = "keeps"      -> OnContainer(LAMBDA k : [k EXCEPT !.drops = FALSE], R)
    [] e = "tagged"     -> OnContainer(LAMBDA k : [k EXCEPT !.image.digest = FALSE, !.image.tag = "1.2"], R)
    [] e = "image"      -> OnContainer(LAMBDA k : [k EXCEPT !.image.of = "another"], R)
    [] e = "unlimited"  -> OnContainer(LAMBDA k : [k EXCEPT !.resources.limit = 0], R)
    [] e = "resources"  -> OnContainer(LAMBDA k : [k EXCEPT !.resources.memory = 1], R)
    [] e = "probes"     -> OnContainer(LAMBDA k : [k EXCEPT !.probes = Nothing], R)
    [] e = "unordered"  -> OnEnv(LAMBDA v : Reverse(v), R)
    [] e = "twice"      -> OnEnv(LAMBDA v : <<Variable("SWHURL_APP", "other", {})>> \o v, R)
    [] e = "podIP"      -> OnEnv(LAMBDA v : [n \in DOMAIN v |-> IF v[n].name = "HOST_IP" THEN Variable("HOST_IP", "status.podIP", {}) ELSE v[n]], R)
    [] e = "dropped"    -> OnEnv(LAMBDA v : SelectSeq(v, LAMBDA x : x.name # "SWHURL_NOTIFY_URL"), R)
    [] e = "more"       -> OnEnv(LAMBDA v : Append(v, Variable("SWHURL_SERVICE_c", "c", {})), R)
    [] e = "own"        -> OnEnv(LAMBDA v : Append(v, Variable("COLOUR", "blue", {})), R)
    [] e = "reversed"   -> OnContainer(LAMBDA k : [k EXCEPT !.from = Reverse(@)], R)
    [] e = "unread"     -> OnContainer(LAMBDA k : [k EXCEPT !.from = <<>>], R)
    [] e = "tokenWritable" -> OnMounts("tokens", LAMBDA m : [m EXCEPT !.readOnly = FALSE], R)
    [] e = "tokenPart"     -> OnMounts("tokens", LAMBDA m : [m EXCEPT !.sub = TRUE], R)
    [] e = "noToken"       -> OnVolumes("tokens", LAMBDA v : [v EXCEPT !.of = <<>>], R)
    [] e = "moreTokens"    -> OnVolumes("tokens", LAMBDA v : [v EXCEPT !.of = Append(@, "c")], R)
    [] e = "keysPart"      -> OnMounts(Keys, LAMBDA m : [m EXCEPT !.sub = TRUE], R)
    [] e = "dataReadOnly"  -> OnMounts("data", LAMBDA m : [m EXCEPT !.readOnly = TRUE], R)
    [] e = "dataElsewhere" -> OnMounts("data", LAMBDA m : [m EXCEPT !.path = "/srv"], R)

ObjectChange(e, c, R) ==
  CASE e = "namespace" -> [n \in DOMAIN R |-> [R[n] EXCEPT !.space = "other"]]
    [] e = "noSpace"   -> [n \in DOMAIN R |-> [R[n] EXCEPT !.space = ""]]
    [] e = "noService" -> Without("Service", R)
    [] e = "external"  -> OnKind("Service", LAMBDA b : [b EXCEPT !.inside = FALSE], R)
    [] e = "selects"   -> OnKind("Service", LAMBDA b : [b EXCEPT !.selects = {"other"}], R)
    [] e = "class"     -> OnKind("PersistentVolumeClaim", LAMBDA b : [b EXCEPT !.class = "local"], R)
    [] e = "size"      -> OnKind("PersistentVolumeClaim", LAMBDA b : [b EXCEPT !.size = @ + 1], R)
    [] e = "shared"    -> OnKind("PersistentVolumeClaim", LAMBDA b : [b EXCEPT !.once = FALSE], R)
    [] e = "noClaim"   -> Without("PersistentVolumeClaim", R)
    [] e = "deployment"  -> Append(R, Other("Deployment", Claim(c), 1, Nothing))
    [] e = "statefulSet" -> Append(R, Other("StatefulSet", Nothing, 2, Nothing))
    [] e = "daemonSet"   -> Append(R, Other("DaemonSet", Nothing, Nothing, Nothing))
    [] e = "pod"         -> Append(R, Other("Pod", Claim(c), Nothing, Nothing))
    [] e = "nightly"     -> Append(R, Other("CronJob", Nothing, Nothing, "Forbid"))
    [] e = "overlapping" -> Append(R, Other("CronJob", Claim(c), Nothing, "Allow"))
    [] e = "otherClaim"  -> R \o <<Document("PersistentVolumeClaim", "other", Space, [class |-> "retained", once |-> TRUE, size |-> 1]),
                                   Other("StatefulSet", "other", 2, Nothing)>>
    [] e = "policy"      -> Append(R, Policy("other", "instance", {<<"world", 80>>}, {}))
    [] e = "route"       -> Append(R, [Route(c.f) EXCEPT !.name = "other", !.body.signIn = FALSE])
    [] e = "stream"      -> Append(R, Document("Stream", "other", Space, "other"))
    [] e = "quota"       -> Append(R, Document("ResourceQuota", "other", Space, c.p.quota))
    [] e = "again"       -> R \o SubSeq(R, 1, 1)

WorkloadChanges == {"replicas", "omitted", "rolling", "surge", "labels", "automount", "host", "hostPath", "init", "large", "sidecar", "beside"}
ContainerChanges ==
  {"root", "mayBeRoot", "uid", "escalation", "adds", "keeps", "tagged", "image", "unlimited", "resources", "probes", "unordered", "twice",
   "podIP", "dropped", "more", "own", "reversed", "unread", "tokenWritable", "tokenPart", "noToken", "moreTokens", "keysPart",
   "dataReadOnly", "dataElsewhere"}
ObjectChanges ==
  {"namespace", "noSpace", "noService", "external", "selects", "class", "size", "shared", "noClaim", "deployment", "statefulSet",
   "daemonSet", "pod", "nightly", "overlapping", "otherClaim", "policy", "route", "stream", "quota", "again"}

Edited(e, c, R) ==
  CASE e \in WorkloadChanges -> WorkloadChange(e, R)
    [] e \in ContainerChanges -> ContainerChange(e, R)
    [] e \in ObjectChanges -> ObjectChange(e, c, R)

AllChanges == WorkloadChanges \cup ContainerChanges \cup ObjectChanges

Pinned(f, p) == Known(f, p, Chart(Release(f, p)))
Otherwise(f, p, changes) ==
  LET c == Pinned(f, p) IN Known(f, p, FoldSet(LAMBDA e, R : Edited(e, c, R), c.rendered, changes))

-----------------------------------------------------------------------------
(* What the cluster runs of it.                                            *)

Replicas(w) == Or(w.body.replicas, 1)
AtOnce(w) == Or(w.body.parallelism, 1)
Ends(w) == w.kind \in {"Job", "CronJob"}

(* A workload whose pods all ran before this roll-out; a job's start with it. *)
Before(w) == [old |-> IF w.kind \in {"Deployment", "StatefulSet"} THEN Replicas(w) ELSE 0, new |-> 0]

Init ==
  /\ \/ \E i \in Instances : known = Pinned(i[1], i[2])
     \/ \E i \in Changed, a, b \in AllChanges : known = Otherwise(i[1], i[2], {a, b})
  /\ passed = (Accepted(known.f, known.p) /\ Check(known))
  /\ pods = IF passed THEN LET ws == Workloads(known) IN [n \in DOMAIN ws |-> Before(ws[n])] ELSE <<>>

MayStart(w, q) ==
  CASE w.kind = "Pod" -> q.new < 1
    [] w.kind = "DaemonSet" -> q.new < Many
    [] Ends(w) -> q.new < AtOnce(w) * (IF w.kind = "CronJob" /\ w.body.concurrency # "Forbid" THEN Many ELSE 1)
    [] w.kind = "StatefulSet" -> q.old + q.new < Replicas(w)
    [] w.kind = "Deployment" /\ w.body.strategy = "Recreate" -> q.old = 0 /\ q.new < Replicas(w)
    [] OTHER -> q.new < Replicas(w) /\ q.old + q.new < Replicas(w) + Or(w.body.surge, (25 * Replicas(w) + 99) \div 100)

Start(n, w) == MayStart(w, pods[n]) /\ pods' = [pods EXCEPT ![n].new = @ + 1]

(* A pod of the roll-out before ends, or a job's does its work. *)
Replaced(n) == pods[n].old > 0 /\ pods' = [pods EXCEPT ![n].old = @ - 1]
Done(n, w) == Ends(w) /\ pods[n].new > 0 /\ pods' = [pods EXCEPT ![n].new = @ - 1]

Next ==
  /\ passed /\ UNCHANGED <<known, passed>>
  /\ LET ws == Workloads(known)
     IN  \E n \in DOMAIN ws : Start(n, ws[n]) \/ Replaced(n) \/ Done(n, ws[n])

-----------------------------------------------------------------------------
(* What the instance's team and the platform rely on.                      *)

Total(r, containers) == FoldLeft(LAMBDA s, k : s + k.resources[r], 0, containers)
Sidecars(inits) == SelectSeq(inits, LAMBDA k : k.restart = "Always")

(* The most of r a pod holds over its life: at each start-up stage, then with all its containers. *)
PodUse(pod, r) ==
  LET stage(k) == Total(r, Sidecars(SubSeq(pod.inits, 1, k - 1))) + pod.inits[k].resources[r]
  IN  Max({stage(k) : k \in DOMAIN pod.inits} \cup {Total(r, Sidecars(pod.inits)) + Total(r, pod.containers)})

Running(n) == pods[n].old + pods[n].new

WithinQuota(c, ws) ==
  /\ FoldLeft(LAMBDA s, n : s + Running(n), 0, [n \in DOMAIN ws |-> n]) <= c.p.quota.pods
  /\ \A r \in {"cpu", "memory", "limit"} :
       FoldLeft(LAMBDA s, n : s + Running(n) * PodUse(ws[n].body.pod, r), 0, [n \in DOMAIN ws |-> n]) <= c.p.quota[r]

(* What a process finds in its environment: the last definition, with what was defined before it put in. *)
Evaluated(env) ==
  FoldLeft(LAMBDA seen, v : [x \in DOMAIN seen \cup {v.name} |->
             IF x # v.name THEN seen[x]
             ELSE <<v.is, {<<u, IF u \in DOMAIN seen THEN seen[u][1] ELSE "as written">> : u \in v.uses}>>], <<>>, env)

AsCompiled(c, k) ==
  LET got == Evaluated(k.env)
  IN  /\ \A v \in c.release.env : v.name \in DOMAIN got /\ got[v.name] = <<v.is, {<<u, HostField>> : u \in v.uses}>>
      /\ \A name \in PlatformNames \cap DOMAIN got : \E v \in c.release.env : v.name = name
      /\ k.from = c.release.from

Contained(k, pod) ==
  /\ Or(k.uid, pod.uid) # "root" /\ Or(k.nonRoot, pod.nonRoot) = TRUE
  /\ k.escalation = FALSE /\ ~k.adds /\ k.drops
  /\ \A r \in DOMAIN k.resources : k.resources[r] > 0

(* What the policy passed runs within what was granted.  In every state of *)
(* every roll-out: the running pods, each at the peak of its start-up, fit *)
(* the namespace's quota (v2/policy/quota.go); no workload has two pods on *)
(* a volume of one writer (storage.go); no pod holds the API's token or    *)
(* reaches its node, and no container may become root (pods.go); the app's *)
(* processes find the environment the compiler stated, whatever the order  *)
(* and the repetitions it is rendered with (runtime.go); the app's pods    *)
(* are under the compiled network policy, and no other opens more          *)
(* (objects.go).                                                           *)
PassedRunsContained ==
  passed =>
    LET c == known
        ws == Workloads(c)
    IN  /\ WithinQuota(c, ws)
        /\ \A n \in DOMAIN ws :
             LET w == ws[n]
                 claims == {w.body.pod.volumes[m].of : m \in {v \in DOMAIN w.body.pod.volumes : w.body.pod.volumes[v].type = "claim"}}
             IN  /\ claims \cap OnceClaims(c) # {} => Running(n) <= 1
                 /\ ~w.body.pod.automount /\ ~w.body.pod.host
                 /\ \A m \in DOMAIN w.body.pod.volumes : w.body.pod.volumes[m].type # "host"
                 /\ \A k \in ToSet(w.body.pod.inits \o w.body.pod.containers) : Contained(k, w.body.pod)
                 /\ IsMain(w) => /\ \A k \in ToSet(w.body.pod.containers) : k.name = "main" => AsCompiled(c, k)
                                 /\ "instance" \in w.body.labels
        /\ \A d \in ToSet(c.rendered) : d.kind # "NetworkPolicy" /\ (d.kind = "Ingress" => d.body.signIn)

(* The profile's fields that the documents state something of, by block, and the blocks it does not give whole. *)
Stated(f, p) ==
  LET ds == Documents(f, p)
      network == {d \in ds : d.kind = "NetworkPolicy"}
      to == {e[1] : e \in UNION {d.body.egress : d \in network}}
      from == {e[1] : e \in UNION {d.body.ingress : d \in network}}
      release == Release(f, p)
      given == {v.name : v \in release.env}
      jobs == {d \in ds : d.kind = "CronJob"}
      encrypted == \E d \in jobs : \E k \in ToSet(d.body.pod.containers) : \E v \in ToSet(k.env) : v.name = "AGE_RECIPIENT"
      When(so, fields) == IF so THEN fields ELSE {}
  IN  [routing |-> When({d \in ds : d.kind = "Ingress"} # {} \/ "traefik" \in from, RoutingFields),
       nats |-> When("broker" \in to \/ "SWHURL_EVENTS_URL" \in given, {"url", "namespace", "port", "labels"}),
       egress |-> When("proxy" \in to \/ "HTTP_PROXY" \in given, {"address", "namespace", "labels"}),
       telemetry |-> When("OTEL_EXPORTER_OTLP_ENDPOINT" \in given, {"endpoint", "protocol"}) \cup When("collector" \in to, {"port"}),
       backup |-> When(jobs # {}, BackupFields),
       auth |-> When(Keys \in ToSet(release.from), {"issuer", "keys"}),
       network |-> When("pods" \in to \cup from, {"podCIDR"}),
       storage |-> When(release.data # Nothing /\ release.data.created, {"class"}),
       dns |-> When("dns" \in to, {"namespace", "labels"}),
       sops |-> When(encrypted, {"recipient"})]

Missing(f, p) == LET stated == Stated(f, p) IN {b \in DOMAIN stated : ~(stated[b] \subseteq p[b])}

(* What an accepted instance's pods refer to is rendered, or is another    *)
(* unit's that its unit waits for.                                         *)
Provided(f, p) ==
  LET c == Pinned(f, p)
      here == {<<d.kind, d.name>> : d \in ToSet(c.objects)} \cup (IF Unit(f).decrypts THEN {<<"Secret", Seed>>} ELSE {})
      pods_ == {w.body.pod : w \in ToSet(Workloads(c))}
  IN  /\ \A q \in pods_ : \A k \in ToSet(q.containers) : \A r \in ToSet(k.from) :
           r = Keys \/ <<"ConfigMap", r>> \in here \/ <<"Secret", r>> \in here
      /\ \A q \in pods_ : \A v \in ToSet(Volumes(q, "claim")) :
           v.of = f.claim \/ <<"PersistentVolumeClaim", v.of>> \in here
      /\ {d \in c.source : d.kind \in {"Stream", "Consumer"}} # {} => "platform-nats" \in Unit(f).waits
      /\ <<"CronJob", BackupName>> \in here => {"platform-backup"} \subseteq Unit(f).waits

(* The kernel refuses an instance, or compiles all of it.  What it accepts *)
(* the policy passes as the pinned chart renders it, with a backup's pod   *)
(* and an update's beside the app's (compile.go fits counts no other, so   *)
(* no certificate solver's); its documents state nothing of a block that   *)
(* the profile does not give, but for the name service and the encryption  *)
(* recipient, which the kernel does not ask for (profile.go); nothing a    *)
(* pod refers to is missing from the folder (render.go); the inventory, by *)
(* which other instances' claims are refused, is what the folder holds     *)
(* (records.go); a database may be restored by a pod its backup's policy   *)
(* selects (restore.go).                                                   *)
CompiledIsWhole ==
  LET f == known.f
      p == known.p
  IN  Accepted(f, p) =>
        /\ Check(Pinned(f, p))
        /\ Missing(f, p) \subseteq {"dns", "sops"} /\ Provided(f, p)
        /\ Inventory(f) = {<<d.kind, d.name>> : d \in Documents(f, p)} \cup {<<"Secret", Seed>> : n \in {1} \cap (IF f.key THEN {1} ELSE {})}
        /\ Database(f) =>
             LET policy == CHOOSE d \in Documents(f, p) : d.kind = "NetworkPolicy" /\ d.name = BackupName
                 job == RestoreJob(f, "run")
             IN  /\ Restorable(f, p)
                 /\ policy.body.selects \subseteq job.body.labels
                 /\ job.body.pod.volumes[1] = BackupJob(f, p).body.pod.volumes[1]
=============================================================================
