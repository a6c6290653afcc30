-------------------------------- MODULE Policy --------------------------------
(***************************************************************************)
(* The app policy (v2/policy): what `swhurl-v2 policy` finds in the objects *)
(* the chart renders of an instance's compiled documents, and the pods the *)
(* cluster then runs of them.                                              *)
(*                                                                         *)
(* c is what one check knows: f and p, what they compile to (source, with  *)
(* the release's values apart) and the rendered objects, in order.         *)
(* External: the chart, the changes a chart of another version or with     *)
(* other defaults may make to what it renders, and Kubernetes.             *)
(***************************************************************************)
EXTENDS Compiler

Listed(S) == FoldSet(LAMBDA e, s : Append(s, e), <<>>, S)

Source(f, p) == {d \in Documents(f, p) : d.kind # "HelmRelease"}
Known(f, p, rendered) ==
  [f |-> f, p |-> p, release |-> Release(f, p), source |-> Source(f, p), rendered |-> rendered,
   objects |-> Listed(Source(f, p)) \o rendered]

-----------------------------------------------------------------------------
(* The chart, external.                                                    *)

Names == <<"DATABASE_PATH", "HOST_IP", "HTTPS_PROXY", "HTTP_PROXY", "JAVA_TOOL_OPTIONS", "NODE_USE_ENV_PROXY", "NO_PROXY",
  "OTEL_EXPORTER_OTLP_ENDPOINT", "SWHURL_ALLOWED_CALLERS_FILE", "SWHURL_APP", "SWHURL_AUTH_ISSUER_FILE",
  "SWHURL_AUTH_KEYS_FILE", "SWHURL_ENV", "SWHURL_EVENTS_NKEY", "SWHURL_EVENTS_PUBLISH", "SWHURL_EVENTS_SUBSCRIBE",
  "SWHURL_EVENTS_URL", "SWHURL_NOTIFY_URL", "SWHURL_SERVICE_b", "SWHURL_SERVICE_c">>

PlatformNames == {Names[n] : n \in 9 .. Len(Names)}   \* the ones that begin with SWHURL_

(* The environment in the order of its names. *)
InOrder(env) == FlattenSeq([n \in DOMAIN Names |-> Listed({v \in env : v.name = Names[n]})])

AppPod(r) ==
  LET mounts == {Mount("tokens", "/var/run/swhurl/tokens", TRUE)} \cup {Mount(m[1], m[2], TRUE) : m \in r.material}
                \cup {Mount("data", "/data", FALSE) : d \in {r.data} \ {Nothing}}
      main == [Container("main", r.resources, InOrder(r.env), r.from, mounts)
                 EXCEPT !.port = IF r.port > 0 THEN r.port ELSE Nothing, !.probes = IF r.port > 0 THEN "health" ELSE Nothing]
  IN  Pod(<<main>>,
          <<Volume("tokens", "tokens", r.tokens)>> \o Listed({Volume(m[1], "map", m[1]) : m \in r.material})
            \o Listed({Volume("data", "claim", d.claim) : d \in {r.data} \ {Nothing}}))

ServiceOf(r) == Document("Service", App, Space, [inside |-> TRUE, selects |-> {"instance"}, port |-> r.port, target |-> r.port])
ClaimOf(r) == Document("PersistentVolumeClaim", App, Space, [class |-> "retained", once |-> TRUE, size |-> r.data.size])

Chart(r) ==
  <<Document("Deployment", App, Space,
      [Workload({"instance"}, AppPod(r)) EXCEPT !.replicas = r.replicas, !.strategy = "Recreate"])>>
  \o (IF r.port > 0 THEN <<ServiceOf(r)>> ELSE <<>>)
  \o (IF r.data # Nothing /\ r.data.created THEN <<ClaimOf(r)>> ELSE <<>>)

-----------------------------------------------------------------------------
(* What the policy reads.                                                  *)

Inside(d) == d.space \in {"", Space}
WorkloadKinds == {"Pod", "Deployment", "StatefulSet", "DaemonSet", "Job", "CronJob"}
Workloads(c) == SelectSeq(c.objects, LAMBDA d : d.kind \in WorkloadKinds)
OfKind(c, kind) == SelectSeq(c.objects, LAMBDA d : d.kind = kind /\ Inside(d))
Each(s, P(_)) == \A n \in DOMAIN s : P(s[n])
Some(s, P(_)) == \E n \in DOMAIN s : P(s[n])
Or(value, fallback) == IF value = Nothing THEN fallback ELSE value

IsMain(d) == d.kind = "Deployment" /\ d.name = App /\ Inside(d)
IsBackup(c, d) == Database(c.f) /\ d.kind = "CronJob" /\ d.name = BackupName /\ Inside(d)

(* The compiler's objects of the instance, and every object of the chart, are in its namespace. *)
CheckNamespaces(c) ==
  /\ \A d \in c.source : d.kind \in {"Namespace", "ImageRepository", "ImagePolicy"} \/ Inside(d)
  /\ Each(c.rendered, Inside)

(* No object is rendered twice. *)
ReadWorkloads(c) ==
  LET all == c.objects
  IN  \A m, n \in DOMAIN all : m # n => <<all[m].kind, all[m].name, all[m].space>> # <<all[n].kind, all[n].name, all[n].space>>

Volumes(pod, type) == SelectSeq(pod.volumes, LAMBDA v : v.type = type)
MountAt(container, name, path) == {m \in container.mounts : m.name = name /\ m.path = path}
WholeReadOnly(m) == m.readOnly /\ ~m.sub

LastOf(env, name) == LET n == Max({m \in DOMAIN env : env[m].name = name}) IN env[n]
Defined(env) == {env[n].name : n \in DOMAIN env}

(* The variables the compiler states, with their values, and no other of the platform's. *)
CheckEnvironment(c, container) ==
  /\ \A v \in c.release.env : v.name \in Defined(container.env) /\ LastOf(container.env, v.name) = v
  /\ \A n \in DOMAIN container.env :
       container.env[n].name \in PlatformNames => \E v \in c.release.env : v.name = container.env[n].name
  /\ container.from = c.release.from

CheckMaterial(c, pod, container) ==
  \A m \in c.release.material :
    Some(Volumes(pod, "map"), LAMBDA v : v.of = m[1] /\ \E at \in MountAt(container, v.name, m[2]) : WholeReadOnly(at))

CheckPodRuntime(c, pod, container) ==
  /\ Or(container.uid, pod.uid) = "release"
  /\ container.probes = IF c.release.port > 0 THEN "health" ELSE container.probes

(* The compiled application runs: its copies, its container, and what that is given. *)
CheckRuntime(c, w) ==
  LET main == SelectSeq(w.body.pod.containers, LAMBDA k : k.name = "main")
  IN  /\ Or(w.body.replicas, 1) = c.release.replicas
      /\ Len(main) = 1
      /\ Each(main, LAMBDA k : /\ k.image = [of |-> "main", tag |-> Nothing, digest |-> TRUE]
                               /\ k.resources = c.release.resources
                               /\ CheckEnvironment(c, k)
                               /\ CheckPodRuntime(c, w.body.pod, k)
                               /\ CheckMaterial(c, w.body.pod, k))

CheckSelector(c, w) ==
  \E d \in c.source : d.kind = "NetworkPolicy" /\ d.name = App /\ d.body.selects \subseteq w.body.labels

CheckMain(c) ==
  LET main == SelectSeq(Workloads(c), IsMain)
  IN  /\ Len(main) = 1
      /\ Each(main, LAMBDA w : CheckRuntime(c, w) /\ CheckSelector(c, w))
      /\ Each(Workloads(c), LAMBDA w : w.body.pod.containers # <<>>)

Claim(c) == IF c.release.data = Nothing THEN Nothing ELSE c.release.data.claim
Writable(pod, claim) == SelectSeq(pod.volumes, LAMBDA v : v.type = "claim" /\ v.of = claim /\ ~v.readOnly)

(* Every claim has the platform's class; the data's has one writer, its size, and a place in the app. *)
CheckStorage(c) ==
  /\ Each(OfKind(c, "PersistentVolumeClaim"),
          LAMBDA d : /\ d.body.class = "retained" /\ c.p.storage # {}
                     /\ d.name = Claim(c) => d.body.once /\ d.body.size = c.release.data.size)
  /\ Claim(c) # Nothing =>
       /\ c.release.data.created => Some(OfKind(c, "PersistentVolumeClaim"), LAMBDA d : d.name = Claim(c))
       /\ Each(SelectSeq(Workloads(c), IsMain), LAMBDA w :
            LET volumes == Writable(w.body.pod, Claim(c))
                main == SelectSeq(w.body.pod.containers, LAMBDA k : k.name = "main")
            IN  /\ volumes # <<>> /\ main # <<>>
                /\ \E m \in MountAt(main[Len(main)], volumes[1].name, "/data") : ~m.readOnly)

CheckRoutes(c) ==
  LET routes == OfKind(c, "Ingress")
      compiled == {d.body : d \in {e \in c.source : e.kind = "Ingress"}}
  IN  /\ c.f.exposure = "authenticated-web" => Len(routes) = 1
      /\ c.f.exposure = "private" => routes = <<>>
      /\ Each(routes, LAMBDA d : /\ d.body.hosts # {} /\ d.body.hosts \subseteq d.body.tls
                                 /\ d.body.inside # {} => d.body.signIn
                                 /\ c.f.exposure = "authenticated-web" => d.body.hosts = d.body.inside
                                 /\ \A e \in compiled : d.body = e)

(* faulty: an update runs no pod beside the old ones. *)
PodCountWithoutSurge(w) == Or(w.body.replicas, 1)

(* The pods a workload may run at once: a quarter more, rounded up, for an update. *)
PodCount(w) ==
  CASE w.kind \in {"Pod", "DaemonSet"} -> 1
    [] w.kind \in {"Job", "CronJob"} -> Or(w.body.parallelism, 1)
    [] w.kind = "StatefulSet" \/ w.body.strategy = "Recreate" -> Or(w.body.replicas, 1)
    [] OTHER -> Or(w.body.replicas, 1) + Or(w.body.surge, (Or(w.body.replicas, 1) + 3) \div 4)

(* A DaemonSet, or a CronJob whose runs may overlap, has no count. *)
Counted(w) == w.kind # "DaemonSet" /\ (w.kind = "CronJob" => w.body.concurrency = "Forbid")

Zero == [cpu |-> 0, memory |-> 0, limit |-> 0]
Plus(a, b) == [r \in DOMAIN Zero |-> a[r] + b[r]]
Most(a, b) == [r \in DOMAIN Zero |-> Max({a[r], b[r]})]

(* The larger of what runs in the end and of what any start-up needs beside the sidecars started before it. *)
PodCapacity(pod) ==
  LET Begun(so, k) ==
        LET used == Plus(so.running, k.resources)
        IN  [running |-> IF k.restart = "Always" THEN used ELSE so.running, peak |-> Most(so.peak, used)]
      started == FoldLeft(Begun, [running |-> Zero, peak |-> Zero], pod.inits)
      regular == FoldLeft(LAMBDA so, k : Plus(so, k.resources), Zero, pod.containers)
  IN  Most(Plus(regular, started.running), started.peak)

CheckQuota(c) ==
  LET Add(total, w) == [r \in DOMAIN c.p.quota |->
        total[r] + PodCount(w) * (IF r = "pods" THEN 1 ELSE PodCapacity(w.body.pod)[r])]
      total == FoldLeft(Add, [r \in DOMAIN c.p.quota |-> 0], Workloads(c))
  IN  /\ \A r \in DOMAIN total : total[r] <= c.p.quota[r]
      /\ Each(Workloads(c), Counted)

CheckQuotaObjects(c) == LET quotas == OfKind(c, "ResourceQuota") IN Len(quotas) = 1 /\ quotas[1].body = c.p.quota

(* A Service exactly for what serves HTTP, inside the cluster, to the application's pods on its port. *)
CheckServices(c) ==
  LET services == OfKind(c, "Service")
  IN  /\ Len(services) = (IF c.release.port > 0 THEN 1 ELSE 0)
      /\ Each(services, LAMBDA d :
           /\ d.body.inside /\ d.name = App
           /\ Some(SelectSeq(Workloads(c), IsMain), LAMBDA w : d.body.selects # {} /\ d.body.selects \subseteq w.body.labels)
           /\ d.body.port = c.release.port
           /\ \/ d.body.target = c.release.port
              \/ /\ d.body.target = "http"
                 /\ Some(SelectSeq(Workloads(c), IsMain), LAMBDA w : Some(w.body.pod.containers, LAMBDA k : k.port = c.release.port)))

CheckEvents(c) ==
  LET Events(s) == {s[n] : n \in {m \in DOMAIN s : s[m].kind \in {"Stream", "Consumer"}}}
  IN  Events(c.objects) = Events(Listed(c.source))

(* Every policy is a compiled one, and selects some pods rather than all. *)
CheckNetworkPolicies(c) ==
  Each(SelectSeq(c.objects, LAMBDA d : d.kind = "NetworkPolicy"),
       LAMBDA d : (IF Inside(d) THEN [d EXCEPT !.space = Space] ELSE d) \in c.source /\ d.body.selects # {})

(* A variable is defined once, and before another's value holds it. *)
CheckOrdering(env) ==
  \A n \in DOMAIN env :
    /\ \A m \in 1 .. n - 1 : env[m].name # env[n].name
    /\ \A u \in env[n].uses : \E m \in 1 .. n - 1 : env[m].name = u /\ (u = "HOST_IP") = (env[m].is = HostField)

CheckImage(c, image) == image.digest \/ (image.tag \notin {Nothing, "latest"} /\ c.f.env # "prod")

CheckContainer(c, pod, k) ==
  /\ Or(k.nonRoot, pod.nonRoot) = TRUE /\ Or(k.uid, pod.uid) # "root"
  /\ k.escalation = FALSE /\ ~k.adds /\ k.drops
  /\ CheckImage(c, k.image)
  /\ \A r \in DOMAIN k.resources : k.resources[r] > 0
  /\ CheckOrdering(k.env)

CheckPod(c, w) ==
  /\ w.body.pod.automount = FALSE /\ ~w.body.pod.host
  /\ Volumes(w.body.pod, "host") = <<>>
  /\ Each(w.body.pod.inits \o w.body.pod.containers, LAMBDA k : CheckContainer(c, w.body.pod, k))

OnceClaims(c) ==
  ({Claim(c)} \ {Nothing})
  \cup {d.name : d \in {e \in ToSet(OfKind(c, "PersistentVolumeClaim")) : e.body.once}}

(* faulty: the data's claim alone has one writer. *)
CheckDataWriter(c, w) ==
  Some(w.body.pod.volumes, LAMBDA v : v.type = "claim" /\ v.of = Claim(c)) =>
    Or(w.body.replicas, 1) <= 1 /\ Or(w.body.parallelism, 1) <= 1

CheckSingleWriter(c, w) ==
  Inside(w) /\ Some(w.body.pod.volumes, LAMBDA v : v.type = "claim" /\ v.of \in OnceClaims(c)) =>
    /\ Or(w.body.replicas, 1) <= 1 /\ Or(w.body.parallelism, 1) <= 1
    /\ w.kind = "Deployment" => w.body.strategy = "Recreate"
    /\ w.kind = "CronJob" => w.body.concurrency = "Forbid"

(* The tokens of a pod's volumes: none of the backup's, the compiled ones of any other, whole and read-only. *)
TokensOf(pod) == FlattenSeq([n \in DOMAIN Volumes(pod, "tokens") |-> Volumes(pod, "tokens")[n].of])

CheckTokens(c, w) ==
  IF IsBackup(c, w) THEN TokensOf(w.body.pod) = <<>>
  ELSE /\ TokensOf(w.body.pod) = c.release.tokens
       /\ Each(w.body.pod.containers, LAMBDA k : Each(Volumes(w.body.pod, "tokens"), LAMBDA v :
            v.of = <<>> \/ \E m \in MountAt(k, v.name, "/var/run/swhurl/tokens") : WholeReadOnly(m)))

Check(c) ==
  /\ CheckNamespaces(c) /\ ReadWorkloads(c)
  /\ CheckMain(c) /\ CheckStorage(c) /\ CheckRoutes(c) /\ CheckEvents(c)
  /\ CheckQuota(c) /\ CheckServices(c) /\ CheckQuotaObjects(c) /\ CheckNetworkPolicies(c)
  /\ Each(Workloads(c), LAMBDA w : CheckPod(c, w) /\ CheckSingleWriter(c, w) /\ CheckTokens(c, w))

=============================================================================
