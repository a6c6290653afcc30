------------------------------- MODULE Compiler -------------------------------
(***************************************************************************)
(* What v2's kernel makes of one instance: the refusals of its records and *)
(* of the platform profile, and the documents of its folder (v2/kernel:    *)
(* records.go, profile.go, compile.go, render.go, events.go).              *)
(*                                                                         *)
(* f is what the records and the resolution say of the instance, p the     *)
(* profile.  A block of the profile is the set of its fields that are      *)
(* stated and well formed.  Names, addresses and formats are abstracted to *)
(* what one document must find in another.                                 *)
(***************************************************************************)
EXTENDS Integers, FiniteSets, FiniteSetsExt, Sequences, SequencesExt

CONSTANT Nothing

App == "app"
Space == "app-env"     \* the instance's namespace

-----------------------------------------------------------------------------
(* The profile's blocks: left out, or whole.                                *)

RoutingFields == {"domain", "class", "middleware", "issuer", "namespace", "labels"}
RoutingOK(p) == p.routing \in {{}, RoutingFields}

BackupFields == {"image", "digest", "uri", "region", "writerNamespace", "writerName"}
BackupOK(p) == p.backup = {} \/ BackupFields \subseteq p.backup

DNSOK(p) == p.dns \in {{}, {"namespace", "labels"}}
SOPSOK(p) == p.sops \in {{}, {"recipient"}}

(* The token issuer with its keys; the proxy. *)
PeersOK(p) == p.auth \in {{}, {"issuer", "keys"}} /\ p.egress \in {{}, {"address", "namespace", "labels"}}

(* A collector's network needs the port its endpoint names. *)
TelemetryOK(p) ==
  \/ p.telemetry \cap {"endpoint", "protocol"} = {}
  \/ {"endpoint", "protocol"} \subseteq p.telemetry /\ ("cidr" \in p.telemetry => "port" \in p.telemetry)

NATSCounted == {"url", "namespace", "secret", "controller", "console"}

(* faulty: the broker's port and labels are not asked for. *)
NATSHalfOK(p) == p.nats \cap NATSCounted = {} \/ NATSCounted \subseteq p.nats

NATSOK(p) == p.nats \cap NATSCounted = {} \/ NATSCounted \cup {"port", "labels"} \subseteq p.nats

QuotaOK(p) == {p.quota.pods, p.quota.cpu, p.quota.memory, p.quota.limit, p.cpu} \subseteq Nat \ {0}

ProfileOK(p) ==
  /\ QuotaOK(p)
  /\ TelemetryOK(p) /\ RoutingOK(p) /\ PeersOK(p) /\ DNSOK(p) /\ SOPSOK(p) /\ BackupOK(p) /\ NATSOK(p)

-----------------------------------------------------------------------------
(* The instance's records.                                                 *)

Web(f) == f.kind = "web"
Database(f) == f.database = "sqlite"

(* A web release serves HTTP and may describe it, a worker neither. *)
ReleaseOK(f) ==
  /\ f.kind \in {"web", "worker"} /\ Web(f) = (f.port > 0)
  /\ f.database \in {"", "sqlite"}
  /\ f.api => Web(f)
  /\ f.api = ("api" \in f.documents)
  /\ (f.publishes # {} => "events" \in f.documents)

InstanceOK(f) ==
  /\ f.replicas >= 0 /\ f.memory >= 1
  /\ f.exposure \in {"private", "authenticated-web"}
  /\ (f.receives # {} => f.key)

(* What the backup pod asks for, in milli-CPU and MiB. *)
BackupPod == [cpu |-> 10, memory |-> 64, limit |-> 256]

(* faulty: nothing is left for the backup pod. *)
FitsWithoutBackup(f, p) ==
  LET running == IF f.replicas > 0 THEN f.replicas + 1 ELSE 0
  IN  /\ running <= p.quota.pods /\ running * p.cpu <= p.quota.cpu
      /\ running * f.memory <= p.quota.memory /\ running * f.memory <= p.quota.limit

(* The replicas, one more for an update, and a database's backup pod beside them. *)
Fits(f, p) ==
  LET running == IF f.replicas > 0 THEN f.replicas + 1 ELSE 0
      jobs == IF Database(f) THEN 1 ELSE 0
  IN  /\ running + jobs <= p.quota.pods
      /\ running * p.cpu + jobs * BackupPod.cpu <= p.quota.cpu
      /\ running * f.memory + jobs * BackupPod.memory <= p.quota.memory
      /\ running * f.memory + jobs * BackupPod.limit <= p.quota.limit

(* Only a web workload has a Service, which a route and a caller need. *)
KindOK(f) == Web(f) \/ (f.exposure = "private" /\ f.callers = {})

ExposureOK(f, p) == f.exposure = "authenticated-web" => "domain" \in p.routing

EventsOK(f, p) ==
  /\ f.key => {"url", "namespace"} \subseteq p.nats
  /\ f.publishes # {} \/ f.receives # {} => f.key

(* faulty: a callee is rendered where no key could verify a caller. *)
CallsWithoutKeysOK(f, p) == f.calls # <<>> \/ f.callers # {} => p.network # {}

CallsOK(f, p) ==
  /\ f.callers # {} => p.auth # {}
  /\ f.calls # <<>> \/ f.callers # {} => p.network # {}

(* A volume is created from a size and the platform's class, or adopted from its claim. *)
VolumeOK(f, p) ==
  /\ (f.size > 0) # (f.claim # Nothing)
  /\ (f.claim = Nothing => p.storage # {})

(* A database has one writer, is backed up, and leaves through the proxy. *)
StorageOK(f, p) ==
  IF Database(f) THEN VolumeOK(f, p) /\ f.replicas <= 1 /\ p.backup # {} /\ f.egress # Nothing
  ELSE f.size = 0 /\ f.claim = Nothing

EgressOK(f, p) == f.egress # Nothing => f.egress \in 1024 .. 65535 /\ "address" \in p.egress

PlatformFactsOK(f, p) == (f.telemetry => {"endpoint", "protocol"} \subseteq p.telemetry) /\ p.notify # {}

(* Flux substitutes in every document of a database's folder: none may look like a reference. *)
SubstitutionOK(f) == Database(f) => ~f.reference

Accepted(f, p) ==
  /\ ReleaseOK(f) /\ InstanceOK(f) /\ ProfileOK(p)
  /\ Fits(f, p) /\ ExposureOK(f, p)
  /\ KindOK(f) /\ EventsOK(f, p) /\ CallsOK(f, p) /\ StorageOK(f, p)
  /\ EgressOK(f, p) /\ PlatformFactsOK(f, p) /\ SubstitutionOK(f)

-----------------------------------------------------------------------------
(* The documents.  One is its kind, its name, its namespace and its body.   *)

Document(kind, name, space, body) == [kind |-> kind, name |-> name, space |-> space, body |-> body]
Variable(name, is, uses) == [name |-> name, is |-> is, uses |-> uses]
HostField == "status.hostIP"
Seed == "app-events"
Callers == "app-callers"
Keys == "swhurl-auth"
BackupName == "app-backup"

(* What an instance reads to sign in, and of what it publishes and receives. *)
EventsEnv(f) ==
  IF ~f.key THEN {}
  ELSE {Variable("SWHURL_EVENTS_NKEY", "key", {}), Variable("SWHURL_EVENTS_URL", "broker", {})}
       \cup {Variable("SWHURL_EVENTS_PUBLISH", f.publishes, {}) : n \in f.publishes}
       \cup {Variable("SWHURL_EVENTS_SUBSCRIBE", f.receives, {}) : n \in f.receives}

Proxied(f) ==
  IF f.egress = Nothing THEN {}
  ELSE {Variable(n, f.egress, {}) : n \in {"HTTP_PROXY", "HTTPS_PROXY"}}
       \cup {Variable("NO_PROXY", "inside", {"HOST_IP"}), Variable("NODE_USE_ENV_PROXY", "1", {}),
             Variable("JAVA_TOOL_OPTIONS", f.egress, {"HOST_IP"})}

(* A callee reads who may call it, and what verifies them, from files. *)
CalleeEnv(f) ==
  IF f.callers = {} THEN {}
  ELSE {Variable(n, "file", {}) : n \in {"SWHURL_ALLOWED_CALLERS_FILE", "SWHURL_AUTH_ISSUER_FILE", "SWHURL_AUTH_KEYS_FILE"}}

Environment(f) ==
  {Variable("SWHURL_APP", App, {}), Variable("SWHURL_ENV", f.env, {}), Variable("SWHURL_NOTIFY_URL", "notify", {})}
  \cup {Variable("DATABASE_PATH", "/data/app.db", {}) : n \in {1} \cap (IF Database(f) THEN {1} ELSE {})}
  \cup (IF f.egress # Nothing \/ f.telemetry THEN {Variable("HOST_IP", HostField, {})} ELSE {})
  \cup (IF f.telemetry THEN {Variable("OTEL_EXPORTER_OTLP_ENDPOINT", "collector", {"HOST_IP"})} ELSE {})
  \cup {Variable("SWHURL_SERVICE_" \o f.calls[n], f.calls[n], {}) : n \in DOMAIN f.calls}
  \cup Proxied(f) \cup CalleeEnv(f) \cup EventsEnv(f)

(* References, in order: a callee's two ConfigMaps, then the broker's seed. *)
References(f) == (IF f.callers = {} THEN <<>> ELSE <<Keys, Callers>>) \o (IF f.key THEN <<Seed>> ELSE <<>>)

(* A token for each callee, then the notify service's. *)
Tokens(f) == Append(f.calls, "notify")

Material(f) ==
  IF f.callers = {} THEN {} ELSE {<<Keys, "/var/run/swhurl/auth">>, <<Callers, "/var/run/swhurl/callers">>}

Data(f) == IF ~Database(f) THEN Nothing
           ELSE [claim |-> IF f.claim = Nothing THEN App ELSE f.claim, created |-> f.claim = Nothing, size |-> f.size]

Release(f, p) ==
  [replicas |-> f.replicas, strategy |-> IF Database(f) THEN "Recreate" ELSE Nothing,
   env |-> Environment(f), from |-> References(f), tokens |-> Tokens(f), material |-> Material(f), data |-> Data(f),
   resources |-> [cpu |-> p.cpu, memory |-> f.memory, limit |-> f.memory], port |-> f.port]

(* Who may connect to the app's pods, and where they may. *)
Ingresses(f) ==
  (IF f.exposure = "authenticated-web" THEN {<<"traefik", f.port>>} ELSE {})
  \cup (IF f.callers # {} THEN {<<"pods", f.port>>} ELSE {})

(* The name service has one too where the pod needs a name resolved first. *)
Egresses(f, p) ==
  {<<"pods", f.calls[n]>> : n \in DOMAIN f.calls}
  \cup (IF f.calls # <<>> \/ f.egress # Nothing \/ f.key THEN {<<"dns", 53>>} ELSE {})
  \cup (IF f.egress # Nothing THEN {<<"proxy", f.egress>>} ELSE {})
  \cup (IF f.telemetry /\ "cidr" \in p.telemetry THEN {<<"collector", 4318>>} ELSE {})
  \cup (IF f.key THEN {<<"broker", 4222>>} ELSE {})

Policy(name, label, ingress, egress) ==
  Document("NetworkPolicy", name, Space, [selects |-> {label}, ingress |-> ingress, egress |-> egress])

Route(f) ==
  Document("Ingress", App, Space,
           [hosts |-> {f.env}, tls |-> {f.env}, inside |-> {f.env}, signIn |-> TRUE, port |-> f.port])

EventObjects(f) ==
  {Document("Stream", "stream", Space, f.env) : n \in f.publishes}
  \cup {Document("Consumer", s, Space, s) : s \in f.receives}

Container(name, resources, env, from, mounts) ==
  [name |-> name, image |-> [of |-> name, tag |-> Nothing, digest |-> TRUE], nonRoot |-> Nothing, uid |-> Nothing,
   escalation |-> FALSE, adds |-> FALSE, drops |-> TRUE, resources |-> resources, env |-> env, from |-> from,
   mounts |-> mounts, port |-> Nothing, probes |-> Nothing, restart |-> Nothing]
Mount(name, path, readOnly) == [name |-> name, path |-> path, readOnly |-> readOnly, sub |-> FALSE]
Volume(name, type, of) == [name |-> name, type |-> type, of |-> of, readOnly |-> FALSE]

Pod(containers, volumes) ==
  [automount |-> FALSE, host |-> FALSE, nonRoot |-> TRUE, uid |-> "release", inits |-> <<>>,
   containers |-> containers, volumes |-> volumes]

Workload(labels, pod) ==
  [replicas |-> Nothing, strategy |-> Nothing, surge |-> Nothing, parallelism |-> Nothing, concurrency |-> Nothing,
   labels |-> labels, pod |-> pod]

(* The nightly job: the app's user on the app's claim, through the instance's own port.  Its archives are *)
(* encrypted to the profile's recipient, which is empty where the profile states none.                    *)
BackupEnv(p) == <<Variable("HOST_IP", HostField, {}), Variable("AGE_RECIPIENT", p.sops, {})>>

BackupJob(f, p) ==
  Document("CronJob", BackupName, Space,
    [Workload({"backup"},
       Pod(<<Container("backup", BackupPod, BackupEnv(p), <<BackupName>>, {Mount("data", "/data", FALSE)})>>,
           <<Volume("data", "claim", Data(f).claim)>>)) EXCEPT !.concurrency = "Forbid"])

BackupDocuments(f, p) ==
  {Document("Secret", BackupName, Space, Nothing), BackupJob(f, p),
   Policy(BackupName, "backup", {}, {<<"dns", 53>>, <<"proxy", f.egress>>})}

(* A restore's own pod: the job's shape and labels, on the same claim, by the credentials of one run. *)
Restorable(f, p) == Database(f) /\ p.backup # {} /\ f.egress # Nothing /\ "address" \in p.egress

RestoreJob(f, run) ==
  Document("Job", run, Space,
    Workload({"backup", run},
      Pod(<<Container("restore", BackupPod, <<Variable("HOST_IP", HostField, {})>>, <<>>,
                      {Mount("data", "/data", FALSE), Mount("keys", "/keys", TRUE)})>>,
          <<Volume("data", "claim", Data(f).claim), Volume("keys", "secret", "app-restore-key")>>)))

(* Staging follows the app's own images. *)
Follows(f) == f.env = "staging" /\ f.own

Documents(f, p) ==
  {Document("Namespace", Space, "", [env |-> f.env, exposure |-> f.exposure]),
   Document("HelmRelease", App, Space, Release(f, p)),
   Document("ResourceQuota", App, Space, p.quota),
   Policy(App, "instance", Ingresses(f), Egresses(f, p))}
  \cup (IF Follows(f) THEN {Document(k, App, "flux-system", Nothing) : k \in {"ImageRepository", "ImagePolicy"}} ELSE {})
  \cup (IF f.exposure # "private" THEN {Route(f)} ELSE {})
  \cup (IF f.callers # {} THEN {Document("ConfigMap", Callers, Space, f.callers)} ELSE {})
  \cup EventObjects(f)
  \cup (IF Database(f) THEN BackupDocuments(f, p) ELSE {})

(* What Flux must have applied first, and what it does to the folder. *)
Unit(f) ==
  [waits |-> {"infra-base"} \cup (IF Follows(f) THEN {"image-automation"} ELSE {})
               \cup (IF f.key THEN {"platform-nats"} ELSE {}) \cup (IF Database(f) THEN {"platform-backup"} ELSE {}),
   decrypts |-> f.key, substitutes |-> Database(f)]

(* faulty: a consumer is claimed only with a stream. *)
InventoryWithoutConsumers(f) ==
  {<<"Namespace", Space>>, <<"HelmRelease", App>>, <<"ResourceQuota", App>>, <<"NetworkPolicy", App>>}
  \cup (IF f.exposure = "authenticated-web" THEN {<<"Ingress", App>>} ELSE {})
  \cup (IF Follows(f) THEN {"ImageRepository", "ImagePolicy"} \X {App} ELSE {})
  \cup (IF f.callers # {} THEN {<<"ConfigMap", Callers>>} ELSE {})
  \cup (IF f.publishes # {} THEN {<<"Stream", "stream">>} \cup ({"Consumer"} \X f.receives) ELSE {})
  \cup (IF f.key THEN {<<"Secret", Seed>>} ELSE {})
  \cup (IF Database(f) THEN {"Secret", "CronJob", "NetworkPolicy"} \X {BackupName} ELSE {})

(* What the instance owns in the cluster, which no other may claim. *)
Inventory(f) ==
  {<<"Namespace", Space>>, <<"HelmRelease", App>>, <<"ResourceQuota", App>>, <<"NetworkPolicy", App>>}
  \cup (IF f.exposure = "authenticated-web" THEN {<<"Ingress", App>>} ELSE {})
  \cup (IF Follows(f) THEN {"ImageRepository", "ImagePolicy"} \X {App} ELSE {})
  \cup (IF f.callers # {} THEN {<<"ConfigMap", Callers>>} ELSE {})
  \cup (IF f.publishes # {} THEN {<<"Stream", "stream">>} ELSE {})
  \cup ({"Consumer"} \X f.receives)
  \cup (IF f.key THEN {<<"Secret", Seed>>} ELSE {})
  \cup (IF Database(f) THEN {"Secret", "CronJob", "NetworkPolicy"} \X {BackupName} ELSE {})

=============================================================================
