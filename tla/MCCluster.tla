------------------------------ MODULE MCCluster ------------------------------
(***************************************************************************)
(* Instances for TLC of what becomes of main.  A behaviour runs one part,   *)
(* which its first state picks.                                            *)
(*                                                                         *)
(* The cluster's: two apps of one environment.  The first may keep a        *)
(* database, leave the cluster, call the second and hold a key that is      *)
(* replaced; the second may leave the cluster, and consent to the calls.    *)
(*                                                                         *)
(* One instance's roll-out: six kinds of instance under a whole profile,    *)
(* each also with up to two of its records' facts otherwise, with any one   *)
(* block of the profile stated in part or left out, with a tighter quota,   *)
(* and with the chart rendering any two of the changes.                     *)
(***************************************************************************)
EXTENDS Cluster

Plain == [grants |-> {}, database |-> FALSE, calls |-> {}, allows |-> {}, key |-> 0]

MCOrder == <<"orders", "shop">>

MCShapes(i) ==
  IF i = "orders"
  THEN {Plain, [Plain EXCEPT !.database = TRUE, !.calls = {"shop"}],
        [Plain EXCEPT !.grants = {"host"}, !.calls = {"shop"}, !.key = 1], [Plain EXCEPT !.key = 2]}
  ELSE {[Plain EXCEPT !.grants = {"bank"}, !.key = 3], [Plain EXCEPT !.allows = {"orders"}],
        [Plain EXCEPT !.grants = {"bank"}, !.allows = {"orders"}]}

-----------------------------------------------------------------------------
VARIABLES part, known, passed, pods

Web ==
  [kind |-> "web", port |-> 8080, database |-> "", documents |-> {}, api |-> FALSE, publishes |-> {}, receives |-> {}, key |-> FALSE,
   env |-> "staging", own |-> TRUE, replicas |-> 1, memory |-> 128, exposure |-> "private", callers |-> {}, calls |-> <<>>,
   size |-> 0, claim |-> Nothing, egress |-> Nothing, telemetry |-> FALSE, reference |-> FALSE]
Stored == [Web EXCEPT !.database = "sqlite", !.size = 1, !.egress = 3128, !.exposure = "authenticated-web"]
Adopted == [Stored EXCEPT !.size = 0, !.claim = "adopted", !.calls = <<"b", "c">>, !.receives = {"s"}, !.key = TRUE]
Worker == [Web EXCEPT !.kind = "worker", !.port = 0, !.documents = {"events"}, !.publishes = {"stream"}, !.receives = {"s"}, !.key = TRUE,
                      !.calls = <<"b">>, !.telemetry = TRUE, !.env = "prod", !.replicas = 2]
Callee == [Web EXCEPT !.callers = {"a"}, !.env = "prod", !.documents = {"api"}, !.api = TRUE, !.replicas = 2]
Kinds == {Web, Stored, Adopted, Worker, Callee, [Web EXCEPT !.replicas = 0]}

Whole ==
  [routing |-> {"domain", "class", "middleware", "issuer", "namespace", "labels"},
   backup |-> {"image", "digest", "uri", "region", "writerNamespace", "writerName"},
   dns |-> {"namespace", "labels"}, auth |-> {"issuer", "keys"}, egress |-> {"address", "namespace", "labels"},
   telemetry |-> {"endpoint", "protocol", "cidr", "port"},
   nats |-> {"url", "namespace", "secret", "controller", "console", "port", "labels"},
   storage |-> {"class"}, network |-> {"podCIDR"}, notify |-> {"url"}, sops |-> {"recipient"},
   quota |-> [pods |-> 4, cpu |-> 40, memory |-> 512, limit |-> 640], cpu |-> 10]

Departures ==
  [kind |-> {"web", "worker", "job"}, port |-> {0, 8080}, database |-> {"", "sqlite", "other"}, documents |-> {{"api"}, {"events"}},
   api |-> BOOLEAN, publishes |-> {{}, {"stream"}}, receives |-> {{}, {"s"}, {"s", "t"}}, key |-> BOOLEAN, env |-> {"staging", "prod"},
   own |-> BOOLEAN, replicas |-> {-1, 0, 1, 3, 4}, memory |-> {0, 150, 160, 170}, exposure |-> {"private", "authenticated-web", "web"},
   callers |-> {{}, {"a"}}, calls |-> {<<>>, <<"b">>}, size |-> {0, 1}, claim |-> {Nothing, "adopted"}, egress |-> {Nothing, 80, 3128},
   telemetry |-> BOOLEAN, reference |-> BOOLEAN]

Departed(F) == F \cup UNION {UNION {{[f EXCEPT ![x] = v] : v \in Departures[x]} : x \in DOMAIN Departures} : f \in F}

Blocks == {"routing", "backup", "dns", "auth", "egress", "telemetry", "nats", "storage", "network", "notify", "sops"}
Profiles ==
  {Whole} \cup UNION {{[Whole EXCEPT ![b] = s] : s \in SUBSET Whole[b]} : b \in Blocks}
  \cup {[Whole EXCEPT !.quota[r] = n] : r \in {"pods", "cpu", "memory", "limit"}, n \in {0, 1, 3, 20, 30, 300}}
  \cup {[Whole EXCEPT !.cpu = n] : n \in {0, 15, 20}}

MCInstances == (Departed(Departed({Web, Stored, Worker})) \X {Whole}) \cup (Kinds \X Profiles)
MCChanged == Kinds \X {Whole}

Rollout == INSTANCE Rollout WITH Instances <- MCInstances, Changed <- MCChanged, Many <- 5
rollout == <<known, passed, pods>>

-----------------------------------------------------------------------------
(* The other part stays as a cluster without instances, and as no roll-out. *)
Idle ==
  /\ log = <<[records |-> NoPorts, ports |-> NoPorts]>>
  /\ unit = [i \in Instances |-> 1] /\ pod = [i \in Instances |-> 0] /\ spaces = {} /\ keyed = {}
  /\ egress = 1 /\ proxies = {1} /\ nats = 1 /\ broker = 1
None == known = Nothing /\ passed = FALSE /\ pods = <<>>

PartInit ==
  \/ part = "cluster" /\ Init /\ None
  \/ part = "rollout" /\ Idle /\ Rollout!Init

PartNext ==
  /\ UNCHANGED part
  /\ \/ part = "cluster" /\ Next /\ UNCHANGED rollout
     \/ part = "rollout" /\ Rollout!Next /\ UNCHANGED vars

PartSpec == PartInit /\ [][PartNext]_<<vars, part, rollout>> /\ Fairness

(* What the policy passes runs within what its instance was granted.       *)
PassedRunsContained == Rollout!PassedRunsContained

(* An instance is refused, or all of it is compiled; of the profile, only  *)
(* the name service and the encryption recipient may be stated not given.  *)
CompiledIsWhole == part = "rollout" => Rollout!CompiledIsWhole
=============================================================================
