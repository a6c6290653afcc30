------------------------------- MODULE Cluster -------------------------------
(***************************************************************************)
(* The cluster while it takes up a commit of main.  One commit states every *)
(* instance's records, what v2 renders from them (v2/kernel), and each      *)
(* instance's port on the egress proxy (alloc.go); Flux applies it unit by  *)
(* unit, in no order but the units' dependsOn.  Each part therefore runs a  *)
(* commit of its own for a while: an instance's policy and files its unit's, *)
(* its pod the one it started with, the proxy's policy and each proxy pod,   *)
(* the broker's user list.                                                   *)
(*                                                                          *)
(* From the code under src/: the documents and what they state.  External:  *)
(* Flux, Helm, the pods, Squid and NATS, as clusters/home/platform.yaml,    *)
(* platform/egress and platform/nats set them up.  Instances here are the   *)
(* apps of one environment; the two environments meet only at the proxy.    *)
(***************************************************************************)
EXTENDS Integers, FiniteSets, FiniteSetsExt, Sequences, SequencesExt

CONSTANTS Order,        \* the instances there may be, as the documents sort them
          Shapes(_),    \* the records one instance may have
          BackupHost,   \* the platform's backup endpoint
          Nothing, MaxCommits

Instances == ToSet(Order)

Hosts == {BackupHost} \cup UNION {r.grants : r \in UNION {Shapes(i) : i \in Instances}}
Held == [port : Nat \ {0}, grants : SUBSET Hosts]

ASSUME ClusterAssumption ==
  /\ Order \in Seq(Instances) /\ IsInjective(Order)
  /\ \A i \in Instances : \A r \in Shapes(i) : r.database \in BOOLEAN
  /\ Nothing \notin Held
  /\ MaxCommits \in Nat \ {0}

VARIABLES
  log,          \* main: the commits a reconcile may find, newest last
  unit,         \* the commit each instance's unit was last applied at
  pod,          \* the commit each instance's pod was started from, 0 without one
  spaces,       \* the instances whose namespace exists
  keyed,        \* the namespaces holding the platform's verification keys
  egress,       \* the commit platform-egress was applied at
  proxies,      \* the commits the serving proxy pods were started from
  nats, broker  \* the commit platform-nats was applied at, and the one whose users the server knows

vars == <<log, unit, pod, spaces, keyed, egress, proxies, nats, broker>>

Newest == Len(log)
At(n, i) == log[n].records[i]
Has(n, i) == At(n, i) # Nothing
Present(n) == {i \in Instances : Has(n, i)}

-----------------------------------------------------------------------------
(* What a commit states.                                                   *)

(* The hosts an instance needs: the ones it declares, and the backup endpoint for a database. *)
Grants(r) == r.grants \cup (IF r.database THEN {BackupHost} ELSE {})
NeedsEgress(r) == r # Nothing /\ (r.grants # {} \/ r.database)

(* The lowest ports nobody holds, one for each of new, in the documents' order. *)
Before(i, j) == \E m, n \in DOMAIN Order : m < n /\ Order[m] = i /\ Order[n] = j
Lowest(new, used, i) ==
  LET free == (1 .. 2 * Len(Order)) \ used
  IN  CHOOSE p \in free : Cardinality({q \in free : q < p}) = Cardinality({j \in new : Before(j, i)})

Given(records, ports, kept) ==
  LET new == {i \in Instances : NeedsEgress(records[i])} \ kept
      used == {ports[i].port : i \in kept}
  IN  [i \in Instances |->
         IF i \in new THEN [port |-> Lowest(new, used, i), grants |-> Grants(records[i])]
         ELSE IF i \in kept /\ records[i] # Nothing THEN [port |-> ports[i].port, grants |-> Grants(records[i])]
         ELSE IF i \in kept THEN ports[i] ELSE Nothing]

Holders(ports) == {i \in Instances : ports[i] # Nothing}

(* faulty: an instance whose records are gone gives up its port. *)
AllocateToPresent(records, ports) == Given(records, ports, {i \in Holders(ports) : records[i] # Nothing})

(* faulty: the ports are given out afresh. *)
AllocateAnew(records, ports) == Given(records, ports, {})

(* A port once held is kept, by an instance whose records are gone too. *)
Allocate(records, ports) == Given(records, ports, Holders(ports))

(* The port instance i is rendered with: its variables, its policy, its backup job's policy. *)
Port(n, i) ==
  IF Has(n, i) /\ log[n].ports[i] # Nothing /\ log[n].ports[i].grants # {} THEN log[n].ports[i].port ELSE 0

(* A call connects with both sides' records; the callee's allow-list names the callers. *)
Connected(n, i, j) ==
  /\ Has(n, i) /\ Has(n, j)
  /\ j \in At(n, i).calls /\ i \in At(n, j).allows
Callers(n, j) == {i \in Instances : Connected(n, i, j)}

(* The user list has a key for every instance that signs in. *)
Users(n) == {<<i, At(n, i).key>> : i \in {j \in Present(n) : At(n, j).key # 0}}

-----------------------------------------------------------------------------
(* What the parts allow, each at its own commit.                           *)

(* The proxy admits a port from its instance's namespace alone. *)
Admitted(n, i, p) == log[n].ports[i] # Nothing /\ log[n].ports[i].port = p

(* A proxy pod knows a caller by the port it is on. *)
Allowed(n, p) == UNION {log[n].ports[j].grants : j \in {k \in Instances : Admitted(n, k, p)}}

(* The hosts the pods of instance i can reach through a proxy pod of commit n. *)
Reach(i, n) ==
  LET p == Port(unit[i], i)
  IN  IF p # 0 /\ Admitted(egress, i, p) THEN Allowed(n, p) ELSE {}

(* The app asks on the port it was started with. *)
Uses(i, n) == IF pod[i] # 0 /\ Port(pod[i], i) = Port(unit[i], i) THEN Reach(i, n) ELSE {}

(* A call passes both policies, and the callee holds the keys and a list that names the caller. *)
Accepts(i, j) ==
  /\ pod[i] # 0 /\ pod[j] # 0
  /\ Connected(pod[i], i, j) /\ Connected(unit[i], i, j) /\ Connected(unit[j], i, j)
  /\ Callers(pod[j], j) # {} /\ j \in keyed

SignsIn(i) == pod[i] # 0 /\ <<i, At(pod[i], i).key>> \in Users(broker)

-----------------------------------------------------------------------------
Records == {r \in [Instances -> UNION {Shapes(i) : i \in Instances} \cup {Nothing}] :
              \A i \in Instances : r[i] \in Shapes(i) \cup {Nothing}}
NoPorts == [i \in Instances |-> Nothing]

(* The cluster runs some commit, with the ports and namespaces an earlier one left. *)
Init ==
  \E earlier, now \in Records :
    /\ log = <<[records |-> now, ports |-> Allocate(now, Allocate(earlier, NoPorts))]>>
    /\ unit = [i \in Instances |-> 1]
    /\ pod = [i \in Instances |-> IF now[i] = Nothing THEN 0 ELSE 1]
    /\ spaces = Present(1) \cup {i \in Instances : earlier[i] # Nothing /\ earlier[i].database}
    /\ keyed = Present(1)
    /\ egress = 1 /\ proxies = {1} /\ nats = 1 /\ broker = 1

(* A change of any records merges, with the allocation rendered from them. *)
Merge ==
  /\ Newest < MaxCommits
  /\ \E now \in Records \ {log[Newest].records} :
       log' = Append(log, [records |-> now, ports |-> Allocate(now, log[Newest].ports)])
  /\ UNCHANGED <<unit, pod, spaces, keyed, egress, proxies, nats, broker>>

(* An instance that signs in waits for the broker's unit at the same commit. *)
DependenciesReady(i) == At(Newest, i).key # 0 => nats = Newest

(* Flux applies an instance's folder: namespace, policy, allow-list, release.  *)
ApplyUnit(i) ==
  /\ unit[i] < Newest /\ Has(Newest, i)
  /\ DependenciesReady(i)
  /\ unit' = [unit EXCEPT ![i] = Newest]
  /\ spaces' = spaces \cup {i}
  /\ UNCHANGED <<log, pod, keyed, egress, proxies, nats, broker>>

(* A unit no longer listed is pruned with everything it applied, but for a database's namespace. *)
PruneUnit(i) ==
  /\ unit[i] < Newest /\ ~Has(Newest, i)
  /\ unit' = [unit EXCEPT ![i] = Newest]
  /\ pod' = [pod EXCEPT ![i] = 0]
  /\ LET kept == ~Has(unit[i], i) \/ At(unit[i], i).database
     IN  /\ spaces' = IF kept THEN spaces ELSE spaces \ {i}
         /\ keyed' = IF kept THEN keyed ELSE keyed \ {i}
  /\ UNCHANGED <<log, egress, proxies, nats, broker>>

(* Helm upgrades the release; a callee's pod starts only where the keys are. *)
Roll(i) ==
  /\ Has(unit[i], i) /\ pod[i] < unit[i]
  /\ Callers(unit[i], i) # {} => i \in keyed
  /\ pod' = [pod EXCEPT ![i] = unit[i]]
  /\ UNCHANGED <<log, unit, spaces, keyed, egress, proxies, nats, broker>>

(* faulty: the keys wait for the apps, so that their namespaces exist. *)
KeysAfterApps == \A i \in Present(Newest) : unit[i] = Newest /\ pod[i] = Newest

(* Every namespace the folder names must exist, or nothing of it is applied. *)
KeysApply == Present(Newest) \subseteq spaces

ApplyKeys ==
  /\ KeysApply
  /\ keyed # Present(Newest) /\ keyed' = Present(Newest)
  /\ UNCHANGED <<log, unit, pod, spaces, egress, proxies, nats, broker>>

(* The proxy's policy takes effect at once, its configuration as its pods are replaced. *)
ApplyEgress ==
  /\ egress < Newest /\ egress' = Newest
  /\ UNCHANGED <<log, unit, pod, spaces, keyed, proxies, nats, broker>>

ProxyStarts ==
  /\ egress \notin proxies /\ proxies' = proxies \cup {egress}
  /\ UNCHANGED <<log, unit, pod, spaces, keyed, egress, nats, broker>>

ProxyStops ==
  /\ proxies # {Max(proxies)} /\ proxies' = {Max(proxies)}
  /\ UNCHANGED <<log, unit, pod, spaces, keyed, egress, nats, broker>>

ApplyNats ==
  /\ nats < Newest /\ nats' = Newest
  /\ UNCHANGED <<log, unit, pod, spaces, keyed, egress, proxies, broker>>

BrokerReloads ==
  /\ broker < nats /\ broker' = nats
  /\ UNCHANGED <<log, unit, pod, spaces, keyed, egress, proxies, nats>>

Follow ==
  \/ ApplyKeys \/ ApplyEgress \/ ProxyStarts \/ ProxyStops \/ ApplyNats \/ BrokerReloads
  \/ \E i \in Instances : ApplyUnit(i) \/ PruneUnit(i) \/ Roll(i)

Next == Merge \/ Follow

(* Flux reconciles every unit again and again, and Helm and the kubelet finish what they started. *)
Fairness ==
  /\ WF_vars(ApplyKeys) /\ WF_vars(ApplyEgress) /\ WF_vars(ProxyStarts) /\ WF_vars(ProxyStops)
  /\ WF_vars(ApplyNats) /\ WF_vars(BrokerReloads)
  /\ \A i \in Instances : WF_vars(ApplyUnit(i)) /\ WF_vars(PruneUnit(i)) /\ WF_vars(Roll(i))

Spec == Init /\ [][Next]_vars /\ Fairness

-----------------------------------------------------------------------------
Commits == [records : Records, ports : [Instances -> Held \cup {Nothing}]]

(* The types of the variables. *)
TypeOK ==
  /\ log \in Seq(Commits) /\ Newest > 0
  /\ unit \in [Instances -> 1 .. Newest] /\ pod \in [Instances -> 0 .. Newest]
  /\ spaces \subseteq Instances /\ keyed \subseteq Instances
  /\ egress \in 1 .. Newest /\ proxies \in SUBSET (1 .. Newest) /\ proxies # {}
  /\ nats \in 1 .. Newest /\ broker \in 1 .. Newest

(* The proxy never answers one instance with another's grants, whichever    *)
(* commits the instance's policy, the proxy's policy and its pods are at    *)
(* (a port names the caller: proxy.go, alloc.go).                           *)
ProxyKnowsTheCaller ==
  \A i \in Instances : \A n \in proxies :
    Reach(i, n) # {} => Admitted(n, i, Port(unit[i], i)) /\ Reach(i, n) = log[n].ports[i].grants

(* An instance that every commit in use records alike, and whose pod runs. *)
Oldest(i) == Min({unit[i], pod[i], egress, broker} \cup proxies)
Steady(i) == pod[i] # 0 /\ \A n \in Oldest(i) .. Newest : At(n, i) = At(Newest, i)

(* A change of other instances never disturbs one, at any moment of its     *)
(* roll-out: it reaches its hosts through every proxy pod, signs in, and is *)
(* answered by every steady callee it is connected to in each of them.      *)
Undisturbed ==
  \A i \in Instances : Steady(i) =>
    /\ \A n \in proxies : Uses(i, n) = Grants(At(Newest, i))
    /\ At(Newest, i).key # 0 => SignsIn(i)
    /\ \A j \in Instances :
         Steady(j) /\ (\A n \in Min({Oldest(i), Oldest(j)}) .. Newest : Connected(n, i, j)) => Accepts(i, j)

(* In the end the cluster is what main's last commit states: exactly its    *)
(* instances run, each reaches its hosts, signs in if it has a key, and is  *)
(* answered by the apps that consent.  No unit waits for another that waits *)
(* for it (a new namespace, the keys in it, the pod that mounts them).      *)
Followed ==
  \A i \in Instances :
    /\ (pod[i] # 0) = Has(Newest, i)
    /\ Has(Newest, i) =>
         /\ \A n \in proxies : Uses(i, n) = Grants(At(Newest, i))
         /\ SignsIn(i) = (At(Newest, i).key # 0)
         /\ \A j \in Instances : Accepts(i, j) = Connected(Newest, i, j)

ClusterFollowsMain == <>[]Followed
=============================================================================
