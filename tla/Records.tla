------------------------------- MODULE Records -------------------------------
(***************************************************************************)
(* The tree of v2's records and the files rendered from them, and the      *)
(* whole-tree render (v2/cmd/swhurl-v2/render.go) that decides the second  *)
(* from the first: who may call whom (v2/calls), who receives which event  *)
(* (v2/events), which proxy port each instance holds (v2/kernel/alloc.go), *)
(* the broker's users, and every instance's compiled folder.               *)
(*                                                                         *)
(* A tree maps paths to contents, Nothing where there is none.  A path is  *)
(* <<what, of>>: a file, or a line of a file that git merges by lines.     *)
(***************************************************************************)
EXTENDS Integers, FiniteSets, Sequences, SequencesExt

CONSTANTS Apps, Teams,
          Order,       \* every instance there may be, as the platform's documents sort them
          Images,      \* every image the apps' repositories ever publish
          Nothing

Instances == ToSet(Order)
Staging == {i \in Instances : i[2] = "staging"}

ASSUME OrderIsInstances == /\ Order \in Seq(Apps \X {"prod", "staging"})
                           /\ IsInjective(Order)
ASSUME ImagesAreImages ==
    \A m \in Images : /\ m.app \in Apps /\ m.run \in Nat /\ m.port \in Nat
                      /\ m.kind \in {"web", "worker"} /\ m.database \in BOOLEAN

FirstPort == 1

(* One instance's place in the proxy's allocation, and the facts its compiled unit is made of. *)
PortType == [port : Nat, granted : BOOLEAN]
UnitType == [image : Images, team : Teams, reaches : SUBSET (Apps \X Nat), receives : SUBSET (Apps \X STRING),
             egress : Nat]

ASSUME NothingIsNoContent == Nothing \notin Images /\ Nothing \notin PortType /\ Nothing \notin UnitType

(* The lines of instance.json, and what else git holds of one instance. *)
Lines == {"select", "calls", "allows", "subs"}
Folder == {"unit", "policy"}                     \* v2-apps/instances/<app>/<env>/
Shared == {"pairs", "received", "port"}          \* lines of calls.json and of allocation.json
Whole == {"users", "proxy", "revision"} \X {"platform"}
RecordPaths == ({"app"} \X Apps) \cup ({"team"} \X Teams)
                 \cup (({"release"} \cup Lines) \X Instances)
Paths == RecordPaths \cup ((Folder \cup Shared) \X Instances) \cup Whole

Empty == [p \in Paths |-> Nothing]
Put(T, contents) == [p \in Paths |-> IF p \in DOMAIN contents THEN contents[p] ELSE T[p]]

(* An environment folder counts once it holds its instance record. *)
Present(T) == {i \in Instances : T[<<"select", i>>] # Nothing}
Beside(i, a) == <<a, i[2]>>
Found(T, i, a) == Beside(i, a) \in Present(T)
Release(T, i, a) == T[<<"release", Beside(i, a)>>]
Registered(T) == {t \in Teams : T[<<"team", t>>] # Nothing}

-----------------------------------------------------------------------------
(* Calls and events: a relationship needs both sides' records.             *)

(* A team grant names the rule, not its members: the caller's team today. *)
Consents(T, callee, caller) ==
    T[<<"allows", callee>>] \cap {caller[1], T[<<"app", caller[1]>>]} # {}

Reason(T, i, a) ==
    CASE ~Found(T, i, a) -> "callee_absent"
      [] Found(T, i, a) /\ Release(T, i, a).kind # "web" -> "callee_not_web"
      [] Found(T, i, a) /\ Release(T, i, a).kind = "web" ->
            IF Consents(T, Beside(i, a), i) THEN "connected" ELSE "no_consent"

(* The pairs of one caller: the state of each call it declares, with the callee's port once connected. *)
Pairs(T, i) ==
    [a \in T[<<"calls", i>>] |->
        [state |-> Reason(T, i, a),
         port  |-> IF Reason(T, i, a) = "connected" THEN Release(T, i, a).port ELSE 0]]

(* A subscription waits for an absent publisher and is an error at one that publishes no such event. *)
SubscriptionOK(T, i, s) == Found(T, i, s[1]) => s[2] \in Release(T, i, s[1]).events

Received(T, i) == {s \in T[<<"subs", i>>] : Found(T, i, s[1])}

Resolves(T) == \A i \in Present(T) : \A s \in T[<<"subs", i>>] : SubscriptionOK(T, i, s)

Users(T) == [i \in Present(T) |-> [publishes |-> T[<<"release", i>>].events # {}, receives |-> Received(T, i)]]

-----------------------------------------------------------------------------
(* Proxy ports: kept once given, else the lowest free one in the           *)
(* documents' order.                                                       *)

Held(T) == {i \in Instances : T[<<"port", i>>] # Nothing}
Ports(T) == {T[<<"port", i>>].port : i \in Held(T)}
NeedsEgress(T) == {i \in Present(T) : T[<<"release", i>>].database}
New(T) == NeedsEgress(T) \ Held(T)
Position(i) == CHOOSE n \in DOMAIN Order : Order[n] = i
Rank(T, i) == Cardinality({j \in New(T) : Position(j) < Position(i)})

FreePorts(T) == (FirstPort .. FirstPort + 2 * Len(Order)) \ Ports(T)
NewPort(T, i) ==
    CHOOSE p \in FreePorts(T) : Cardinality({q \in FreePorts(T) : q < p}) = Rank(T, i)

(* faulty: an instance that is gone gives its port up. *)
AllocationOfPresent(T, i) ==
    IF i \in New(T) THEN [port |-> NewPort(T, i), granted |-> TRUE]
    ELSE IF i \in Held(T) /\ i \in Present(T) THEN [port |-> T[<<"port", i>>].port, granted |-> i \in NeedsEgress(T)]
    ELSE Nothing

(* An instance's allocation states what it may reach: a port with nothing to reach is kept, not used. *)
Allocation(T, i) ==
    IF i \in New(T) THEN [port |-> NewPort(T, i), granted |-> TRUE]
    ELSE IF i \in Held(T) /\ i \in Present(T) THEN [port |-> T[<<"port", i>>].port, granted |-> i \in NeedsEgress(T)]
    ELSE T[<<"port", i>>]

Allocated(T) == [i \in Instances |-> Allocation(T, i)]

DistinctPorts(ports) ==
    \A i, j \in Instances : ports[i] # Nothing /\ ports[j] # Nothing /\ ports[i].port = ports[j].port => i = j

-----------------------------------------------------------------------------
(* One instance's compiled folder, from its records and the lines the      *)
(* platform's documents hold about it.                                     *)

Reaches(T, i) ==
    IF T[<<"pairs", i>>] = Nothing THEN {}
    ELSE LET pairs == T[<<"pairs", i>>] IN
         {<<a, pairs[a].port>> : a \in {b \in DOMAIN pairs : pairs[b].state = "connected"}}

Callers(T, i) == {j \in Instances : j[2] = i[2] /\ \E p \in Reaches(T, j) : p[1] = i[1]}

Egress(T, i) == IF T[<<"port", i>>] = Nothing \/ ~T[<<"port", i>>].granted THEN 0 ELSE T[<<"port", i>>].port

Unit(T, i) == [image |-> T[<<"select", i>>], team |-> T[<<"app", i[1]>>], reaches |-> Reaches(T, i),
               receives |-> T[<<"received", i>>], egress |-> Egress(T, i)]

Policy(T, i) == [port |-> T[<<"release", i>>].port, callers |-> Callers(T, i),
                 reaches |-> Reaches(T, i), egress |-> Egress(T, i)]

(* An instance must select the release beside it; only a web app is called; a database leaves by the proxy. *)
CompileOK(T, i) ==
    /\ T[<<"app", i[1]>>] # Nothing /\ T[<<"release", i>>] # Nothing
    /\ T[<<"select", i>>] = T[<<"release", i>>]
    /\ (T[<<"release", i>>].kind = "worker" => Callers(T, i) = {})
    /\ (T[<<"release", i>>].database => Egress(T, i) # 0)

Compiled(T, which) ==
    [p \in Paths |->
        IF p[1] \in Folder /\ p[2] \in which
        THEN IF p[1] = "unit" THEN Unit(T, p[2]) ELSE Policy(T, p[2])
        ELSE T[p]]

-----------------------------------------------------------------------------
(* The whole tree.                                                         *)

(* What the platform's documents say of the records; removed instances keep only their port. *)
Platform(T) ==
    [p \in Paths |->
        CASE p[1] = "pairs" -> IF p[2] \in Present(T) THEN Pairs(T, p[2]) ELSE Nothing
          [] p[1] = "received" -> IF p[2] \in Present(T) THEN Received(T, p[2]) ELSE Nothing
          [] p[1] = "port" -> Allocation(T, p[2])
          [] p[1] = "proxy" -> Allocated(T)
          [] p[1] = "users" -> Users(T)
          [] p[1] \notin {"pairs", "received", "port", "proxy", "users"} -> T[p]]

TeamsOK(T) == \A i \in Present(T) : {T[<<"app", i[1]>>]} \cup (T[<<"allows", i>>] \cap Teams) \subseteq Registered(T)

Readable(T) == \A i \in Present(T) : T[<<"release", i>>] # Nothing /\ T[<<"app", i[1]>>] # Nothing

Renderable(T) ==
    /\ Readable(T)
    /\ Resolves(T)
    /\ \E ports \in {Allocated(T)} : DistinctPorts(ports)
    /\ TeamsOK(T)
    /\ \E U \in {Platform(T)} : \A i \in Present(T) : CompileOK(U, i)

(* Only what the records decide is written: the folder of an instance that is gone is left alone. *)
RenderTree(T) == CHOOSE R \in {Compiled(U, Present(T)) : U \in {Platform(T)}} : TRUE

(* render --check compares contents, at whatever revision the documents record. *)
Rendered(T) == \E U \in {Platform(T)} : Compiled(U, Present(T)) = T
Checked(T) == Renderable(T) /\ Rendered(T)

(* The render a console change runs always records the commit it started from. *)
RenderAt(T, revision) == Put(RenderTree(T), [p \in {<<"revision", "platform">>} |-> revision])

(* make v2-render writes, and records its commit, only when the tree disagrees. *)
RenderIfStale(T, revision) == IF Rendered(T) THEN T ELSE RenderAt(T, revision)

=============================================================================
