---------------------------- MODULE ClusterProofs ----------------------------
(***************************************************************************)
(* What the cluster promises while it takes up main's commits, for any      *)
(* instances, records and number of commits.                                *)
(*                                                                          *)
(* Everything rests on the allocation of ports: within a commit no two      *)
(* instances hold one port, and a port once held stays its holder's in each *)
(* later commit.  So a port names one instance across all commits, and      *)
(* parts of the cluster that are at different ones mean the same caller.    *)
(*                                                                          *)
(* And what the dashboard passes promise: the console's record names what   *)
(* is there, and no pass by itself makes a second object of one name.       *)
(***************************************************************************)
EXTENDS Cluster, MCDashboards, Numbers

(* No two instances hold one port. *)
Apart(ports) ==
  \A i, j \in Holders(ports) : ports[i].port = ports[j].port => i = j

(* Who held a port holds it still. *)
Keeps(before, after) ==
  \A i \in Holders(before) : i \in Holders(after) /\ after[i].port = before[i].port

(* Who needs a port has one, with the hosts its records grant. *)
States(ports, records) ==
  \A i \in Instances : records[i] # Nothing =>
    /\ NeedsEgress(records[i]) => i \in Holders(ports)
    /\ i \in Holders(ports) => ports[i].grants = Grants(records[i])

PortsApart == \A n \in 1 .. Newest : Apart(log[n].ports) /\ States(log[n].ports, log[n].records)
PortsKept == \A m, n \in 1 .. Newest : m <= n => Keeps(log[m].ports, log[n].ports)

(* A pod runs a commit that lists its instance. *)
PodsListed == \A i \in Instances : pod[i] # 0 => Has(pod[i], i)

(* A pod that is called started where the keys were; they go with the      *)
(* instance alone.                                                         *)
KeysStay ==
  \A i \in Instances : pod[i] # 0 /\ Callers(pod[i], i) # {} =>
    i \in keyed \/ \E n \in pod[i] .. Newest : ~Has(n, i)

IInv == TypeOK /\ PortsApart /\ PortsKept /\ PodsListed /\ KeysStay
-----------------------------------------------------------------------------
(* The allocation.                                                         *)

Beneath(S, m) == {q \in S : q < m}

(* The documents sort the instances: each has its place.                   *)
LEMMA Sorted ==
  /\ Len(Order) \in Nat /\ DOMAIN Order = 1 .. Len(Order)
  /\ \A i \in Instances : \E n \in DOMAIN Order : Order[n] = i
  /\ IsFiniteSet(Instances) /\ Cardinality(Instances) \in Nat
  /\ Cardinality(Instances) <= Len(Order)
  <1>1. Len(Order) \in Nat /\ DOMAIN Order = 1 .. Len(Order)
    BY ClusterAssumption
  <1>2. \A i \in Instances : \E n \in DOMAIN Order : Order[n] = i
    BY DEF Instances, ToSet
  <1>3. Order \in Surjection(1 .. Len(Order), Instances)
    BY <1>1, <1>2, ClusterAssumption DEF Surjection
  <1>4. IsFiniteSet(1 .. Len(Order)) /\ Cardinality(1 .. Len(Order)) = Len(Order)
    <2>1. ASSUME NEW n \in Nat PROVE IsFiniteSet(1 .. n) /\ Cardinality(1 .. n) = n
      BY FS_Interval
    <2>2. QED
      BY <1>1, <2>1
  <1>5. QED
    BY <1>1, <1>2, <1>3, <1>4, FS_Surjection, FS_CardinalityType

LEMMA BeforeOrders ==
  /\ \A i \in Instances : ~Before(i, i)
  /\ \A i, j \in Instances : i # j => Before(i, j) \/ Before(j, i)
  /\ \A h, i, j \in Instances : Before(h, i) /\ Before(i, j) => Before(h, j)
  <1>1. \A m, n \in DOMAIN Order : Order[m] = Order[n] => m = n
    BY ClusterAssumption DEF IsInjective
  <1>2. \A i \in Instances : ~Before(i, i)
    BY <1>1, Sorted DEF Before
  <1>3. ASSUME NEW i \in Instances, NEW j \in Instances, i # j
        PROVE  Before(i, j) \/ Before(j, i)
    <2>1. PICK m, n \in DOMAIN Order : Order[m] = i /\ Order[n] = j
      BY Sorted
    <2>2. m < n \/ n < m
      BY <1>3, <2>1, Sorted
    <2>3. QED
      BY <2>1, <2>2 DEF Before
  <1>4. ASSUME NEW h \in Instances, NEW i \in Instances, NEW j \in Instances,
               Before(h, i), Before(i, j)
        PROVE  Before(h, j)
    <2>1. PICK k, l \in DOMAIN Order : k < l /\ Order[k] = h /\ Order[l] = i
      BY <1>4 DEF Before
    <2>2. PICK m, n \in DOMAIN Order : m < n /\ Order[m] = i /\ Order[n] = j
      BY <1>4 DEF Before
    <2>3. k < n
      BY <1>1, <2>1, <2>2, Sorted
    <2>4. QED
      BY <2>1, <2>2, <2>3 DEF Before
  <1>5. QED
    BY <1>2, <1>3, <1>4

(* The place of an instance among the new ones: no two have the same.      *)
Place(new, i) == Cardinality({j \in new : Before(j, i)})

LEMMA Places ==
  ASSUME NEW new \in SUBSET Instances
  PROVE  /\ IsFiniteSet(new) /\ Cardinality(new) \in Nat
         /\ \A i \in new : Place(new, i) \in Nat /\ Place(new, i) < Cardinality(new)
         /\ \A i, j \in new : Place(new, i) = Place(new, j) => i = j
  <1> DEFINE first(i) == {j \in new : Before(j, i)}
  <1>1. IsFiniteSet(new) /\ Cardinality(new) \in Nat
    BY Sorted, FS_Subset, FS_CardinalityType
  <1>2. \A i \in new : first(i) \in SUBSET (new \ {i})
    BY BeforeOrders
  <1>3. \A i \in new : IsFiniteSet(new \ {i}) /\ Cardinality(new \ {i}) = Cardinality(new) - 1
    BY <1>1, FS_RemoveElement
  <1>4. \A i, j \in new : Before(i, j) => first(i) \in SUBSET first(j) /\ i \in first(j) /\ i \notin first(i)
    BY BeforeOrders
  <1> HIDE DEF first
  <1>5. ASSUME NEW i \in new
        PROVE  IsFiniteSet(first(i)) /\ Cardinality(first(i)) \in Nat
               /\ Cardinality(first(i)) < Cardinality(new)
    <2>1. IsFiniteSet(first(i)) /\ Cardinality(first(i)) <= Cardinality(new \ {i})
      BY <1>2, <1>3, FS_Subset
    <2>2. Cardinality(first(i)) \in Nat
      BY <2>1, FS_CardinalityType
    <2>3. QED
      BY <1>1, <1>3, <2>1, <2>2
  <1>6. ASSUME NEW i \in new, NEW j \in new, Cardinality(first(i)) = Cardinality(first(j)), Before(i, j)
        PROVE  FALSE
    <2>1. first(i) \in SUBSET first(j) /\ first(i) # first(j)
      BY <1>4, <1>6
    <2>2. QED
      BY <1>5, <1>6, <2>1, FS_Subset
  <1>7. \A i \in new : Place(new, i) = Cardinality(first(i))
    BY DEF Place, first
  <1>8. QED
    BY <1>1, <1>5, <1>6, <1>7, BeforeOrders

(* There is a free port for each new instance, and each gets its own.      *)
LEMMA LowestFree ==
  ASSUME NEW kept \in SUBSET Instances, NEW new \in SUBSET (Instances \ kept),
         NEW used, IsFiniteSet(used), Cardinality(used) <= Cardinality(kept)
  PROVE  /\ \A i \in new : Lowest(new, used, i) \in Nat \ {0} /\ Lowest(new, used, i) \notin used
         /\ \A i, j \in new : Lowest(new, used, i) = Lowest(new, used, j) => i = j
  <1> DEFINE N == 2 * Len(Order)
             free == (1 .. N) \ used
  <1>1. N \in Nat /\ free \in SUBSET (1 .. N)
    BY Sorted
  <1>2. Cardinality(free) \in Nat /\ Cardinality(new) <= Cardinality(free)
    <2>1. IsFiniteSet(kept) /\ Cardinality(kept) \in Nat /\ IsFiniteSet(new) /\ Cardinality(new) \in Nat
      BY Sorted, FS_Subset, FS_CardinalityType
    <2>2. Cardinality(used) \in Nat
      BY FS_CardinalityType
    <2>3. Cardinality(new) + Cardinality(kept) <= Len(Order)
      <3>1. Cardinality(kept \cup new) = Cardinality(kept) + Cardinality(new) - Cardinality(kept \cap new)
        BY <2>1, FS_Union
      <3>2. kept \cap new = {} /\ kept \cup new \in SUBSET Instances
        OBVIOUS
      <3>3. Cardinality(kept \cap new) = 0
        BY <3>2, FS_EmptySet
      <3>4. Cardinality(kept \cup new) <= Cardinality(Instances)
        BY <3>2, Sorted, FS_Subset
      <3>5. QED
        BY <2>1, <3>1, <3>3, <3>4, Sorted
    <2>4. IsFiniteSet(1 .. N) /\ Cardinality(1 .. N) = N
      BY <1>1, FS_Interval
    <2>5. /\ IsFiniteSet(free)
          /\ Cardinality(free) = Cardinality(1 .. N) - Cardinality((1 .. N) \cap used)
      BY <2>4, FS_Difference
    <2>6. Cardinality((1 .. N) \cap used) <= Cardinality(used)
          /\ Cardinality((1 .. N) \cap used) \in Nat
      BY <2>2, FS_Intersection, FS_CardinalityType
    <2>7. Cardinality(free) \in Nat
      BY <2>5, FS_CardinalityType
    <2>8. QED
      BY <2>1, <2>2, <2>3, <2>4, <2>5, <2>6, <2>7, Sorted
  <1>3. ASSUME NEW i \in new
        PROVE  /\ Lowest(new, used, i) \in free
               /\ Cardinality(Beneath(free, Lowest(new, used, i))) = Place(new, i)
    <2>1. Place(new, i) \in Nat /\ Place(new, i) < Cardinality(free)
      BY <1>2, Places
    <2>2. \E p \in free : Cardinality(Beneath(free, p)) = Place(new, i)
      <3> HIDE DEF free, N
      <3>1. IsFiniteSet(1 .. N) /\ 1 .. N \subseteq Nat
        BY <1>1, FS_Interval
      <3>2. IsFiniteSet(free) /\ free \in SUBSET Nat
        BY <1>1, <3>1, FS_Subset
      <3>3. \E p \in free : Cardinality({q \in free : q < p}) = Place(new, i)
        BY <2>1, <3>2, Ranked
      <3>4. QED
        BY <3>3 DEF Beneath
    <2>3. Lowest(new, used, i) = CHOOSE p \in free : Cardinality(Beneath(free, p)) = Place(new, i)
      BY DEF Lowest, Beneath, Place
    <2>4. QED
      BY <2>2, <2>3
  <1>4. \A i, j \in new : Lowest(new, used, i) = Lowest(new, used, j) => i = j
    <2> HIDE DEF free, N
    <2>1. QED
      BY <1>3, Places
  <1>5. QED
    <2>1. \A p \in free : p \in Nat \ {0} /\ p \notin used
      BY <1>1
    <2>2. QED
      BY <1>3, <1>4, <2>1
(* What an allocation makes of the ports of the commit before.             *)
LEMMA Allocated ==
  ASSUME NEW records \in Records, NEW ports \in [Instances -> Held \cup {Nothing}], Apart(ports)
  PROVE  LET after == Allocate(records, ports)
         IN  /\ after \in [Instances -> Held \cup {Nothing}]
             /\ Apart(after) /\ Keeps(ports, after) /\ States(after, records)
  <1> DEFINE after == Allocate(records, ports)
             kept == Holders(ports)
             new == {i \in Instances : NeedsEgress(records[i])} \ kept
             used == {ports[i].port : i \in kept}
             lowest(i) == Lowest(new, used, i)
  <1>1. after = [i \in Instances |->
          IF i \in new THEN [port |-> lowest(i), grants |-> Grants(records[i])]
          ELSE IF i \in kept /\ records[i] # Nothing
               THEN [port |-> ports[i].port, grants |-> Grants(records[i])]
          ELSE IF i \in kept THEN ports[i] ELSE Nothing]
    BY DEF Allocate, Given
  <1>2. /\ kept \in SUBSET Instances /\ new \in SUBSET (Instances \ kept)
        /\ \A i \in kept : ports[i] \in Held /\ ports[i].port \in used
        /\ \A i \in Instances \ kept : ports[i] = Nothing
        /\ \A i \in Instances : records[i] # Nothing /\ NeedsEgress(records[i]) => i \in new \cup kept
        /\ \A i \in new : records[i] # Nothing
    BY DEF Holders, NeedsEgress
  <1>3. /\ \A i \in new : lowest(i) \in Nat \ {0} /\ lowest(i) \notin used
        /\ \A i, j \in new : lowest(i) = lowest(j) => i = j
    <2>1. IsFiniteSet(used) /\ Cardinality(used) <= Cardinality(kept)
      <3>1. [i \in kept |-> ports[i].port] \in Surjection(kept, used)
        BY DEF Surjection
      <3>2. IsFiniteSet(kept)
        BY <1>2, Sorted, FS_Subset
      <3> HIDE DEF kept, used
      <3>3. QED
        BY <3>1, <3>2, FS_Surjection
    <2>2. kept \in SUBSET Instances /\ new \in SUBSET (Instances \ kept)
      BY <1>2
    <2> HIDE DEF new, kept, used
    <2>3. /\ \A i \in new : Lowest(new, used, i) \in Nat \ {0} /\ Lowest(new, used, i) \notin used
          /\ \A i, j \in new : Lowest(new, used, i) = Lowest(new, used, j) => i = j
      BY <2>1, <2>2, LowestFree
    <2>4. QED
      BY <2>3
  <1>4. \A i \in Instances : records[i] # Nothing => Grants(records[i]) \in SUBSET Hosts
    <2>1. ASSUME NEW i \in Instances, records[i] # Nothing
          PROVE  records[i] \in UNION {Shapes(j) : j \in Instances}
      BY <2>1 DEF Records
    <2>2. QED
      BY <2>1 DEF Grants, Hosts
  <1>5. \A p \in Nat \ {0}, g \in SUBSET Hosts :
          [port |-> p, grants |-> g] \in Held /\ [port |-> p, grants |-> g] # Nothing
    BY ClusterAssumption DEF Held
  <1>6. \A i \in kept : ports[i].port \in Nat \ {0} /\ ports[i] # Nothing
    BY <1>2, ClusterAssumption DEF Held
  <1> HIDE DEF after, kept, new, used, lowest
  <1>7. after \in [Instances -> Held \cup {Nothing}]
    <2>1. ASSUME NEW i \in Instances PROVE after[i] \in Held \cup {Nothing}
      BY <1>1, <1>2, <1>3, <1>4, <1>5, <1>6
    <2>2. QED
      BY <1>1, <2>1
  <1>8. Holders(after) = new \cup kept
    <2>1. ASSUME NEW i \in Instances PROVE after[i] # Nothing <=> i \in new \cup kept
      BY <1>1, <1>2, <1>3, <1>4, <1>5, <1>6
    <2>2. QED
      BY <1>2, <2>1 DEF Holders
  <1>9. /\ \A i \in new : after[i].port = lowest(i)
        /\ \A i \in kept : after[i].port = ports[i].port
        /\ \A i \in new \cup kept : records[i] # Nothing => after[i].grants = Grants(records[i])
    BY <1>1, <1>2
  <1>10. Apart(after)
    <2>1. \A i, j \in kept : ports[i].port = ports[j].port => i = j
      BY DEF Apart, kept
    <2>2. QED
      BY <1>2, <1>3, <1>8, <1>9, <2>1 DEF Apart
  <1>11. Keeps(ports, after)
    BY <1>8, <1>9 DEF Keeps, kept
  <1>12. States(after, records)
    BY <1>2, <1>8, <1>9 DEF States
  <1>13. QED
    BY <1>7, <1>10, <1>11, <1>12 DEF after

-----------------------------------------------------------------------------
(* The invariant.                                                          *)

LEMMA InitIInv == Init => IInv
  <1> SUFFICES ASSUME Init PROVE IInv
    OBVIOUS
  <1>1. PICK earlier, now \in Records :
          /\ log = <<[records |-> now, ports |-> Allocate(now, Allocate(earlier, NoPorts))]>>
          /\ unit = [i \in Instances |-> 1]
          /\ pod = [i \in Instances |-> IF now[i] = Nothing THEN 0 ELSE 1]
          /\ spaces = Present(1) \cup {i \in Instances : earlier[i] # Nothing /\ earlier[i].database}
          /\ keyed = Present(1)
          /\ egress = 1 /\ proxies = {1} /\ nats = 1 /\ broker = 1
    BY DEF Init
  <1> DEFINE before == Allocate(earlier, NoPorts)
             ports == Allocate(now, before)
  <1>2. NoPorts \in [Instances -> Held \cup {Nothing}] /\ Apart(NoPorts)
    BY DEF NoPorts, Apart, Holders
  <1>3. before \in [Instances -> Held \cup {Nothing}] /\ Apart(before)
    BY <1>2, Allocated
  <1> HIDE DEF before
  <1>4. /\ ports \in [Instances -> Held \cup {Nothing}]
        /\ Apart(ports) /\ States(ports, now)
    BY <1>3, Allocated
  <1>5. log = <<[records |-> now, ports |-> ports]>>
    BY <1>1 DEF before
  <1> HIDE DEF ports
  <1>6. log \in Seq(Commits) /\ Newest = 1 /\ log[1].records = now /\ log[1].ports = ports
    BY <1>4, <1>5 DEF Commits, Newest
  <1>7. TypeOK
    BY <1>1, <1>6 DEF TypeOK, Present
  <1>8. PortsApart /\ PortsKept
    BY <1>4, <1>6 DEF PortsApart, PortsKept, Keeps
  <1>9. PodsListed
    BY <1>1, <1>6 DEF PodsListed, Has, At
  <1>10. KeysStay
    BY <1>1, <1>6 DEF KeysStay, Present, Has, At
  <1>11. QED
    BY <1>7, <1>8, <1>9, <1>10 DEF IInv
(* The commits there are keep what holds of them when the log grows.       *)
LEMMA MergeStep ==
  ASSUME IInv, Merge
  PROVE  IInv'
  <1>1. /\ log \in Seq(Commits) /\ Newest \in Nat /\ Newest > 0 /\ Newest = Len(log)
        /\ UNCHANGED <<unit, pod, spaces, keyed, egress, proxies, nats, broker>>
    BY DEF IInv, TypeOK, Newest, Merge
  <1>2. PICK now \in Records :
          log' = Append(log, [records |-> now, ports |-> Allocate(now, log[Newest].ports)])
    BY DEF Merge
  <1> DEFINE before == log[Newest].ports
             after == Allocate(now, before)
  <1>3. /\ before \in [Instances -> Held \cup {Nothing}] /\ Apart(before)
    <2>1. log[Newest] \in Commits
      BY <1>1
    <2>2. QED
      BY <1>1, <2>1 DEF Commits, IInv, PortsApart
  <1>4. /\ after \in [Instances -> Held \cup {Nothing}]
        /\ Apart(after) /\ Keeps(before, after) /\ States(after, now)
    <2> HIDE DEF before
    <2>1. QED
      BY <1>3, Allocated
  <1> HIDE DEF after
  <1>5. [records |-> now, ports |-> after] \in Commits
    BY <1>4 DEF Commits
  <1>6. /\ log' \in Seq(Commits) /\ Newest' = Newest + 1
        /\ \A n \in 1 .. Newest : log'[n] = log[n]
        /\ log'[Newest + 1].records = now /\ log'[Newest + 1].ports = after
    BY <1>1, <1>2, <1>5 DEF Newest, after
  <1>7. TypeOK'
    BY <1>1, <1>6 DEF IInv, TypeOK
  <1>8. PortsApart'
    <2>1. ASSUME NEW n \in 1 .. (Newest + 1)
          PROVE  Apart(log'[n].ports) /\ States(log'[n].ports, log'[n].records)
      <3>1. CASE n = Newest + 1
        BY <1>4, <1>6, <3>1
      <3>2. CASE n # Newest + 1
        BY <1>1, <1>6, <3>2 DEF IInv, PortsApart
      <3>3. QED
        BY <3>1, <3>2
    <2>2. QED
      BY <1>6, <2>1 DEF PortsApart
  <1>9. PortsKept'
    <2>1. ASSUME NEW m \in 1 .. (Newest + 1), NEW n \in 1 .. (Newest + 1), m <= n
          PROVE  Keeps(log'[m].ports, log'[n].ports)
      <3>1. CASE n # Newest + 1
        BY <1>1, <1>6, <2>1, <3>1 DEF IInv, PortsKept
      <3>2. CASE n = Newest + 1 /\ m = Newest + 1
        BY <3>2 DEF Keeps
      <3>3. CASE n = Newest + 1 /\ m # Newest + 1
        <4>1. Keeps(log[m].ports, before)
          BY <1>1, <3>3 DEF IInv, PortsKept
        <4>2. log'[m].ports = log[m].ports /\ log'[n].ports = after
          BY <1>1, <1>6, <3>3
        <4> HIDE DEF before
        <4>3. QED
          BY <1>4, <4>1, <4>2 DEF Keeps
      <3>4. QED
        BY <3>1, <3>2, <3>3
    <2>2. QED
      BY <1>6, <2>1 DEF PortsKept
  <1>10. \A n \in 1 .. Newest : \A i \in Instances :
           (Has(n, i))' = Has(n, i) /\ (Callers(n, i))' = Callers(n, i)
    BY <1>6 DEF Has, At, Callers, Connected
  <1>11. \A i \in Instances : pod[i] # 0 => pod[i] \in 1 .. Newest
    BY <1>1 DEF IInv, TypeOK
  <1>12. PodsListed'
    <2>1. ASSUME NEW i \in Instances, pod[i] # 0
          PROVE  (Has(pod[i], i))'
      BY <1>1, <1>6, <1>11, <2>1 DEF IInv, PodsListed, Has, At
    <2>2. QED
      BY <1>1, <2>1 DEF PodsListed
  <1>13. KeysStay'
    <2>1. ASSUME NEW i \in Instances, pod[i] # 0, (Callers(pod[i], i))' # {}
          PROVE  i \in keyed \/ \E n \in pod[i] .. (Newest + 1) : ~(Has(n, i))'
      <3>1. Callers(pod[i], i) # {}
        BY <1>1, <1>6, <1>11, <2>1 DEF Callers, Connected, Has, At
      <3>2. CASE i \in keyed
        BY <3>2
      <3>3. ASSUME NEW n \in pod[i] .. Newest, ~Has(n, i)
            PROVE  n \in pod[i] .. (Newest + 1) /\ ~(Has(n, i))'
        BY <1>1, <1>10, <1>11, <2>1, <3>3
      <3>4. QED
        BY <2>1, <3>1, <3>2, <3>3 DEF IInv, KeysStay
    <2>2. QED
      BY <1>1, <1>6, <2>1 DEF KeysStay
  <1>14. QED
    BY <1>7, <1>8, <1>9, <1>12, <1>13 DEF IInv

(* The other steps move parts of the cluster among the commits there are.  *)
LEMMA FollowStep ==
  ASSUME IInv, Follow
  PROVE  IInv'
  <1>1. log' = log /\ Newest \in Nat /\ Newest > 0 /\ Newest' = Newest
    BY DEF Follow, ApplyKeys, ApplyEgress, ProxyStarts, ProxyStops, ApplyNats, BrokerReloads,
           ApplyUnit, PruneUnit, Roll, IInv, TypeOK, Newest
  <1>2. PortsApart' /\ PortsKept'
    BY <1>1 DEF IInv, PortsApart, PortsKept
  <1>3. \A n, i : (Has(n, i))' = Has(n, i) /\ (Callers(n, i))' = Callers(n, i)
    BY <1>1 DEF Has, At, Callers, Connected
  <1>4. Present(Newest)' = Present(Newest)
    BY <1>1 DEF Present, Has, At
  <1>5. \A i \in Instances : pod[i] \in 0 .. Newest /\ unit[i] \in 1 .. Newest
    BY DEF IInv, TypeOK
  <1>6. CASE ApplyEgress \/ ApplyNats \/ BrokerReloads \/ ProxyStarts
    <2>1. TypeOK'
      <3>1. /\ UNCHANGED <<unit, pod, spaces, keyed>>
            /\ egress' \in {egress, Newest} /\ proxies' \in {proxies, proxies \cup {egress}}
            /\ nats' \in {nats, Newest} /\ broker' \in {broker, nats}
        BY <1>6 DEF ApplyEgress, ApplyNats, BrokerReloads, ProxyStarts
      <3>2. QED
        BY <1>1, <3>1 DEF IInv, TypeOK
    <2>2. UNCHANGED <<log, pod, keyed>>
      BY <1>6 DEF ApplyEgress, ApplyNats, BrokerReloads, ProxyStarts
    <2>3. QED
      BY <1>1, <1>2, <2>1, <2>2 DEF IInv, PodsListed, KeysStay, Has, At, Callers, Connected
  <1>7. CASE ProxyStops
    <2>1. Max(proxies) \in proxies
      <3>1. proxies \in SUBSET (0 .. Newest) /\ proxies # {}
        BY <1>1 DEF IInv, TypeOK
      <3>2. QED
        BY <1>1, <3>1, MinAndMax
    <2>2. TypeOK'
      BY <1>1, <1>7, <2>1 DEF ProxyStops, IInv, TypeOK
    <2>3. QED
      BY <1>1, <1>2, <1>7, <2>2
         DEF ProxyStops, IInv, PodsListed, KeysStay, Has, At, Callers, Connected
  <1>8. ASSUME NEW i \in Instances, ApplyUnit(i)
        PROVE  IInv'
    <2>1. TypeOK'
      BY <1>1, <1>8 DEF ApplyUnit, IInv, TypeOK
    <2>2. UNCHANGED <<log, pod, keyed>>
      BY <1>8 DEF ApplyUnit
    <2>3. QED
      BY <1>1, <1>2, <2>1, <2>2 DEF IInv, PodsListed, KeysStay, Has, At, Callers, Connected
  <1>9. CASE ApplyKeys
    <2>1. TypeOK' /\ keyed' = Present(Newest) /\ pod' = pod
      BY <1>1, <1>9 DEF ApplyKeys, IInv, TypeOK, Present
    <2>2. PodsListed'
      BY <1>3, <2>1 DEF IInv, PodsListed
    <2>3. ASSUME NEW i \in Instances, pod[i] # 0, i \notin Present(Newest)
          PROVE  Newest \in pod[i] .. Newest /\ ~Has(Newest, i)
      BY <1>1, <1>5, <2>3 DEF Present
    <2>4. KeysStay'
      BY <1>1, <1>3, <2>1, <2>3 DEF KeysStay
    <2>5. QED
      BY <1>2, <2>1, <2>2, <2>4 DEF IInv
  <1>10. ASSUME NEW i \in Instances, PruneUnit(i)
         PROVE  IInv'
    <2>1. /\ pod' = [pod EXCEPT ![i] = 0] /\ unit' = [unit EXCEPT ![i] = Newest]
          /\ keyed' \in {keyed, keyed \ {i}} /\ spaces' \in {spaces, spaces \ {i}}
          /\ UNCHANGED <<egress, proxies, nats, broker>>
      BY <1>10 DEF PruneUnit
    <2>2. TypeOK'
      BY <1>1, <2>1 DEF IInv, TypeOK
    <2>3. pod'[i] = 0 /\ \A j \in Instances : j # i => pod'[j] = pod[j] /\ (j \in keyed => j \in keyed')
      BY <2>1 DEF IInv, TypeOK
    <2>4. PodsListed' /\ KeysStay'
      BY <1>1, <1>3, <2>3 DEF IInv, PodsListed, KeysStay
    <2>5. QED
      BY <1>2, <2>2, <2>4 DEF IInv
  <1>11. ASSUME NEW i \in Instances, Roll(i)
         PROVE  IInv'
    <2>1. /\ Has(unit[i], i) /\ (Callers(unit[i], i) # {} => i \in keyed)
          /\ pod' = [pod EXCEPT ![i] = unit[i]]
          /\ UNCHANGED <<unit, spaces, keyed, egress, proxies, nats, broker>>
      BY <1>11 DEF Roll
    <2>2. TypeOK'
      BY <1>1, <1>5, <2>1 DEF IInv, TypeOK
    <2>3. pod'[i] = unit[i] /\ \A j \in Instances : j # i => pod'[j] = pod[j]
      BY <2>1 DEF IInv, TypeOK
    <2>4. PodsListed' /\ KeysStay'
      BY <1>1, <1>3, <2>1, <2>3 DEF IInv, PodsListed, KeysStay
    <2>5. QED
      BY <1>2, <2>2, <2>4 DEF IInv
  <1>12. QED
    BY <1>6, <1>7, <1>8, <1>9, <1>10, <1>11 DEF Follow

THEOREM Invariance == Spec => []IInv
  <1>1. IInv /\ [Next]_vars => IInv'
    <2>1. ASSUME IInv, UNCHANGED vars
          PROVE  IInv'
      BY <2>1 DEF vars, IInv, TypeOK, PortsApart, PortsKept, PodsListed, KeysStay, Newest, Has, At,
                  Callers, Connected
    <2>2. QED
      BY <2>1, MergeStep, FollowStep DEF Next
  <1>2. QED
    BY InitIInv, <1>1, PTL DEF Spec
-----------------------------------------------------------------------------
(* What the ports promise.                                                 *)

(* A port names one instance, in whichever commits.                        *)
LEMMA OneHolder ==
  ASSUME IInv, NEW m \in 1 .. Newest, NEW n \in 1 .. Newest,
         NEW i \in Instances, NEW j \in Instances, NEW p,
         Admitted(m, i, p), Admitted(n, j, p)
  PROVE  i = j
  <1>1. /\ i \in Holders(log[m].ports) /\ log[m].ports[i].port = p
        /\ j \in Holders(log[n].ports) /\ log[n].ports[j].port = p
    BY DEF Admitted, Holders
  <1>2. /\ m <= n => Keeps(log[m].ports, log[n].ports)
        /\ n <= m => Keeps(log[n].ports, log[m].ports)
        /\ Apart(log[m].ports) /\ Apart(log[n].ports)
    BY DEF IInv, PortsKept, PortsApart
  <1>3. m <= n \/ n <= m
    OBVIOUS
  <1>4. QED
    BY <1>1, <1>2, <1>3 DEF Keeps, Apart

LEMMA AllowedToOne ==
  ASSUME IInv, NEW n \in 1 .. Newest, NEW i \in Instances, NEW p, Admitted(n, i, p)
  PROVE  Allowed(n, p) = log[n].ports[i].grants
  <1>1. {k \in Instances : Admitted(n, k, p)} = {i}
    BY OneHolder
  <1>2. Allowed(n, p) = UNION {log[n].ports[j].grants : j \in {i}}
    BY <1>1 DEF Allowed
  <1>3. QED
    BY <1>2

(* The proxy never answers one instance with another's grants, whichever   *)
(* commits the instance's policy, the proxy's policy and its pods are at.  *)
THEOREM CallerKnown == Spec => []ProxyKnowsTheCaller
  <1>1. IInv => ProxyKnowsTheCaller
    <2> SUFFICES ASSUME IInv, NEW i \in Instances, NEW n \in proxies, Reach(i, n) # {}
                 PROVE  Admitted(n, i, Port(unit[i], i)) /\ Reach(i, n) = log[n].ports[i].grants
      BY DEF ProxyKnowsTheCaller
    <2> DEFINE p == Port(unit[i], i)
    <2>1. Admitted(egress, i, p) /\ Reach(i, n) = Allowed(n, p)
      BY DEF Reach
    <2>2. n \in 1 .. Newest /\ egress \in 1 .. Newest
      BY DEF IInv, TypeOK
    <2> HIDE DEF p
    <2>3. PICK j \in Instances : Admitted(n, j, p)
      BY <2>1 DEF Allowed
    <2>4. j = i
      BY <2>1, <2>2, <2>3, OneHolder
    <2>5. QED
      BY <2>1, <2>2, <2>3, <2>4, AllowedToOne DEF p
  <1>2. QED
    BY <1>1, Invariance, PTL

-----------------------------------------------------------------------------
(* A change of others.                                                     *)

(* Everything a steady instance meets is at a commit that records it alike. *)
LEMMA SteadyThroughout ==
  ASSUME IInv, NEW i \in Instances, Steady(i)
  PROVE  /\ Oldest(i) \in 1 .. Newest /\ pod[i] # 0
         /\ \A n \in Oldest(i) .. Newest : n \in 1 .. Newest /\ At(n, i) = At(Newest, i)
         /\ \A n \in {unit[i], pod[i], egress, broker, Newest} \cup proxies : n \in Oldest(i) .. Newest
         /\ Has(Newest, i)
  <1> DEFINE met == {unit[i], pod[i], egress, broker} \cup proxies
  <1>1. pod[i] # 0 /\ \A n \in Oldest(i) .. Newest : At(n, i) = At(Newest, i)
    BY DEF Steady
  <1>2. met \in SUBSET (1 .. Newest) /\ Newest \in Nat /\ Newest > 0 /\ met # {}
    <2>1. /\ log \in Seq(Commits) /\ Len(log) > 0 /\ unit[i] \in 1 .. Newest /\ pod[i] \in 0 .. Newest
          /\ egress \in 1 .. Newest /\ broker \in 1 .. Newest /\ proxies \in SUBSET (1 .. Newest)
      BY DEF IInv, TypeOK, Newest
    <2>2. Newest \in Nat /\ Newest > 0
      BY <2>1 DEF Newest
    <2>3. pod[i] \in 1 .. Newest
      BY <1>1, <2>1, <2>2
    <2>4. QED
      BY <2>1, <2>2, <2>3
  <1>3. Oldest(i) = Min(met)
    BY DEF Oldest
  <1>4. Oldest(i) \in met /\ \A n \in met : Oldest(i) <= n
    <2> HIDE DEF met
    <2>1. met \in SUBSET (0 .. Newest)
      BY <1>2
    <2>2. QED
      BY <1>2, <1>3, <2>1, MinAndMax
  <1>5. \A n \in met \cup {Newest} : n \in Oldest(i) .. Newest
    <2> HIDE DEF met
    <2>1. Oldest(i) \in 1 .. Newest /\ \A n \in met : n \in 1 .. Newest
      BY <1>2, <1>4
    <2>2. QED
      BY <1>2, <1>4, <2>1
  <1>6. \A n \in Oldest(i) .. Newest : n \in 1 .. Newest
    <2> HIDE DEF met
    <2>1. Oldest(i) \in 1 .. Newest
      BY <1>2, <1>4
    <2>2. QED
      BY <1>2, <2>1
  <1>7. Has(pod[i], i)
    BY <1>1 DEF IInv, PodsListed
  <1>8. Has(Newest, i)
    BY <1>1, <1>5, <1>7 DEF Has
  <1>9. QED
    BY <1>1, <1>2, <1>4, <1>5, <1>6, <1>8

(* A steady instance that needs a port has the same one, with the same     *)
(* hosts, in every commit it meets.                                        *)
LEMMA SteadyPort ==
  ASSUME IInv, NEW i \in Instances, Steady(i), NEW n \in Oldest(i) .. Newest
  PROVE  LET granted == Grants(At(Newest, i))
         IN  /\ granted = {} => Port(n, i) = 0
             /\ granted # {} =>
                  /\ Port(n, i) = Port(unit[i], i) /\ Port(n, i) # 0
                  /\ Admitted(n, i, Port(unit[i], i)) /\ log[n].ports[i].grants = granted
  <1> DEFINE granted == Grants(At(Newest, i))
  <1>1. \A m \in Oldest(i) .. Newest :
          m \in 1 .. Newest /\ At(m, i) = At(Newest, i) /\ Has(m, i)
    BY SteadyThroughout DEF Has
  <1>2. unit[i] \in Oldest(i) .. Newest /\ Newest \in Oldest(i) .. Newest
    BY SteadyThroughout
  <1>3. \A m \in Oldest(i) .. Newest : log[m].ports[i] # Nothing => log[m].ports[i].grants = granted
    BY <1>1 DEF IInv, PortsApart, States, Holders, Has, At
  <1>4. granted = {} => Port(n, i) = 0
    BY <1>3 DEF Port
  <1>5. ASSUME granted # {}, NEW m \in Oldest(i) .. Newest
        PROVE  /\ log[m].ports[i] # Nothing /\ log[m].ports[i].port \in Nat \ {0}
               /\ Port(m, i) = log[m].ports[i].port
    <2>1. NeedsEgress(At(m, i))
      <3>1. At(m, i) = At(Newest, i) /\ At(m, i) # Nothing
        BY <1>1 DEF Has
      <3>2. At(m, i) \in Shapes(i)
        <4>1. log[m] \in Commits
          BY <1>1 DEF IInv, TypeOK, Newest
        <4>2. QED
          BY <3>1, <4>1 DEF Commits, Records, At
      <3>3. QED
        BY <1>5, <3>1, <3>2, ClusterAssumption DEF NeedsEgress, Grants
    <2>2. log[m].ports[i] # Nothing
      BY <1>1, <2>1 DEF IInv, PortsApart, States, Holders, Has, At
    <2>3. log[m].ports[i] \in Held
      <3>1. log[m] \in Commits
        BY <1>1 DEF IInv, TypeOK, Newest
      <3>2. QED
        BY <2>2, <3>1 DEF Commits
    <2>4. Port(m, i) = log[m].ports[i].port
      BY <1>1, <1>3, <1>5, <2>2 DEF Port
    <2>5. QED
      BY <2>2, <2>3, <2>4 DEF Held
  <1>6. ASSUME granted # {}
        PROVE  log[n].ports[i].port = log[unit[i]].ports[i].port
    <2>1. n \in 1 .. Newest /\ unit[i] \in 1 .. Newest
      BY <1>1, <1>2
    <2>2. n <= unit[i] \/ unit[i] <= n
      BY <2>1
    <2>3. i \in Holders(log[n].ports) /\ i \in Holders(log[unit[i]].ports)
      BY <1>2, <1>5, <1>6 DEF Holders
    <2>4. QED
      BY <2>1, <2>2, <2>3 DEF IInv, PortsKept, Keeps
  <1> HIDE DEF granted
  <1>7. ASSUME granted # {}
        PROVE  /\ Port(n, i) = Port(unit[i], i) /\ Port(n, i) # 0
               /\ Admitted(n, i, Port(unit[i], i)) /\ log[n].ports[i].grants = granted
    BY <1>2, <1>3, <1>5, <1>6, <1>7 DEF Admitted
  <1>8. QED
    BY <1>4, <1>7 DEF granted

(* A change of other instances never disturbs one: it reaches its hosts,   *)
(* signs in, and is answered by every steady callee it stays connected to. *)
THEOREM OthersUndisturbed == Spec => []Undisturbed
  <1>1. ASSUME IInv, NEW i \in Instances, Steady(i)
        PROVE  /\ \A n \in proxies : Uses(i, n) = Grants(At(Newest, i))
               /\ At(Newest, i).key # 0 => SignsIn(i)
    <2> DEFINE granted == Grants(At(Newest, i))
               p == Port(unit[i], i)
    <2>1. \A n \in {unit[i], pod[i], egress, broker, Newest} \cup proxies : n \in Oldest(i) .. Newest
      BY <1>1, SteadyThroughout
    <2>2. ASSUME NEW n \in proxies
          PROVE  Uses(i, n) = granted
      <3>1. CASE granted = {}
        <4>1. p = 0
          BY <1>1, <2>1, <3>1, SteadyPort
        <4>2. QED
          BY <3>1, <4>1 DEF Uses, Reach
      <3>2. CASE granted # {}
        <4>1. /\ Port(pod[i], i) = p /\ p # 0
              /\ Admitted(egress, i, p) /\ Admitted(n, i, p) /\ log[n].ports[i].grants = granted
          <5>1. Port(pod[i], i) = p /\ Port(pod[i], i) # 0
            BY <1>1, <2>1, <3>2, SteadyPort
          <5>2. Admitted(egress, i, p)
            BY <1>1, <2>1, <3>2, SteadyPort
          <5>3. Admitted(n, i, p) /\ log[n].ports[i].grants = granted
            BY <1>1, <2>1, <2>2, <3>2, SteadyPort
          <5>4. QED
            BY <5>1, <5>2, <5>3
        <4>2. n \in 1 .. Newest
          BY <1>1, <2>2 DEF IInv, TypeOK
        <4>3. Allowed(n, p) = granted
          BY <1>1, <4>1, <4>2, AllowedToOne
        <4>4. pod[i] # 0
          BY <1>1 DEF Steady
        <4> HIDE DEF p
        <4>5. QED
          BY <4>1, <4>3, <4>4 DEF Uses, Reach, p
      <3>3. QED
        BY <3>1, <3>2
    <2>3. ASSUME At(Newest, i).key # 0
          PROVE  SignsIn(i)
      <3>1. /\ pod[i] # 0 /\ Has(Newest, i)
            /\ At(broker, i) = At(Newest, i) /\ At(pod[i], i) = At(Newest, i)
        BY <1>1, <2>1, SteadyThroughout
      <3>2. i \in {j \in Present(broker) : At(broker, j).key # 0}
        BY <2>3, <3>1 DEF Present, Has
      <3>3. QED
        BY <3>1, <3>2 DEF SignsIn, Users
    <2>4. QED
      BY <2>2, <2>3
  <1>2. ASSUME IInv, NEW i \in Instances, NEW j \in Instances, Steady(i), Steady(j),
               \A n \in Min({Oldest(i), Oldest(j)}) .. Newest : Connected(n, i, j)
        PROVE  Accepts(i, j)
    <2>1. Oldest(i) \in 1 .. Newest /\ Oldest(j) \in 1 .. Newest /\ Newest \in Nat
      BY <1>2, SteadyThroughout DEF IInv, TypeOK, Newest
    <2>2. /\ Min({Oldest(i), Oldest(j)}) \in Nat
          /\ Min({Oldest(i), Oldest(j)}) <= Oldest(i) /\ Min({Oldest(i), Oldest(j)}) <= Oldest(j)
      <3>1. {Oldest(i), Oldest(j)} \in SUBSET (0 .. Newest) /\ {Oldest(i), Oldest(j)} # {}
        BY <2>1
      <3> DEFINE S == {Oldest(i), Oldest(j)}
      <3>2. Oldest(i) \in S /\ Oldest(j) \in S /\ \A n \in S : n \in Nat
        BY <2>1
      <3> HIDE DEF S
      <3>3. Min(S) \in S /\ \A n \in S : Min(S) <= n
        BY <2>1, <3>1, MinAndMax DEF S
      <3>4. Min(S) \in Nat /\ Min(S) <= Oldest(i) /\ Min(S) <= Oldest(j)
        BY <3>2, <3>3
      <3>5. QED
        BY <3>4 DEF S
    <2>3. \A n \in Oldest(i) .. Newest \cup Oldest(j) .. Newest : Connected(n, i, j)
      BY <1>2, <2>1, <2>2
    <2>4. Connected(pod[i], i, j) /\ Connected(unit[i], i, j) /\ Connected(unit[j], i, j) /\ Connected(pod[j], i, j)
      BY <1>2, <2>3, SteadyThroughout
    <2>5. pod[i] # 0 /\ pod[j] # 0 /\ Callers(pod[j], j) # {}
      BY <1>2, <2>4 DEF Steady, Callers
    <2>6. j \in keyed
      <3>1. \A n \in pod[j] .. Newest : Has(n, j)
        <4>1. \A n \in Oldest(j) .. Newest : Has(n, j)
          BY <1>2, SteadyThroughout DEF Has
        <4>2. pod[j] \in Oldest(j) .. Newest
          BY <1>2, SteadyThroughout
        <4>3. QED
          BY <2>1, <4>1, <4>2
      <3>2. QED
        BY <1>2, <2>5, <3>1 DEF IInv, KeysStay
    <2>7. QED
      BY <2>4, <2>5, <2>6 DEF Accepts
  <1>3. IInv => Undisturbed
    BY <1>1, <1>2 DEF Undisturbed
  <1>4. QED
    BY <1>3, Invariance, PTL

(* Every variable keeps its type.                                          *)
THEOREM TypeCorrect == Spec => []TypeOK
  BY Invariance, PTL DEF IInv

-----------------------------------------------------------------------------
(***************************************************************************)
(* The dashboard passes, for any instances, any content of Git, any presets *)
(* and any number of events.                                                *)
(***************************************************************************)

Ops == {"create", "update", "delete"}
EnvSet == {"staging", "prod"}
Bodies == [kind : {"web", "worker", "edited", "bare"}, envs : SUBSET EnvSet]
Boards == [id : Nat, name : Nat \cup {Other}, tagged : BOOLEAN, tiles : Nat, body : Bodies]
Alerts == [id : Nat, name : Nat \X Presets, board : Nat, tiles : Nat, threshold : Nat, hook : Nat]
HookDocs == [id : Nat, name : {"ntfy: platform", "swhurl notify"}, body : {"wanted", "edited", "foreign"}]
Docs(on) == IF on = "boards" THEN Boards ELSE IF on = "alerts" THEN Alerts ELSE HookDocs
AppDocs == [name : Nat, kind : {"web", "worker"}, envs : SUBSET EnvSet, alerts : {"", "none"}]
PassStages == {"idle", "webhooks", "hook", "dashboards", "board", "record", "prune", "alerts", "alert"}
Sends == {"hook", "board", "prune", "alert"}

AsksOf(on) == [op : Ops, on : {on}, id : Nat, doc : Docs(on)]
Asks == AsksOf("boards") \cup AsksOf("alerts") \cup AsksOf("hooks")

Writes(todo) == {r \in todo : r.op # "delete"}

PassTypes ==
  [pc : PassStages, apps : SUBSET AppDocs, prune : BOOLEAN, todo : SUBSET Asks, ids : SUBSET ((Nat \cup {Other}) \X Nat),
   hook : Nat, beside : BOOLEAN, disturbed : BOOLEAN]

ClickTypes ==
  /\ DOMAIN click = Click!Kinds /\ click = [on \in Click!Kinds |-> click[on]]
  /\ made \in [Click!Kinds -> Nat]
  /\ \A on \in Click!Kinds :
       /\ click[on] \subseteq Docs(on)
       /\ \A x \in click[on] : x.id >= 1 /\ x.id <= made[on]
       /\ \A x, y \in click[on] : x.id = y.id => x = y

LEMMA KindOf ==
  ASSUME NEW r \in Asks
  PROVE  /\ r.on \in Click!Kinds /\ r.op \in Ops /\ r.id \in Nat /\ r.doc \in Docs(r.on) /\ r \in AsksOf(r.on)
PROOF
  BY DEF Asks, AsksOf, Click!Kinds

LEMMA DocName ==
  ASSUME NEW on \in Click!Kinds, NEW d \in Docs(on), NEW n \in Nat
  PROVE  /\ [d EXCEPT !.id = n] \in Docs(on)
         /\ [d EXCEPT !.id = n].id = n
         /\ [d EXCEPT !.id = n].name = d.name
         /\ on = "boards" => [d EXCEPT !.id = n].tagged = d.tagged /\ [d EXCEPT !.id = n].body = d.body
PROOF
  BY DEF Docs, Boards, Alerts, HookDocs, Click!Kinds

LEMMA Tiled ==
  ASSUME NEW b \in Boards, NEW n \in Nat
  PROVE  /\ [b EXCEPT !.tiles = n] \in Boards
         /\ [b EXCEPT !.tiles = n].name = b.name
         /\ [b EXCEPT !.tiles = n].tagged = b.tagged
         /\ [b EXCEPT !.tiles = n].body = b.body
PROOF
  BY DEF Boards

LEMMA Requesting ==
  ASSUME NEW op \in Ops, NEW on \in Click!Kinds, NEW id \in Nat, NEW d \in Docs(on)
  PROVE  /\ Click!Request(op, on, id, d) \in Asks
         /\ Click!Request(op, on, id, d).op = op /\ Click!Request(op, on, id, d).on = on
         /\ Click!Request(op, on, id, d).id = id /\ Click!Request(op, on, id, d).doc = d
PROOF
  BY DEF Asks, AsksOf, Click!Kinds, Click!Request

(* What ClickStack holds after a request. *)
Adds(on, x) ==
  /\ click' = [click EXCEPT ![on] = @ \cup {x}]
  /\ made' = [made EXCEPT ![on] = @ + 1]
  /\ x \in Docs(on) /\ x.id = made[on] + 1

Replaces(on, x) ==
  /\ click' = [click EXCEPT ![on] = {y \in @ : y.id # x.id} \cup {x}]
  /\ made' = made
  /\ x \in Docs(on) /\ \E y \in click[on] : y.id = x.id

Removes(on, id) ==
  /\ click' = [click EXCEPT ![on] = {y \in @ : y.id # id}]
  /\ made' = made

LEMMA Creating ==
  ASSUME ClickTypes, NEW r \in Asks, r.op = "create", Click!Applied(r)
  PROVE  \E x \in Docs(r.on) : 
            /\ x = Click!Numbered(r)
            /\ Adds(r.on, x) /\ x.name = r.doc.name
            /\ r.on = "boards" => x.tagged = r.doc.tagged /\ x.body = r.doc.body
PROOF
  <1> DEFINE x == Click!Numbered(r)
             d == IF r.on = "boards" THEN [r.doc EXCEPT !.tiles = 1 + 0] ELSE r.doc
  <1>1. r.on \in Click!Kinds /\ r.doc \in Docs(r.on) /\ made[r.on] + 1 \in Nat
    BY KindOf DEF ClickTypes
  <1>a. r.on = "boards" => r.doc \in Boards
    BY <1>1 DEF Docs
  <1>b. 1 + 0 \in Nat
    OBVIOUS
  <1>2. d \in Docs(r.on) /\ d.name = r.doc.name
    BY <1>1, <1>a, <1>b, Tiled DEF Docs
  <1>3. r.on = "boards" => d.tagged = r.doc.tagged /\ d.body = r.doc.body
    BY <1>a, <1>b, Tiled
  <1>4. x = [d EXCEPT !.id = made[r.on] + 1]
    BY DEF Click!Numbered
  <1> HIDE DEF x, d
  <1>5. /\ x \in Docs(r.on) /\ x.id = made[r.on] + 1 /\ x.name = d.name
        /\ r.on = "boards" => x.tagged = d.tagged /\ x.body = d.body
    BY <1>1, <1>2, <1>4, DocName
  <1>6. click' = [click EXCEPT ![r.on] = @ \cup {x}] /\ made' = [made EXCEPT ![r.on] = @ + 1]
    BY DEF Click!Applied, Click!After, x
  <1> QED BY <1>2, <1>3, <1>5, <1>6 DEF Adds, x

LEMMA Updating ==
  ASSUME ClickTypes, NEW r \in Asks, r.op = "update", Click!Possible(r), Click!Applied(r)
  PROVE  \E x \in Docs(r.on) :
            /\ x = Click!Numbered(r)
            /\ Replaces(r.on, x) /\ x.id = r.id /\ x.name = r.doc.name
            /\ r.on = "boards" => x.tagged = r.doc.tagged /\ x.body = r.doc.body
            /\ r.on # "boards" => x = [r.doc EXCEPT !.id = r.id]
PROOF
  <1> DEFINE x == Click!Numbered(r)
             was == {y \in click[r.on] : y.id = r.id}
             d == IF r.on = "boards" THEN [r.doc EXCEPT !.tiles = 1 + (CHOOSE y \in was : TRUE).tiles] ELSE r.doc
  <1>1. r.on \in Click!Kinds /\ r.doc \in Docs(r.on) /\ r.id \in Nat
    BY KindOf DEF ClickTypes
  <1>2. was # {} /\ was \subseteq Docs(r.on)
    BY <1>1 DEF ClickTypes, Click!Possible
  <1>3. (CHOOSE y \in was : TRUE) \in Docs(r.on)
    <2> HIDE DEF was
    <2> QED BY <1>2
  <1>a. r.on = "boards" => r.doc \in Boards /\ 1 + (CHOOSE y \in was : TRUE).tiles \in Nat
    <2> HIDE DEF was
    <2> QED BY <1>1, <1>3 DEF Docs, Boards
  <1>4. d \in Docs(r.on) /\ d.name = r.doc.name
    <2> HIDE DEF was
    <2> QED BY <1>1, <1>a, Tiled DEF Docs
  <1>5. r.on = "boards" => d.tagged = r.doc.tagged /\ d.body = r.doc.body
    <2> HIDE DEF was
    <2> QED BY <1>a, Tiled
  <1>6. x = [d EXCEPT !.id = r.id]
    BY DEF Click!Numbered
  <1>7. r.on # "boards" => d = r.doc
    OBVIOUS
  <1> HIDE DEF x, d
  <1>8. /\ x \in Docs(r.on) /\ x.id = r.id /\ x.name = d.name
        /\ r.on = "boards" => x.tagged = d.tagged /\ x.body = d.body
    BY <1>1, <1>4, <1>6, DocName
  <1>9. click' = [click EXCEPT ![r.on] = {y \in click[r.on] : y.id # r.id} \cup {x}] /\ made' = made
    BY DEF Click!Applied, Click!After, x
  <1>10. \E y \in click[r.on] : y.id = x.id
    BY <1>2, <1>8
  <1>11. Replaces(r.on, x)
    BY <1>8, <1>9, <1>10 DEF Replaces
  <1> QED BY <1>4, <1>5, <1>6, <1>7, <1>8, <1>11 DEF x

LEMMA Deleting ==
  ASSUME NEW r \in Asks, r.op = "delete", Click!Applied(r)
  PROVE  Removes(r.on, r.id)
PROOF
  BY DEF Removes, Click!Applied, Click!After

LEMMA ClickKept ==
  ASSUME ClickTypes, NEW on \in Click!Kinds, NEW x, NEW id,
         Adds(on, x) \/ Replaces(on, x) \/ Removes(on, id)
  PROVE  ClickTypes'
PROOF
  <1>1. CASE Adds(on, x)
    <2>a. DOMAIN click' = Click!Kinds /\ click' = [k \in Click!Kinds |-> click'[k]]
      BY <1>1 DEF Adds, ClickTypes
    <2>b. made' = [made EXCEPT ![on] = made[on] + 1] /\ made[on] + 1 \in Nat
      BY <1>1 DEF Adds, ClickTypes
    <2>c. made' \in [Click!Kinds -> Nat]
      BY <2>b DEF ClickTypes
    <2>1. DOMAIN click' = Click!Kinds /\ click' = [k \in Click!Kinds |-> click'[k]] /\ made' \in [Click!Kinds -> Nat]
      BY <2>a, <2>c
    <2>2. \A k \in Click!Kinds : click'[k] = (IF k = on THEN click[on] \cup {x} ELSE click[k])
                                 /\ made'[k] = (IF k = on THEN made[on] + 1 ELSE made[k])
      BY <1>1 DEF Adds, ClickTypes
    <2>3. ASSUME NEW k \in Click!Kinds
          PROVE  /\ click'[k] \subseteq Docs(k)
                 /\ \A y \in click'[k] : y.id >= 1 /\ y.id <= made'[k]
                 /\ \A y, z \in click'[k] : y.id = z.id => y = z
      <3>1. \A y \in click[k] : y.id \in Nat /\ y.id >= 1 /\ y.id <= made[k]
        BY DEF ClickTypes, Docs, Boards, Alerts, HookDocs
      <3>2. made[k] \in Nat /\ made[on] \in Nat /\ click[k] \subseteq Docs(k) /\ \A y, z \in click[k] : y.id = z.id => y = z
        BY DEF ClickTypes
      <3>3. x \in Docs(on) /\ x.id = made[on] + 1
        BY <1>1 DEF Adds
      <3>4. CASE k = on
        BY <2>2, <3>1, <3>2, <3>3, <3>4
      <3>5. CASE k # on
        BY <2>2, <3>1, <3>2, <3>5
      <3> QED BY <3>4, <3>5
    <2> QED BY <2>1, <2>3 DEF ClickTypes
  <1>2. CASE Replaces(on, x)
    <2>1. DOMAIN click' = Click!Kinds /\ click' = [k \in Click!Kinds |-> click'[k]] /\ made' \in [Click!Kinds -> Nat]
      BY <1>2 DEF Replaces, ClickTypes
    <2>2. \A k \in Click!Kinds : click'[k] = (IF k = on THEN {y \in click[on] : y.id # x.id} \cup {x} ELSE click[k])
                                 /\ made'[k] = made[k]
      BY <1>2 DEF Replaces, ClickTypes
    <2> QED BY <1>2, <2>1, <2>2 DEF Replaces, ClickTypes
  <1>3. CASE Removes(on, id)
    BY <1>3, ZenonT(60) DEF Removes, ClickTypes
  <1> QED BY <1>1, <1>2, <1>3

-----------------------------------------------------------------------------
(* A plan brings what there is of one kind to what is wanted.              *)
Like(on, x, w) == IF on = "boards" THEN x.body = w.body ELSE [x EXCEPT !.id = 0] = w
Spared(on, prune, n) == (on = "boards" /\ n = Other) \/ (on # "hooks" /\ ~prune)
NamesOf(W) == {w.name : w \in W}
OneEach(W) == \A v, w \in W : v.name = w.name => v = w

Plans(on, W, ours, prune, steps) ==
  /\ OneEach(ours)
  /\ \A r \in steps : r \in [op : Ops \cup {"keep"}, on : {on}, id : Nat, doc : Docs(on)]
  /\ \A r \in steps : r.op = "create" => r.id = 0 /\ r.doc \in W /\ \A x \in ours : x.name # r.doc.name
  /\ \A r \in steps : r.op = "update" => r.doc \in W /\ \E x \in ours : x.id = r.id /\ x.name = r.doc.name
  /\ \A r \in steps : r.op = "keep" =>
       /\ r.doc \in ours /\ r.id = r.doc.id
       /\ \E w \in W : w.name = r.doc.name /\ Like(on, r.doc, w)
  /\ \A r \in steps : r.op = "delete" => r.doc \in ours /\ r.id = r.doc.id /\ r.doc.name \notin NamesOf(W) /\ on # "hooks" /\ prune
  /\ \A w \in W : \E r \in steps : r.op # "delete" /\ r.doc.name = w.name
  /\ \A q, r \in Writes(steps) : q.doc.name = r.doc.name => q = r
  /\ \A x \in ours : x.name \in NamesOf(W) \/ Spared(on, prune, x.name) \/ \E r \in steps : r.op = "delete" /\ r.id = x.id

WantedHooks == {Click!Hook("ntfy: platform"), Click!Hook("swhurl notify")}
WantedBoards(apps) == {Click!Definition(app) : app \in apps}
WantedAlerts(apps, boards, hook) ==
  UNION {UNION {Click!WantedAlerts(app, b, hook) : b \in {b \in boards : b.name = app.name}} : app \in apps}

(* The step for one wanted object.                                         *)
Stepped(on, ours, w, r) ==
  \/ (\A x \in ours : x.name # w.name) /\ r = Click!Request("create", on, 0, w)
  \/ \E x \in ours : x.name = w.name /\ Like(on, x, w) /\ r = Click!Kept(on, x)
  \/ \E x \in ours : x.name = w.name /\ ~Like(on, x, w) /\ r = Click!Request("update", on, x.id, w)

LEMMA Planned ==
  ASSUME NEW on \in Click!Kinds, NEW W \in SUBSET Docs(on), NEW ours \in SUBSET Docs(on), NEW prune \in BOOLEAN,
         NEW deleted \in SUBSET ours, NEW steps,
         OneEach(ours), OneEach(W),
         \A r \in steps : (\E w \in W : Stepped(on, ours, w, r))
                         \/ \E x \in deleted : r = Click!Request("delete", on, x.id, x),
         \A w \in W : \E r \in steps : Stepped(on, ours, w, r),
         \A x \in deleted : Click!Request("delete", on, x.id, x) \in steps,
         \A x \in deleted : x.name \notin NamesOf(W) /\ on # "hooks" /\ prune,
         \A x \in ours \ deleted : x.name \in NamesOf(W) \/ Spared(on, prune, x.name)
  PROVE  Plans(on, W, ours, prune, steps)
PROOF
  <1>1. \A x \in ours : x.id \in Nat
    BY DEF Docs, Boards, Alerts, HookDocs
  <1>2. ASSUME NEW r \in steps
        PROVE  /\ r \in [op : Ops \cup {"keep"}, on : {on}, id : Nat, doc : Docs(on)]
               /\ r.op = "create" => r.id = 0 /\ r.doc \in W /\ \A x \in ours : x.name # r.doc.name
               /\ r.op = "update" => r.doc \in W /\ \E x \in ours : x.id = r.id /\ x.name = r.doc.name
               /\ r.op = "keep" => /\ r.doc \in ours /\ r.id = r.doc.id
                                   /\ \E w \in W : w.name = r.doc.name /\ Like(on, r.doc, w)
               /\ r.op = "delete" => /\ r.doc \in ours /\ r.id = r.doc.id /\ r.doc.name \notin NamesOf(W)
                                     /\ on # "hooks" /\ prune
    <2>1. CASE \E x \in deleted : r = Click!Request("delete", on, x.id, x)
      BY <2>1, <1>1 DEF Click!Request, Ops
    <2>2. ASSUME NEW w \in W, Stepped(on, ours, w, r)
          PROVE  /\ r \in [op : Ops \cup {"keep"}, on : {on}, id : Nat, doc : Docs(on)]
                 /\ r.op = "create" => r.id = 0 /\ r.doc \in W /\ \A x \in ours : x.name # r.doc.name
                 /\ r.op = "update" => r.doc \in W /\ \E x \in ours : x.id = r.id /\ x.name = r.doc.name
                 /\ r.op = "keep" => /\ r.doc \in ours /\ r.id = r.doc.id
                                     /\ \E v \in W : v.name = r.doc.name /\ Like(on, r.doc, v)
                 /\ r.op # "delete"
      <3>1. CASE (\A x \in ours : x.name # w.name) /\ r = Click!Request("create", on, 0, w)
        BY <3>1 DEF Click!Request, Ops
      <3>2. CASE \E x \in ours : x.name = w.name /\ Like(on, x, w) /\ r = Click!Kept(on, x)
        BY <3>2, <1>1 DEF Click!Request, Click!Kept, Ops
      <3>3. CASE \E x \in ours : x.name = w.name /\ ~Like(on, x, w) /\ r = Click!Request("update", on, x.id, w)
        BY <3>3, <1>1 DEF Click!Request, Ops
      <3> QED BY <2>2, <3>1, <3>2, <3>3 DEF Stepped
    <2> QED BY <2>1, <2>2
  <1>3. ASSUME NEW r \in Writes(steps)
        PROVE  \E w \in W : Stepped(on, ours, w, r) /\ r.doc.name = w.name
    <2>1. r \in steps /\ r.op # "delete"
      BY DEF Writes
    <2>2. PICK w \in W : Stepped(on, ours, w, r)
      BY <2>1 DEF Click!Request
    <2>3. r.doc.name = w.name
      BY <2>2 DEF Stepped, Click!Request, Click!Kept
    <2> QED BY <2>2, <2>3
  <1>4. ASSUME NEW q \in Writes(steps), NEW r \in Writes(steps), q.doc.name = r.doc.name
        PROVE  q = r
    <2>1. PICK w \in W : Stepped(on, ours, w, r) /\ r.doc.name = w.name
      BY <1>3
    <2>2. PICK v \in W : Stepped(on, ours, v, q) /\ q.doc.name = v.name
      BY <1>3
    <2>3. v = w
      BY <2>1, <2>2, <1>4 DEF OneEach
    <2> QED BY <2>1, <2>2, <2>3 DEF Stepped, OneEach
  <1>5. \A w \in W : \E r \in steps : r.op # "delete" /\ r.doc.name = w.name
    BY DEF Stepped, Click!Request, Click!Kept
  <1>6. \A x \in ours : x.name \in NamesOf(W) \/ Spared(on, prune, x.name) \/ \E r \in steps : r.op = "delete" /\ r.id = x.id
    BY DEF Click!Request
  <1> QED BY <1>2, <1>4, <1>5, <1>6 DEF Plans

LEMMA HookNames ==
  /\ WantedHooks \subseteq HookDocs /\ OneEach(WantedHooks)
  /\ NamesOf(WantedHooks) = {"ntfy: platform", "swhurl notify"}
PROOF
  <1>1. /\ Click!Hook("ntfy: platform").name = "ntfy: platform" /\ Click!Hook("swhurl notify").name = "swhurl notify"
        /\ Click!Hook("ntfy: platform") \in HookDocs /\ Click!Hook("swhurl notify") \in HookDocs
    BY DEF HookDocs, Click!Hook
  <1>2. \A w \in WantedHooks : w = Click!Hook("ntfy: platform") \/ w = Click!Hook("swhurl notify")
    BY DEF WantedHooks
  <1>3. Click!Hook("ntfy: platform") \in WantedHooks /\ Click!Hook("swhurl notify") \in WantedHooks
    BY DEF WantedHooks
  <1>4. NamesOf(WantedHooks) = {"ntfy: platform", "swhurl notify"}
    BY <1>1, <1>2, <1>3 DEF NamesOf
  <1> QED BY <1>1, <1>2, <1>4 DEF OneEach

LEMMA LikeHook ==
  ASSUME NEW h \in HookDocs
  PROVE  Like("hooks", h, Click!Hook(h.name)) <=> h.body = "wanted"
PROOF
  <1>1. h = [id |-> h.id, name |-> h.name, body |-> h.body]
    BY DEF HookDocs
  <1>2. [h EXCEPT !.id = 0] = [id |-> 0, name |-> h.name, body |-> h.body]
    BY <1>1
  <1>3. Click!Hook(h.name) = [id |-> 0, name |-> h.name, body |-> "wanted"]
    BY DEF Click!Hook
  <1>4. [id |-> 0, name |-> h.name, body |-> h.body].body = h.body
        /\ [id |-> 0, name |-> h.name, body |-> "wanted"].body = "wanted"
    OBVIOUS
  <1>5. Like("hooks", h, Click!Hook(h.name)) <=> [h EXCEPT !.id = 0] = Click!Hook(h.name)
    BY DEF Like
  <1> QED BY <1>2, <1>3, <1>4, <1>5

LEMMA HooksPlanned ==
  ASSUME NEW live \in SUBSET HookDocs, NEW prune \in BOOLEAN, Click!PlanWebhooks(live) # Click!Refused
  PROVE  Plans("hooks", WantedHooks, live, prune, Click!PlanWebhooks(live))
PROOF
  <1> DEFINE Of(n) == {h \in live : h.name = Click!Hooks[n]}
             One(n) == CHOOSE h \in Of(n) : TRUE
             Do(n) ==
               IF Of(n) = {} THEN Click!Request("create", "hooks", 0, Click!Hook(Click!Hooks[n]))
               ELSE IF One(n).body = "wanted" THEN Click!Kept("hooks", One(n))
               ELSE Click!Request("update", "hooks", One(n).id, Click!Hook(Click!Hooks[n]))
             steps == {Do(n) : n \in 1 .. 2}
  <1>1. Click!PlanWebhooks(live) = steps /\ OneEach(live)
    <2>1. DOMAIN Click!Hooks = 1 .. 2
      BY DEF Click!Hooks
    <2>2. ~Click!Twins(live)
      BY DEF Click!PlanWebhooks
    <2>3. Click!PlanWebhooks(live) = steps
      BY <2>1 DEF Click!PlanWebhooks
    <2> QED BY <2>2, <2>3 DEF Click!Twins, OneEach
  <1>2. Click!Hooks[1] = "ntfy: platform" /\ Click!Hooks[2] = "swhurl notify" /\ \A n \in 1 .. 2 : n = 1 \/ n = 2
    BY DEF Click!Hooks
  <1>3. \A n \in 1 .. 2 : Click!Hook(Click!Hooks[n]) \in WantedHooks
    <2> SUFFICES ASSUME NEW n \in 1 .. 2 PROVE Click!Hook(Click!Hooks[n]) \in WantedHooks
      OBVIOUS
    <2> QED BY <1>2 DEF WantedHooks
  <1>4. WantedHooks \subseteq HookDocs /\ OneEach(WantedHooks) /\ NamesOf(WantedHooks) = {"ntfy: platform", "swhurl notify"}
    BY HookNames
  <1>5. ASSUME NEW n \in 1 .. 2
        PROVE  Stepped("hooks", live, Click!Hook(Click!Hooks[n]), Do(n))
    <2>1. Click!Hook(Click!Hooks[n]).name = Click!Hooks[n]
      BY DEF Click!Hook
    <2>2. CASE Of(n) = {}
      BY <2>1, <2>2 DEF Stepped
    <2>3. CASE Of(n) # {}
      <3>1. One(n) \in live /\ One(n).name = Click!Hooks[n]
        BY <2>3
      <3> HIDE DEF One, Of
      <3>2. Like("hooks", One(n), Click!Hook(Click!Hooks[n])) <=> One(n).body = "wanted"
        BY <3>1, LikeHook
      <3> QED BY <2>1, <2>3, <3>1, <3>2 DEF Stepped
    <2> QED BY <2>2, <2>3
  <1>6. \A w \in WantedHooks : \E n \in 1 .. 2 : w = Click!Hook(Click!Hooks[n])
    <2>1. 1 \in 1 .. 2 /\ 2 \in 1 .. 2
      OBVIOUS
    <2> QED BY <1>2, <2>1 DEF WantedHooks
  <1>7. \A x \in live : x.name \in NamesOf(WantedHooks)
    BY <1>4 DEF HookDocs
  <1>8. "hooks" \in Click!Kinds /\ Docs("hooks") = HookDocs
    BY DEF Click!Kinds, Docs
  <1>9. \A r \in steps : \E w \in WantedHooks : Stepped("hooks", live, w, r)
    <2> HIDE DEF Do
    <2> QED BY <1>3, <1>5
  <1>10. \A w \in WantedHooks : \E r \in steps : Stepped("hooks", live, w, r)
    <2> HIDE DEF Do
    <2> QED BY <1>5, <1>6
  <1>11. Plans("hooks", WantedHooks, live, prune, steps)
    <2> HIDE DEF steps
    <2>1. {} \in SUBSET live
      OBVIOUS
    <2> QED BY <1>1, <1>4, <1>7, <1>8, <1>9, <1>10, <2>1, Planned
  <1> QED BY <1>1, <1>11

LEMMA AppNames ==
  ASSUME NEW apps \in SUBSET AppDocs, OneEach(apps)
  PROVE  /\ WantedBoards(apps) \subseteq Boards /\ OneEach(WantedBoards(apps))
         /\ NamesOf(WantedBoards(apps)) = {app.name : app \in apps}
         /\ \A app \in apps : Click!Definition(app).name = app.name /\ Click!Definition(app).tagged
PROOF
  <1>1. \A app \in apps : /\ Click!Definition(app) \in Boards /\ Click!Definition(app).name = app.name
                          /\ Click!Definition(app).tagged
    BY DEF AppDocs, Boards, Bodies, Click!Definition
  <1> QED BY <1>1 DEF WantedBoards, OneEach, NamesOf

LEMMA BoardsPlanned ==
  ASSUME NEW live \in SUBSET Boards, NEW prune \in BOOLEAN, NEW apps \in SUBSET AppDocs, OneEach(apps),
         prune \/ apps = {},
         Click!PlanDashboards(apps, live, prune) # Click!Refused
  PROVE  Plans("boards", WantedBoards(apps), Click!Tagged(live), prune, Click!PlanDashboards(apps, live, prune))
PROOF
  <1> DEFINE ours == Click!Tagged(live)
             Of(app) == {b \in ours : b.name = app.name}
             One(app) == CHOOSE b \in Of(app) : TRUE
             Do(app) ==
               IF Of(app) = {} THEN Click!Request("create", "boards", 0, Click!Definition(app))
               ELSE IF Click!Same(One(app), Click!Definition(app)) THEN Click!Kept("boards", One(app))
               ELSE Click!Request("update", "boards", One(app).id, Click!Definition(app))
             deleted == IF prune THEN {b \in Click!Stale(apps, live) : b.name # Other} ELSE {}
             steps == {Do(app) : app \in apps} \cup {Click!Request("delete", "boards", b.id, b) : b \in deleted}
             W == WantedBoards(apps)
  <1>1. Click!PlanDashboards(apps, live, prune) = steps /\ OneEach(ours)
    <2>1. ~Click!Twins(ours)
      BY DEF Click!PlanDashboards
    <2>2. Click!PlanDashboards(apps, live, prune) = steps
      BY <2>1 DEF Click!PlanDashboards
    <2> QED BY <2>1, <2>2 DEF Click!Twins, OneEach
  <1>2. W \subseteq Boards /\ OneEach(W) /\ NamesOf(W) = {app.name : app \in apps}
    BY AppNames
  <1>3. \A app \in apps : Click!Definition(app) \in W
    BY DEF WantedBoards
  <1>4. ASSUME NEW app \in apps
        PROVE  Stepped("boards", ours, Click!Definition(app), Do(app))
    <2>1. Click!Definition(app).name = app.name
      BY AppNames
    <2>2. CASE Of(app) = {}
      <3> HIDE DEF ours
      <3> QED BY <2>1, <2>2 DEF Stepped
    <2>3. CASE Of(app) # {}
      <3>1. One(app) \in ours /\ One(app).name = app.name
        <4> HIDE DEF ours
        <4> QED BY <2>3
      <3> HIDE DEF One, Of, ours
      <3>2. Like("boards", One(app), Click!Definition(app)) <=> Click!Same(One(app), Click!Definition(app))
        BY DEF Like, Click!Same
      <3> QED BY <2>1, <2>3, <3>1, <3>2 DEF Stepped
    <2> QED BY <2>2, <2>3
  <1>5. \A w \in W : \E app \in apps : w = Click!Definition(app)
    BY DEF WantedBoards
  <1>6. "boards" \in Click!Kinds /\ Docs("boards") = Boards /\ ours \subseteq Boards
    BY DEF Click!Kinds, Docs, Click!Tagged
  <1>7. \A r \in steps : (\E w \in W : Stepped("boards", ours, w, r))
                       \/ \E x \in deleted : r = Click!Request("delete", "boards", x.id, x)
    <2> HIDE DEF Do, deleted, W, ours
    <2> QED BY <1>3, <1>4
  <1>8. \A w \in W : \E r \in steps : Stepped("boards", ours, w, r)
    <2> HIDE DEF Do, deleted, W, ours
    <2> QED BY <1>4, <1>5
  <1>9. \A x \in deleted : x \in ours /\ x.name \notin NamesOf(W) /\ prune
    BY <1>2 DEF Click!Stale
  <1>10. \A x \in ours \ deleted : x.name \in NamesOf(W) \/ Spared("boards", prune, x.name)
    BY <1>2 DEF Click!Stale, Spared
  <1>11. \A x \in deleted : Click!Request("delete", "boards", x.id, x) \in steps
    OBVIOUS
  <1>12. Plans("boards", W, ours, prune, steps)
    <2>1. deleted \in SUBSET ours
      BY <1>9
    <2> HIDE DEF steps, W, ours, deleted
    <2> QED BY <1>1, <1>2, <1>6, <1>7, <1>8, <1>9, <1>10, <1>11, <2>1, Planned
  <1> QED BY <1>1, <1>12

LEMMA AlertNames ==
  ASSUME NEW apps \in SUBSET AppDocs, OneEach(apps), NEW boards \in SUBSET Boards, OneEach(boards), NEW hook \in Nat
  PROVE  WantedAlerts(apps, boards, hook) \subseteq Alerts /\ OneEach(WantedAlerts(apps, boards, hook))
PROOF
  <1>1. ASSUME NEW w \in WantedAlerts(apps, boards, hook)
        PROVE  \E app \in apps : \E b \in boards : \E preset \in Presets :
                 /\ b.name = app.name
                 /\ w = [id |-> 0, name |-> <<app.name, preset>>, board |-> b.id, tiles |-> b.tiles,
                         threshold |-> Click!Threshold(app), hook |-> hook]
    <2>1. PICK app \in apps : w \in UNION {Click!WantedAlerts(app, b, hook) : b \in {b \in boards : b.name = app.name}}
      BY DEF WantedAlerts
    <2>2. PICK b \in {b \in boards : b.name = app.name} : w \in Click!WantedAlerts(app, b, hook)
      BY <2>1
    <2> QED BY <2>2 DEF Click!WantedAlerts
  <1>2. ASSUME NEW app \in apps
        PROVE  app.name \in Nat /\ Click!Threshold(app) \in Nat
    BY DEF AppDocs, Click!Threshold
  <1>3. \A b \in boards : b.id \in Nat /\ b.tiles \in Nat
    BY DEF Boards
  <1>4. ASSUME NEW w \in WantedAlerts(apps, boards, hook)
        PROVE  w \in Alerts
    BY <1>1, <1>2, <1>3 DEF Alerts
  <1>5. ASSUME NEW v \in WantedAlerts(apps, boards, hook), NEW w \in WantedAlerts(apps, boards, hook), v.name = w.name
        PROVE  v = w
    <2>1. PICK app \in apps : \E b \in boards : \E preset \in Presets :
                 /\ b.name = app.name
                 /\ w = [id |-> 0, name |-> <<app.name, preset>>, board |-> b.id, tiles |-> b.tiles,
                         threshold |-> Click!Threshold(app), hook |-> hook]
      BY <1>1
    <2>2. PICK b \in boards : \E preset \in Presets :
                 /\ b.name = app.name
                 /\ w = [id |-> 0, name |-> <<app.name, preset>>, board |-> b.id, tiles |-> b.tiles,
                         threshold |-> Click!Threshold(app), hook |-> hook]
      BY <2>1
    <2>3. PICK other \in apps : \E c \in boards : \E preset \in Presets :
                 /\ c.name = other.name
                 /\ v = [id |-> 0, name |-> <<other.name, preset>>, board |-> c.id, tiles |-> c.tiles,
                         threshold |-> Click!Threshold(other), hook |-> hook]
      BY <1>1
    <2>4. PICK c \in boards : \E preset \in Presets :
                 /\ c.name = other.name
                 /\ v = [id |-> 0, name |-> <<other.name, preset>>, board |-> c.id, tiles |-> c.tiles,
                         threshold |-> Click!Threshold(other), hook |-> hook]
      BY <2>3
    <2>5. other.name = app.name
      BY <2>2, <2>4, <1>5
    <2>6. app = other /\ b = c
      BY <2>2, <2>4, <2>5 DEF OneEach
    <2> QED BY <2>2, <2>4, <2>6, <1>5
  <1> QED BY <1>4, <1>5 DEF OneEach

LEMMA AlertsPlanned ==
  ASSUME NEW apps \in SUBSET AppDocs, OneEach(apps), NEW boards \in SUBSET Boards, OneEach(boards), NEW hook \in Nat,
         NEW live \in SUBSET Alerts, NEW prune \in BOOLEAN,
         Click!PlanAlerts(apps, boards, live, hook, prune) # Click!Refused
  PROVE  Plans("alerts", WantedAlerts(apps, boards, hook), live, prune, Click!PlanAlerts(apps, boards, live, hook, prune))
PROOF
  <1> DEFINE W == WantedAlerts(apps, boards, hook)
             Of(w) == {a \in live : a.name = w.name}
             One(w) == CHOOSE a \in Of(w) : TRUE
             Do(w) ==
               IF Of(w) = {} THEN Click!Request("create", "alerts", 0, w)
               ELSE IF Click!SameAlert(One(w), w) THEN Click!Kept("alerts", One(w))
               ELSE Click!Request("update", "alerts", One(w).id, w)
             deleted == IF prune THEN {a \in live : \A w \in W : w.name # a.name} ELSE {}
             steps == {Do(w) : w \in W} \cup {Click!Request("delete", "alerts", a.id, a) : a \in deleted}
  <1>1. Click!PlanAlerts(apps, boards, live, hook, prune) = steps /\ OneEach(live)
    <2>1. ~Click!Twins(live)
      BY DEF Click!PlanAlerts
    <2>2. Click!PlanAlerts(apps, boards, live, hook, prune) = steps
      BY DEF Click!PlanAlerts, WantedAlerts
    <2> QED BY <2>1, <2>2 DEF Click!Twins, OneEach
  <1>2. W \subseteq Alerts /\ OneEach(W)
    BY AlertNames
  <1>3. ASSUME NEW w \in W
        PROVE  Stepped("alerts", live, w, Do(w))
    <2> HIDE DEF W
    <2>2. CASE Of(w) = {}
      BY <2>2 DEF Stepped
    <2>3. CASE Of(w) # {}
      <3>1. One(w) \in live /\ One(w).name = w.name
        BY <2>3
      <3> HIDE DEF One, Of
      <3>2. Like("alerts", One(w), w) <=> Click!SameAlert(One(w), w)
        BY DEF Like, Click!SameAlert
      <3> QED BY <2>3, <3>1, <3>2 DEF Stepped
    <2> QED BY <2>2, <2>3
  <1>4. "alerts" \in Click!Kinds /\ Docs("alerts") = Alerts
    BY DEF Click!Kinds, Docs
  <1>5. \A r \in steps : (\E w \in W : Stepped("alerts", live, w, r))
                       \/ \E x \in deleted : r = Click!Request("delete", "alerts", x.id, x)
    <2> HIDE DEF Do, deleted, W
    <2> QED BY <1>3
  <1>6. \A w \in W : \E r \in steps : Stepped("alerts", live, w, r)
    <2> HIDE DEF Do, deleted, W
    <2> QED BY <1>3
  <1>7. \A x \in deleted : x \in live /\ x.name \notin NamesOf(W) /\ prune
    BY DEF NamesOf
  <1>8. \A x \in live \ deleted : x.name \in NamesOf(W) \/ Spared("alerts", prune, x.name)
    BY DEF NamesOf, Spared
  <1>9. \A x \in deleted : Click!Request("delete", "alerts", x.id, x) \in steps
    OBVIOUS
  <1>10. Plans("alerts", W, live, prune, steps)
    <2>1. deleted \in SUBSET live
      BY <1>7
    <2> HIDE DEF steps, W, deleted
    <2> QED BY <1>1, <1>2, <1>4, <1>5, <1>6, <1>7, <1>8, <1>9, <2>1, Planned
  <1> QED BY <1>1, <1>10

-----------------------------------------------------------------------------
(* A pass.                                                                 *)

PassOK(now) ==
  /\ now \in PassTypes
  /\ now.pc = "idle" => now = Click!Idle
  /\ OneEach(now.apps)
  /\ now.prune \/ now.apps = {}
  /\ now.todo # {} => now.pc \in {"hook", "board", "record", "prune", "alert"}
  /\ \A r \in now.todo : (now.pc = "hook" <=> r.on = "hooks") /\ (now.pc = "alert" <=> r.on = "alerts")
  /\ \A q, r \in Writes(now.todo) : q.doc.name = r.doc.name => q = r
  /\ \A r \in now.todo : r.op = "delete" => r.on # "hooks" /\ now.prune

(* Only the phase differs. *)
SameBut(now, next) ==
  /\ next.apps = now.apps /\ next.prune = now.prune /\ next.todo = now.todo /\ next.ids = now.ids /\ next.hook = now.hook
  /\ next.beside = now.beside /\ next.disturbed = now.disturbed

LEMMA IdleOK == PassOK(Click!Idle) /\ Click!Idle.todo = {} /\ Click!Idle.ids = {} /\ Click!Idle.pc = "idle" /\ Click!Idle.beside = FALSE
PROOF
  <1>1. Click!Idle \in PassTypes
    BY DEF Click!Idle, PassTypes, PassStages
  <1>2. Click!Idle.todo = {} /\ Click!Idle.ids = {} /\ Click!Idle.pc = "idle" /\ Click!Idle.apps = {}
    BY DEF Click!Idle
  <1>3. Click!Idle.beside = FALSE
    BY DEF Click!Idle
  <1> QED BY <1>1, <1>2, <1>3 DEF PassOK, OneEach, Writes

LEMMA NewPhase ==
  ASSUME NEW now, now \in PassTypes, NEW pc \in PassStages
  PROVE  /\ [now EXCEPT !.pc = pc] \in PassTypes /\ [now EXCEPT !.pc = pc].pc = pc
         /\ SameBut(now, [now EXCEPT !.pc = pc])
PROOF
  <1> DEFINE next == [now EXCEPT !.pc = pc]
  <1>1. next \in PassTypes /\ next.pc = pc
    BY DEF PassTypes
  <1>2. next.apps = now.apps /\ next.todo = now.todo /\ next.ids = now.ids /\ next.hook = now.hook
    BY DEF PassTypes
  <1>3. next.prune = now.prune /\ next.beside = now.beside /\ next.disturbed = now.disturbed
    BY DEF PassTypes
  <1> QED BY <1>1, <1>2, <1>3 DEF SameBut

LEMMA Moved ==
  ASSUME NEW now, PassOK(now), now.pc # "idle", NEW pc \in PassStages \ {"idle"},
         now.todo = {} \/ (now.pc \in {"board", "record"} /\ pc \in {"record", "prune"})
  PROVE  PassOK([now EXCEPT !.pc = pc]) /\ SameBut(now, [now EXCEPT !.pc = pc])
PROOF
  <1> DEFINE next == [now EXCEPT !.pc = pc]
  <1>1. next \in PassTypes /\ next.pc = pc /\ SameBut(now, next)
    BY NewPhase DEF PassOK
  <1> HIDE DEF next
  <1>2. ASSUME now.todo = {}
        PROVE  PassOK(next)
    <2>1. next.todo = {} /\ next.apps = now.apps /\ (next.prune <=> now.prune)
      BY <1>1, <1>2 DEF SameBut
    <2>2. OneEach(next.apps) /\ (next.prune \/ next.apps = {})
      BY <2>1 DEF PassOK
    <2>3. next.pc # "idle"
      BY <1>1
    <2> QED BY <1>1, <2>1, <2>2, <2>3 DEF PassOK, Writes
  <1>3. ASSUME now.pc \in {"board", "record"}, pc \in {"record", "prune"}
        PROVE  PassOK(next)
    <2>1. next.todo = now.todo /\ next.apps = now.apps /\ (next.prune <=> now.prune)
      BY <1>1 DEF SameBut
    <2>2. OneEach(next.apps) /\ (next.prune \/ next.apps = {})
      BY <2>1 DEF PassOK
    <2>3. \A r \in next.todo : r.on # "hooks" /\ r.on # "alerts" /\ (r.op = "delete" => next.prune)
      BY <1>3, <2>1 DEF PassOK
    <2>4. \A q, r \in Writes(next.todo) : q.doc.name = r.doc.name => q = r
      BY <2>1 DEF PassOK
    <2> QED BY <1>1, <1>3, <2>1, <2>2, <2>3, <2>4 DEF PassOK
  <1>4. PassOK(next)
    BY <1>2, <1>3
  <1> QED BY <1>1, <1>4 DEF next

LEMMA Onwards ==
  ASSUME NEW now, PassOK(now), now.pc # "idle"
  PROVE  /\ PassOK(Click!Onward(now))
         /\ \/ Click!Onward(now) = now /\ (now.pc \in Sends => now.todo # {})
                                      /\ (now.pc = "board" => Writes(now.todo) # {})
            \/ now.pc = "alert" /\ now.todo = {} /\ Click!Onward(now) = Click!Idle
            \/ /\ \/ now.pc = "hook" /\ now.todo = {} /\ Click!Onward(now).pc = "dashboards"
                  \/ now.pc = "board" /\ Writes(now.todo) = {} /\ Click!Onward(now).pc = "record"
                  \/ now.pc = "prune" /\ now.todo = {} /\ Click!Onward(now).pc = "alerts"
               /\ SameBut(now, Click!Onward(now))
PROOF
  <1>0. now \in PassTypes
    BY DEF PassOK
  <1>1. CASE now.pc \notin Sends \/ Click!Sending(now) # {}
    <2>1. Click!Onward(now) = now
      BY <1>1 DEF Click!Onward, Sends
    <2> QED BY <1>1, <2>1 DEF Click!Sending, Writes, Sends
  <1>2. CASE now.pc \in Sends /\ Click!Sending(now) = {}
    <2>1. Click!Sending(now) = (IF now.pc = "board" THEN Writes(now.todo) ELSE now.todo)
      BY <1>2 DEF Click!Sending, Writes, Sends
    <2>2. CASE now.pc = "alert"
      BY <1>2, <2>1, <2>2, IdleOK DEF Click!Onward, Sends
    <2>3. CASE now.pc = "hook"
      <3>1. Click!Onward(now) = [now EXCEPT !.pc = "dashboards"]
        BY <1>2, <2>3 DEF Click!Onward, Click!NextPhase, Sends
      <3>2. "dashboards" \in PassStages \ {"idle"} /\ now.todo = {}
        BY <1>2, <2>1, <2>3 DEF PassStages
      <3>3. PassOK(Click!Onward(now)) /\ SameBut(now, Click!Onward(now)) /\ Click!Onward(now).pc = "dashboards"
        BY <3>1, <3>2, <1>0, Moved, NewPhase
      <3> QED BY <2>3, <3>2, <3>3
    <2>4. CASE now.pc = "board"
      <3>1. Click!Onward(now) = [now EXCEPT !.pc = "record"]
        BY <1>2, <2>4 DEF Click!Onward, Click!NextPhase, Sends
      <3>2. "record" \in PassStages \ {"idle"} /\ Writes(now.todo) = {}
        BY <1>2, <2>1, <2>4 DEF PassStages
      <3>3. PassOK(Click!Onward(now)) /\ SameBut(now, Click!Onward(now)) /\ Click!Onward(now).pc = "record"
        BY <2>4, <3>1, <3>2, <1>0, Moved, NewPhase
      <3> QED BY <2>4, <3>2, <3>3
    <2>5. CASE now.pc = "prune"
      <3>1. Click!Onward(now) = [now EXCEPT !.pc = "alerts"]
        BY <1>2, <2>5 DEF Click!Onward, Click!NextPhase, Sends
      <3>2. "alerts" \in PassStages \ {"idle"} /\ now.todo = {}
        BY <1>2, <2>1, <2>5 DEF PassStages
      <3>3. PassOK(Click!Onward(now)) /\ SameBut(now, Click!Onward(now)) /\ Click!Onward(now).pc = "alerts"
        BY <3>1, <3>2, <1>0, Moved, NewPhase
      <3> QED BY <2>5, <3>2, <3>3
    <2> QED BY <1>2, <2>2, <2>3, <2>4, <2>5 DEF Sends
  <1> QED BY <1>1, <1>2

(* A pass that has listed and planned.                                     *)
PlannedPass(now, phase, steps, hook) ==
  [now EXCEPT !.pc = phase, !.ids = @ \cup Click!Known(steps, "boards"), !.hook = hook,
              !.todo = {r \in steps : r.op # "keep"}]

ListedNow(now, next, phase, on, steps, hook) ==
  /\ next.pc = phase /\ next.todo = {r \in steps : r.op # "keep"} /\ next.hook = hook
  /\ next.ids = now.ids \cup (IF on = "boards" THEN Click!Known(steps, "boards") ELSE {})
  /\ next.apps = now.apps /\ next.prune = now.prune /\ next.beside = now.beside /\ next.disturbed = now.disturbed

PhaseOf(pc, phase, on) ==
  <<pc, phase, on>> \in {<<"webhooks", "hook", "hooks">>, <<"dashboards", "board", "boards">>, <<"alerts", "alert", "alerts">>}

LEMMA PlanMade ==
  ASSUME NEW now, PassOK(now), NEW on \in Click!Kinds, NEW phase, PhaseOf(now.pc, phase, on),
         NEW W, NEW ours, NEW steps, Plans(on, W, ours, now.prune, steps), NEW hook \in Nat
  PROVE  PassOK(PlannedPass(now, phase, steps, hook)) /\ ListedNow(now, PlannedPass(now, phase, steps, hook), phase, on, steps, hook)
PROOF
  <1> DEFINE next == PlannedPass(now, phase, steps, hook)
             todo == {r \in steps : r.op # "keep"}
             ids == now.ids \cup Click!Known(steps, "boards")
  <1>1. now \in PassTypes /\ phase \in PassStages \ {"idle"}
    BY DEF PassOK, PassStages, PhaseOf
  <1>2. \A r \in steps : r \in [op : Ops \cup {"keep"}, on : {on}, id : Nat, doc : Docs(on)]
    BY DEF Plans
  <1>3. todo \subseteq AsksOf(on) /\ AsksOf(on) \subseteq Asks
    <2>1. \A r \in todo : r.op \in Ops
      BY <1>2
    <2>2. \A r \in todo : r \in AsksOf(on)
      BY <1>2, <2>1 DEF AsksOf
    <2>3. AsksOf(on) \subseteq Asks
      BY DEF Asks, Click!Kinds
    <2> QED BY <2>2, <2>3
  <1>4. Click!Known(steps, "boards") \subseteq (Nat \cup {Other}) \X Nat /\ (on # "boards" => Click!Known(steps, "boards") = {})
    BY <1>2 DEF Click!Known, Docs, Boards
  <1>5. ids \subseteq (Nat \cup {Other}) \X Nat /\ todo \subseteq Asks
    BY <1>1, <1>3, <1>4 DEF PassTypes
  <1>6. next = [now EXCEPT !.pc = phase, !.ids = ids, !.hook = hook, !.todo = todo]
    BY DEF PlannedPass
  <1> HIDE DEF next, ids, todo
  <1>7. next \in PassTypes
    BY <1>1, <1>5, <1>6 DEF PassTypes
  <1>8. next.pc = phase /\ next.todo = todo /\ next.hook = hook /\ next.ids = ids /\ next.apps = now.apps
    BY <1>1, <1>6 DEF PassTypes
  <1>9. next.prune = now.prune /\ next.beside = now.beside /\ next.disturbed = now.disturbed
    BY <1>1, <1>6 DEF PassTypes
  <1>10. PassOK(next)
    <2>1. OneEach(next.apps) /\ (next.prune \/ next.apps = {})
      BY <1>8, <1>9 DEF PassOK
    <2>2. \A r \in todo : r.on = on
      BY <1>3 DEF AsksOf
    <2>3. \A q, r \in Writes(todo) : q.doc.name = r.doc.name => q = r
      BY DEF Plans, Writes, todo
    <2>4. \A r \in todo : r.op = "delete" => r.on # "hooks" /\ next.prune
      <3>1. \A r \in steps : r.op = "delete" => on # "hooks" /\ now.prune
        BY DEF Plans
      <3> QED BY <2>2, <3>1, <1>9 DEF todo
    <2>5. phase \in {"hook", "board", "alert"} /\ (phase = "hook" <=> on = "hooks") /\ (phase = "alert" <=> on = "alerts")
      BY DEF PhaseOf
    <2> QED BY <1>7, <1>8, <1>1, <2>1, <2>2, <2>3, <2>4, <2>5 DEF PassOK
  <1>11. ids = now.ids \cup (IF on = "boards" THEN Click!Known(steps, "boards") ELSE {})
    BY <1>4 DEF ids
  <1> QED BY <1>8, <1>9, <1>10, <1>11 DEF next, todo, ListedNow

(* A pass that had the answer to a request.                                *)
LearntNow(now, next, r, id) ==
  /\ next.pc = now.pc /\ next.todo = now.todo \ {r}
  /\ next.hook = (IF r.on = "hooks" /\ r.doc.name = Click!Hooks[2] THEN id ELSE now.hook)
  /\ next.ids = now.ids \cup (IF r.on = "boards" /\ r.op = "create" THEN {<<r.doc.name, id>>} ELSE {})
  /\ next.apps = now.apps /\ next.prune = now.prune /\ next.beside = now.beside
  /\ next.disturbed = (now.disturbed \/ id = 0)

LEMMA LearntOK ==
  ASSUME NEW now, PassOK(now), NEW r \in now.todo, NEW id \in Nat
  PROVE  PassOK(Click!Learnt(now, r, id)) /\ LearntNow(now, Click!Learnt(now, r, id), r, id)
PROOF
  <1> DEFINE next == Click!Learnt(now, r, id)
             hook == IF r.on = "hooks" /\ r.doc.name = Click!Hooks[2] THEN id ELSE now.hook
             ids == IF r.on = "boards" /\ r.op = "create" THEN now.ids \cup {<<r.doc.name, id>>} ELSE now.ids
             disturbed == now.disturbed \/ id = 0
             todo == now.todo \ {r}
  <1>1. now \in PassTypes /\ now.pc # "idle"
    BY IdleOK DEF PassOK
  <1>2. hook \in Nat /\ disturbed \in BOOLEAN /\ todo \subseteq Asks
    BY <1>1 DEF PassTypes
  <1>3. ids \subseteq (Nat \cup {Other}) \X Nat
    <2>1. r \in Asks
      BY <1>1 DEF PassTypes
    <2>2. r.on = "boards" => r.doc.name \in Nat \cup {Other}
      BY <2>1, KindOf DEF Docs, Boards
    <2> QED BY <1>1, <2>2 DEF PassTypes
  <1>4. next = [now EXCEPT !.todo = todo, !.disturbed = disturbed, !.hook = hook, !.ids = ids]
    BY DEF Click!Learnt
  <1>5. ids = now.ids \cup (IF r.on = "boards" /\ r.op = "create" THEN {<<r.doc.name, id>>} ELSE {})
    OBVIOUS
  <1>a. todo \subseteq now.todo
    OBVIOUS
  <1> HIDE DEF next, ids, todo, disturbed, hook
  <1>6. next \in PassTypes
    BY <1>1, <1>2, <1>3, <1>4 DEF PassTypes
  <1>7. next.pc = now.pc /\ next.todo = todo /\ next.hook = hook /\ next.ids = ids /\ next.apps = now.apps
    BY <1>1, <1>4 DEF PassTypes
  <1>8. next.prune = now.prune /\ next.beside = now.beside /\ next.disturbed = disturbed
    BY <1>1, <1>4 DEF PassTypes
  <1>9. PassOK(next)
    <2>1. OneEach(next.apps) /\ (next.prune \/ next.apps = {})
      BY <1>7, <1>8 DEF PassOK
    <2>2. \A q \in todo : (now.pc = "hook" <=> q.on = "hooks") /\ (now.pc = "alert" <=> q.on = "alerts")
      BY <1>a DEF PassOK
    <2>3. \A q, s \in Writes(todo) : q.doc.name = s.doc.name => q = s
      BY <1>a DEF PassOK, Writes
    <2>4. \A q \in todo : q.op = "delete" => q.on # "hooks" /\ next.prune
      BY <1>a, <1>8 DEF PassOK
    <2>5. todo # {} => next.pc \in {"hook", "board", "record", "prune", "alert"}
      BY <1>a, <1>7 DEF PassOK
    <2> QED BY <1>6, <1>7, <1>1, <2>1, <2>2, <2>3, <2>4, <2>5 DEF PassOK
  <1> QED BY <1>5, <1>7, <1>8, <1>9 DEF next, todo, hook, disturbed, LearntNow

LEMMA RecordedOK ==
  ASSUME NEW now, PassOK(now), now.pc = "record"
  PROVE  /\ PassOK([now EXCEPT !.pc = Click!NextPhase("record")])
         /\ [now EXCEPT !.pc = Click!NextPhase("record")].pc = "prune"
         /\ SameBut(now, [now EXCEPT !.pc = Click!NextPhase("record")])
PROOF
  <1>1. [now EXCEPT !.pc = Click!NextPhase("record")] = [now EXCEPT !.pc = "prune"]
    BY DEF Click!NextPhase
  <1>2. "prune" \in PassStages \ {"idle"} /\ "prune" \in PassStages /\ now \in PassTypes
    BY DEF PassStages, PassOK
  <1> QED BY <1>1, <1>2, Moved, NewPhase

LEMMA FirstOf ==
  ASSUME NEW found, found # {}
  PROVE  Click!First(found) \in found
PROOF
  <1>1. \E i \in found : i.env = "staging" \/ \A j \in found : j.env # "staging"
    OBVIOUS
  <1> QED BY <1>1 DEF Click!First

(* The apps of what Git or the cluster holds.                              *)
LEMMA AppsFound ==
  ASSUME NEW found \in SUBSET Released
  PROVE  /\ Click!Grouped(found) \subseteq AppDocs /\ OneEach(Click!Grouped(found))
         /\ found # {} => Click!Grouped(found) # {}
PROOF
  <1> DEFINE Of(a) == {i \in found : i.app = a}
             Said(a) == {i \in Of(a) : i.alerts # ""}
             App(a) == [name |-> a, kind |-> Click!First(Of(a)).kind, envs |-> {i.env : i \in Of(a)},
                        alerts |-> IF Said(a) = {} THEN "" ELSE Click!First(Said(a)).alerts]
  <1>1. Click!Grouped(found) = {App(i.app) : i \in found}
    BY DEF Click!Grouped
  <1>2. ASSUME NEW i \in found
        PROVE  App(i.app) \in AppDocs
    <2>1. Of(i.app) # {} /\ Of(i.app) \subseteq Released /\ Said(i.app) \subseteq Released
      OBVIOUS
    <2>2. Click!First(Of(i.app)) \in Released
      <3> HIDE DEF Of
      <3> QED BY <2>1, FirstOf
    <2>3. (IF Said(i.app) = {} THEN "" ELSE Click!First(Said(i.app)).alerts) \in {"", "none"}
      <3> HIDE DEF Said
      <3>1. Said(i.app) # {} => Click!First(Said(i.app)) \in Released
        BY <2>1, FirstOf
      <3> QED BY <3>1 DEF Released
    <2>4. {j.env : j \in Of(i.app)} \subseteq EnvSet
      BY <2>1 DEF Released, EnvSet
    <2>5. i.app \in Nat
      BY DEF Released
    <2>6. Click!First(Of(i.app)).kind \in {"web", "worker"}
      BY <2>2 DEF Released
    <2> HIDE DEF Of, Said
    <2> QED BY <2>3, <2>4, <2>5, <2>6 DEF AppDocs
  <1>3. \A a : App(a).name = a
    OBVIOUS
  <1> HIDE DEF App
  <1> QED BY <1>1, <1>2, <1>3 DEF OneEach

LEMMA RecordedApps ==
  ASSUME NEW found \in SUBSET Released
  PROVE  /\ Click!OfRecords(found) \subseteq AppDocs /\ OneEach(Click!OfRecords(found))
         /\ found # {} => Click!OfRecords(found) # {}
PROOF
  <1> DEFINE silent == {[i EXCEPT !.alerts = ""] : i \in found}
  <1>1. silent \in SUBSET Released
    BY DEF Released
  <1>2. found # {} => silent # {}
    OBVIOUS
  <1> HIDE DEF silent
  <1> QED BY <1>1, <1>2, AppsFound DEF Click!OfRecords, silent

(* A pass at its start.                                                    *)
StartedPass(apps, prune) == [Click!Idle EXCEPT !.pc = "webhooks", !.apps = apps, !.prune = prune]

FreshPass(next) ==
  next.pc = "webhooks" /\ next.todo = {} /\ next.ids = {} /\ next.beside = FALSE /\ next.disturbed = FALSE

LEMMA StartedOK ==
  ASSUME NEW apps \in SUBSET AppDocs, OneEach(apps), NEW prune \in BOOLEAN, prune \/ apps = {}
  PROVE  PassOK(StartedPass(apps, prune)) /\ FreshPass(StartedPass(apps, prune))
PROOF
  <1> DEFINE next == StartedPass(apps, prune)
  <1>1. next = [Click!Idle EXCEPT !.pc = "webhooks", !.apps = apps, !.prune = prune]
    BY DEF StartedPass
  <1>a. Click!Idle \in PassTypes /\ Click!Idle.todo = {} /\ Click!Idle.ids = {}
    BY IdleOK DEF PassOK
  <1>b. Click!Idle.beside = FALSE /\ Click!Idle.disturbed = FALSE
    BY DEF Click!Idle
  <1> HIDE DEF next
  <1>2. next \in PassTypes
    BY <1>1, <1>a DEF PassTypes, PassStages
  <1>3. next.pc = "webhooks" /\ next.todo = {} /\ next.ids = {} /\ next.apps = apps
    BY <1>1, <1>a DEF PassTypes
  <1>4. next.prune = prune
    BY <1>1, <1>a DEF PassTypes
  <1>6. next.beside = FALSE /\ next.disturbed = FALSE
    BY <1>1, <1>a, <1>b DEF PassTypes
  <1>5. PassOK(next)
    BY <1>2, <1>3, <1>4 DEF PassOK, Writes
  <1> QED BY <1>3, <1>5, <1>6 DEF next, FreshPass

-----------------------------------------------------------------------------
(* The steps, by what they do.                                             *)

DashTypes ==
  /\ git \subseteq Released /\ cluster \subseteq Released
  /\ git \in Worlds \cup {Initial}
  /\ ClickTypes
  /\ pass \in [Click!Passes -> PassTypes]
  /\ \A p \in Click!Passes : PassOK(pass[p])
  /\ excuses \in Nat
  /\ \A r \in late : r \in Asks \/ r.op = "record"

(* Everything but the pass, ClickStack and what is said of it. *)
StartsPass(p) ==
  /\ pass[p].pc = "idle"
  /\ \E apps \in SUBSET AppDocs : \E prune \in BOOLEAN :
       /\ OneEach(apps) /\ (prune \/ apps = {})
       /\ pass' = Click!Beside(p, [pass EXCEPT ![p] = StartedPass(apps, prune)])
  /\ excuses' = IF Click!Overlaps(p) /\ ~\E q \in Click!Passes : pass[q].beside THEN excuses + 1 ELSE excuses
  /\ UNCHANGED <<click, made, record, late, gone>>

GivesUp(p) ==
  /\ pass[p].pc # "idle"
  /\ pass' = [pass EXCEPT ![p] = Click!Idle]
  /\ \A r \in late' : r \in late \/ r \in pass[p].todo \/ r.op = "record"
  /\ record' = record \/ record' = Click!Recordable(pass[p].ids)
  /\ UNCHANGED <<click, made, gone, excuses>>

(* A request is applied.  id is what the pass learns, if it goes on. *)
Requests(p, r) ==
  /\ Click!Possible(r) /\ Click!Applied(r) /\ Click!Deleted(p, r)
  /\ pass[p].pc \in Sends /\ (r.op = "delete" => pass[p].pc # "board")
  /\ \/ pass' = [pass EXCEPT ![p] = Click!Idle]
     \/ \E id \in {0, Click!Numbered(r).id} :
          pass' = [pass EXCEPT ![p] = Click!Onward(Click!Learnt(pass[p], r, id))]
  /\ UNCHANGED <<record, late, excuses>>

StageBefore(on) == IF on = "hooks" THEN "webhooks" ELSE IF on = "boards" THEN "dashboards" ELSE "alerts"
StageOf(on) == IF on = "hooks" THEN "hook" ELSE IF on = "boards" THEN "board" ELSE "alert"

HookNamed(hook, hooks) == \A x \in hooks : x.name = "swhurl notify" => hook = x.id
Hooked(p, on, hook) == IF on = "hooks" THEN HookNamed(hook, Click!Ours("hooks")) ELSE hook = pass[p].hook

Lists(p, on, W) ==
  /\ pass[p].pc = StageBefore(on)
  /\ \E steps : \E hook \in Nat :
       /\ Plans(on, W, Click!Ours(on), pass[p].prune, steps)
       /\ Hooked(p, on, hook)
       /\ pass' = [pass EXCEPT ![p] = Click!Onward(PlannedPass(pass[p], StageOf(on), steps, hook))]
  /\ UNCHANGED <<click, made, record, late, gone, excuses>>

RecordsIds(p) ==
  /\ pass[p].pc = "record"
  /\ record' = IF Click!Writing(p) THEN Click!Recordable(pass[p].ids) ELSE record
  /\ pass' = [pass EXCEPT ![p] = Click!Onward([pass[p] EXCEPT !.pc = Click!NextPhase("record")])]
  /\ UNCHANGED <<click, made, late, gone, excuses>>

LateRecord(r) ==
  /\ r.op = "record"
  /\ late' = late \ {r}
  /\ record' = r.doc.pairs /\ gone' = gone \cup {x[2] : x \in r.doc.pairs}
  /\ Click!Disturbed
  /\ UNCHANGED <<click, made, excuses>>

LateRequest(r) ==
  /\ r \in Asks
  /\ late' = late \ {r}
  /\ IF Click!Possible(r) THEN Click!Applied(r) ELSE UNCHANGED <<click, made>>
  /\ excuses' = IF Click!Shows(r) THEN excuses + 1 ELSE excuses
  /\ gone' = IF r.op = "delete" /\ r.on = "boards" THEN gone \cup {r.id} ELSE gone
  /\ Click!Disturbed
  /\ UNCHANGED record

(* What a person may make of an object.                                    *)
Edits(on, x, y) ==
  /\ Replaces(on, y) /\ y.id = x.id
  /\ on = "boards" /\ y.tagged => x.tagged
  /\ excuses' = IF y.name # x.name THEN excuses + 1 ELSE excuses

PersonActs(on, x) ==
  /\ gone' = IF on = "boards" THEN gone \cup {x.id} ELSE gone
  /\ \/ \E y \in Docs(on) : Edits(on, x, y)
     \/ Removes(on, x.id) /\ excuses' = excuses
     \/ \E y \in Docs(on) : Adds(on, y) /\ y.name = x.name /\ excuses' = excuses + 1
  /\ Click!Disturbed
  /\ UNCHANGED <<record, late>>

Stands == UNCHANGED <<click, made, record, pass, late, gone, excuses>>
Outside == Click!Disturbed /\ UNCHANGED <<click, made, record, late, gone, excuses>>

LEMMA PassKinds == Click!Passes = {"scheduled", "byHand"}
PROOF
  BY DEF Click!Passes

LEMMA BeginShape ==
  ASSUME DashTypes, NEW p \in Click!Passes, Click!Begin(p)
  PROVE  StartsPass(p)
PROOF
  <1> DEFINE apps == IF p = "byHand" THEN Click!OfRecords(git) ELSE Click!Grouped(cluster)
             prune == p = "byHand" \/ apps # {}
  <1>1. git \in SUBSET Released /\ cluster \in SUBSET Released
    BY DEF DashTypes
  <1>2. apps \in SUBSET AppDocs /\ OneEach(apps)
    BY <1>1, AppsFound, RecordedApps
  <1>3. prune \in BOOLEAN /\ (prune \/ apps = {})
    OBVIOUS
  <1>4. pass' = Click!Beside(p, [pass EXCEPT ![p] = StartedPass(apps, prune)])
    BY DEF Click!Begin, StartedPass
  <1> HIDE DEF apps, prune
  <1>5. /\ pass[p].pc = "idle"
        /\ excuses' = IF Click!Overlaps(p) /\ ~\E q \in Click!Passes : pass[q].beside THEN excuses + 1 ELSE excuses
        /\ UNCHANGED <<click, made, record, late, gone>>
    BY DEF Click!Begin
  <1> QED BY <1>2, <1>3, <1>4, <1>5 DEF StartsPass

LEMMA FailsShape ==
  ASSUME NEW p \in Click!Passes, Click!Fails(p)
  PROVE  GivesUp(p)
PROOF
  BY DEF Click!Fails, Click!Stopped, GivesUp

LEMMA SendShape ==
  ASSUME DashTypes, NEW p \in Click!Passes, Click!Send(p)
  PROVE  GivesUp(p) \/ \E r \in pass[p].todo : Requests(p, r)
PROOF
  <1>1. PICK r \in Click!Due(pass[p]) :
          /\ IF Click!Possible(r) THEN Click!Applied(r) /\ Click!Deleted(p, r) /\ Click!Learn(p, r, Click!Numbered(r).id)
             ELSE Click!Stopped(p) /\ UNCHANGED <<click, made, gone>>
          /\ UNCHANGED <<git, cluster, record, late, excuses, events>>
    BY DEF Click!Send
  <1>2. r \in pass[p].todo /\ (pass[p].pc = "board" => r.op # "delete") /\ pass[p].pc # "idle" /\ pass[p].pc \in Sends
    BY DEF Click!Due, Click!Sending, Sends
  <1>3. CASE Click!Possible(r)
    <2>1. Click!Learn(p, r, Click!Numbered(r).id) =>
            pass' = [pass EXCEPT ![p] = Click!Onward(Click!Learnt(pass[p], r, Click!Numbered(r).id))]
      BY DEF Click!Learn, Click!Learnt
    <2> QED BY <1>1, <1>2, <1>3, <2>1 DEF Requests
  <1>4. CASE ~Click!Possible(r)
    BY <1>1, <1>2, <1>4 DEF GivesUp, Click!Stopped
  <1> QED BY <1>3, <1>4

LEMMA NoIdShape ==
  ASSUME DashTypes, NEW p \in Click!Passes, Click!AnswerHasNoId(p)
  PROVE  \E r \in pass[p].todo : Requests(p, r)
PROOF
  <1>1. PICK r \in Click!Due(pass[p]) :
          /\ pass[p].pc = "board" /\ r.op = "create"
          /\ Click!Applied(r) /\ Click!Learn(p, r, 0)
          /\ UNCHANGED <<git, cluster, record, late, gone, excuses>>
    BY DEF Click!AnswerHasNoId
  <1>2. r \in pass[p].todo /\ (pass[p].pc = "board" => r.op # "delete") /\ pass[p].pc \in Sends
    BY DEF Click!Due, Click!Sending, Sends
  <1>3. Click!Possible(r) /\ Click!Deleted(p, r)
    BY <1>1 DEF Click!Possible, Click!Deleted
  <1>4. Click!Learn(p, r, 0) => pass' = [pass EXCEPT ![p] = Click!Onward(Click!Learnt(pass[p], r, 0))]
    BY DEF Click!Learn, Click!Learnt
  <1> QED BY <1>1, <1>2, <1>3, <1>4 DEF Requests

LEMMA LostShape ==
  ASSUME DashTypes, NEW p \in Click!Passes, Click!Lost(p)
  PROVE  GivesUp(p) \/ \E r \in pass[p].todo : Requests(p, r)
PROOF
  <1>1. PICK r \in Click!Due(pass[p]) :
          /\ Click!Stopped(p)
          /\ \/ Click!Possible(r) /\ Click!Applied(r) /\ Click!Deleted(p, r) /\ UNCHANGED late
             \/ late' = late \cup {r} /\ UNCHANGED <<click, made, gone>>
          /\ UNCHANGED <<git, cluster, record, excuses>>
    BY DEF Click!Lost
  <1>2. r \in pass[p].todo /\ (pass[p].pc = "board" => r.op # "delete") /\ pass[p].pc # "idle" /\ pass[p].pc \in Sends
    BY DEF Click!Due, Click!Sending, Sends
  <1>3. CASE Click!Possible(r) /\ Click!Applied(r) /\ Click!Deleted(p, r) /\ UNCHANGED late
    BY <1>1, <1>2, <1>3 DEF Requests, Click!Stopped
  <1>4. CASE late' = late \cup {r} /\ UNCHANGED <<click, made, gone>>
    BY <1>1, <1>2, <1>4 DEF GivesUp, Click!Stopped
  <1> QED BY <1>1, <1>3, <1>4

LEMMA RecordShape ==
  ASSUME NEW p \in Click!Passes, Click!Record(p)
  PROVE  RecordsIds(p)
PROOF
  BY DEF Click!Record, RecordsIds

LEMMA RecordLostShape ==
  ASSUME NEW p \in Click!Passes, Click!RecordLost(p)
  PROVE  GivesUp(p)
PROOF
  <1>1. /\ pass[p].pc = "record" /\ pass' = [pass EXCEPT ![p] = Click!Idle]
        /\ UNCHANGED <<click, made, gone, excuses>>
    BY DEF Click!RecordLost, Click!Writing, Click!Stopped
  <1>2. \/ record' = Click!Recordable(pass[p].ids) /\ UNCHANGED late
        \/ \E pairs : late' = late \cup {Click!Request("record", "", 0, pairs)} /\ UNCHANGED record
    BY DEF Click!RecordLost
  <1>3. \A pairs : Click!Request("record", "", 0, pairs).op = "record"
    BY DEF Click!Request
  <1> QED BY <1>1, <1>2, <1>3 DEF GivesUp

LEMMA OursOf ==
  ASSUME ClickTypes, NEW on \in Click!Kinds
  PROVE  /\ Click!Ours(on) \subseteq click[on] /\ Click!Ours(on) \subseteq Docs(on)
         /\ on # "boards" => Click!Ours(on) = click[on]
         /\ on = "boards" => Click!Ours(on) = Click!Tagged(click[on])
PROOF
  BY DEF ClickTypes, Click!Ours, Click!Tagged

LEMMA StepKind ==
  ASSUME NEW on, NEW W, NEW ours, NEW prune, NEW steps, Plans(on, W, ours, prune, steps)
  PROVE  \A r \in steps : r.on = on /\ r.id \in Nat
PROOF
  BY DEF Plans

LEMMA StepOp ==
  ASSUME NEW on, NEW W, NEW ours, NEW prune, NEW steps, Plans(on, W, ours, prune, steps)
  PROVE  \A r \in steps : r.op \in {"create", "update", "delete", "keep"}
PROOF
  BY DEF Plans, Ops

LEMMA StepCreates ==
  ASSUME NEW on, NEW W, NEW ours, NEW prune, NEW steps, Plans(on, W, ours, prune, steps)
  PROVE  \A r \in steps : r.op = "create" => r.doc \in W /\ \A x \in ours : x.name # r.doc.name
PROOF
  BY DEF Plans

LEMMA StepUpdates ==
  ASSUME NEW on, NEW W, NEW ours, NEW prune, NEW steps, Plans(on, W, ours, prune, steps)
  PROVE  \A r \in steps : r.op = "update" => r.doc \in W /\ \E x \in ours : x.id = r.id /\ x.name = r.doc.name
PROOF
  BY DEF Plans

LEMMA StepKeeps ==
  ASSUME NEW on, NEW W, NEW ours, NEW prune, NEW steps, Plans(on, W, ours, prune, steps)
  PROVE  \A r \in steps : r.op = "keep" => r.doc \in ours /\ r.id = r.doc.id
PROOF
  BY DEF Plans

LEMMA StepDeletes ==
  ASSUME NEW on, NEW W, NEW ours, NEW prune, NEW steps, Plans(on, W, ours, prune, steps)
  PROVE  \A r \in steps : r.op = "delete" => r.doc \in ours /\ r.id = r.doc.id /\ r.doc.name \notin NamesOf(W)
PROOF
  BY DEF Plans

(* The webhook the alerts are to name, as a listing knows it.              *)
HookIds(steps) == {x[2] : x \in {y \in Click!Known(steps, "hooks") : y[1] = Click!Hooks[2]}}
HookOf(hook, steps) == IF HookIds(steps) = {} THEN hook ELSE CHOOSE id \in HookIds(steps) : TRUE
Naming(r) == r.on = "hooks" /\ r.op \in {"keep", "update"} /\ r.doc.name = "swhurl notify"

LEMMA HooksIds ==
  ASSUME NEW steps, NEW id
  PROVE  id \in HookIds(steps) <=> \E r \in steps : Naming(r) /\ r.id = id
PROOF
  <1>2. Click!Hooks[2] = "swhurl notify"
    BY DEF Click!Hooks
  <1>3. ASSUME id \in HookIds(steps)
        PROVE  \E r \in steps : Naming(r) /\ r.id = id
    <2>1. PICK y \in Click!Known(steps, "hooks") : y[1] = "swhurl notify" /\ y[2] = id
      BY <1>2, <1>3 DEF HookIds
    <2>2. PICK r \in steps : r.on = "hooks" /\ r.op \in {"keep", "update"} /\ y = <<r.doc.name, r.id>>
      BY DEF Click!Known
    <2>3. y[1] = r.doc.name /\ y[2] = r.id
      BY <2>2
    <2> QED BY <2>1, <2>2, <2>3 DEF Naming
  <1>4. ASSUME NEW r \in steps, r.on = "hooks", r.op \in {"keep", "update"}, r.doc.name = "swhurl notify", r.id = id
        PROVE  id \in HookIds(steps)
    <2>1. <<r.doc.name, r.id>> \in Click!Known(steps, "hooks")
      BY <1>4 DEF Click!Known
    <2>2. <<r.doc.name, r.id>>[1] = Click!Hooks[2] /\ <<r.doc.name, r.id>>[2] = r.id
      BY <1>4, <1>2
    <2> QED BY <2>1, <2>2, <1>4 DEF HookIds
  <1> QED BY <1>3, <1>4 DEF Naming

LEMMA OtherHook ==
  ASSUME NEW hook, NEW steps, \A r \in steps : r.on # "hooks"
  PROVE  HookOf(hook, steps) = hook
PROOF
  <1>1. ASSUME NEW id \in HookIds(steps)
        PROVE  FALSE
    BY HooksIds, ZenonT(60) DEF Naming
  <1> QED BY <1>1 DEF HookOf

LEMMA KnownHook ==
  ASSUME NEW hook \in Nat, NEW W, NEW ours, NEW prune, NEW steps,
         Plans("hooks", W, ours, prune, steps), "swhurl notify" \in NamesOf(W)
  PROVE  HookOf(hook, steps) \in Nat /\ HookNamed(HookOf(hook, steps), ours)
PROOF
  <1> DEFINE hooks == HookIds(steps)
  <1>1. \A r \in steps : r.on = "hooks" /\ r.id \in Nat
    BY StepKind
  <1>a. \A r \in steps : r.op \in {"create", "update", "delete", "keep"}
    BY StepOp
  <1>2. \A id : id \in hooks <=> \E r \in steps : Naming(r) /\ r.id = id
    BY HooksIds
  <1>3. HookOf(hook, steps) = IF hooks = {} THEN hook ELSE CHOOSE id \in hooks : TRUE
    BY DEF HookOf
  <1> HIDE DEF hooks
  <1>4. OneEach(ours) /\ \A v \in W : \E q \in steps : q.op # "delete" /\ q.doc.name = v.name
    BY DEF Plans
  <1>5. \A id \in hooks : id \in Nat
    BY <1>1, <1>2
  <1>6. \A r \in steps : r.op = "create" => \A x \in ours : x.name # r.doc.name
    BY StepCreates
  <1>7. \A r \in steps : r.op = "update" => \E x \in ours : x.id = r.id /\ x.name = r.doc.name
    BY DEF Plans
  <1>9. \A r \in steps : r.op = "keep" => r.doc \in ours /\ r.id = r.doc.id
    BY DEF Plans
  <1>8. ASSUME NEW x \in ours, x.name = "swhurl notify"
        PROVE  HookOf(hook, steps) = x.id
    <2>1. PICK r \in steps : r.op # "delete" /\ r.doc.name = "swhurl notify"
      BY <1>4 DEF NamesOf
    <2>2. r.op \in {"keep", "update"}
      BY <2>1, <1>a, <1>6, <1>8
    <2>3. r.id \in hooks
      BY <2>1, <2>2, <1>1, <1>2 DEF Naming
    <2>4. ASSUME NEW id \in hooks
          PROVE  id = x.id
      <3>1. PICK q \in steps : q.op \in {"keep", "update"} /\ q.doc.name = "swhurl notify" /\ q.id = id
        BY <1>2 DEF Naming
      <3>2. PICK y \in ours : y.id = q.id /\ y.name = q.doc.name
        BY <3>1, <1>7, <1>9
      <3> QED BY <3>1, <3>2, <1>4, <1>8 DEF OneEach
    <2> QED BY <1>3, <2>3, <2>4
  <1> QED BY <1>3, <1>5, <1>8 DEF HookNamed

LEMMA Listing ==
  ASSUME NEW p \in Click!Passes, NEW on, NEW W, NEW steps,
         Click!Plan(p, StageBefore(on), StageOf(on), steps),
         steps # Click!Refused => /\ Plans(on, W, Click!Ours(on), pass[p].prune, steps)
                                  /\ HookOf(pass[p].hook, steps) \in Nat /\ Hooked(p, on, HookOf(pass[p].hook, steps))
  PROVE  (steps = Click!Refused /\ GivesUp(p)) \/ Lists(p, on, W)
PROOF
  <1> DEFINE hook == HookOf(pass[p].hook, steps)
  <1>1. CASE steps = Click!Refused
    <2>1. pass[p].pc # "idle" /\ pass' = [pass EXCEPT ![p] = Click!Idle] /\ UNCHANGED <<click, made, record, late, gone, excuses>>
      BY <1>1 DEF Click!Plan, Click!Stopped, StageBefore
    <2> QED BY <1>1, <2>1 DEF GivesUp
  <1>2. CASE steps # Click!Refused
    <2>1. Plans(on, W, Click!Ours(on), pass[p].prune, steps) /\ hook \in Nat /\ Hooked(p, on, hook)
      BY <1>2
    <2>3. Click!Planned(pass[p], StageOf(on), steps) = PlannedPass(pass[p], StageOf(on), steps, hook)
      BY DEF Click!Planned, PlannedPass, HookOf, HookIds
    <2>4. /\ pass[p].pc = StageBefore(on)
          /\ pass' = [pass EXCEPT ![p] = Click!Onward(Click!Planned(@, StageOf(on), steps))]
          /\ UNCHANGED <<click, made, record, late, gone, excuses>>
      BY <1>2 DEF Click!Plan
    <2>5. pass' = [pass EXCEPT ![p] = Click!Onward(PlannedPass(pass[p], StageOf(on), steps, hook))]
      BY <2>3, <2>4
    <2> HIDE DEF hook
    <2> QED BY <2>1, <2>4, <2>5 DEF Lists
  <1> QED BY <1>1, <1>2

LEMMA ListHooksShape ==
  ASSUME DashTypes, NEW p \in Click!Passes, Click!ListWebhooks(p)
  PROVE  (Click!PlanWebhooks(click["hooks"]) = Click!Refused /\ GivesUp(p)) \/ Lists(p, "hooks", WantedHooks)
PROOF
  <1>1. "hooks" \in Click!Kinds /\ ClickTypes /\ pass[p].prune \in BOOLEAN /\ pass[p].hook \in Nat
    BY DEF Click!Kinds, DashTypes, PassTypes
  <1>2. Click!Ours("hooks") = click["hooks"] /\ click["hooks"] \in SUBSET HookDocs
    BY <1>1, OursOf DEF ClickTypes, Docs
  <1>3. Click!PlanWebhooks(click["hooks"]) # Click!Refused =>
          Plans("hooks", WantedHooks, Click!Ours("hooks"), pass[p].prune, Click!PlanWebhooks(click["hooks"]))
    BY <1>1, <1>2, HooksPlanned
  <1>4. Click!Plan(p, StageBefore("hooks"), StageOf("hooks"), Click!PlanWebhooks(click["hooks"]))
    BY DEF Click!ListWebhooks, StageBefore, StageOf
  <1>5. "swhurl notify" \in NamesOf(WantedHooks)
    BY HookNames
  <1> DEFINE steps == Click!PlanWebhooks(click["hooks"])
  <1> HIDE DEF steps
  <1>6. steps # Click!Refused => Plans("hooks", WantedHooks, Click!Ours("hooks"), pass[p].prune, steps)
    BY <1>3 DEF steps
  <1>7. steps # Click!Refused =>
          HookOf(pass[p].hook, steps) \in Nat /\ HookNamed(HookOf(pass[p].hook, steps), Click!Ours("hooks"))
    BY <1>1, <1>5, <1>6, KnownHook
  <1>8. steps # Click!Refused => Hooked(p, "hooks", HookOf(pass[p].hook, steps))
    BY <1>7 DEF Hooked
  <1>9. Click!Plan(p, StageBefore("hooks"), StageOf("hooks"), steps)
    BY <1>4 DEF steps
  <1>10. (steps = Click!Refused /\ GivesUp(p)) \/ Lists(p, "hooks", WantedHooks)
    BY <1>6, <1>7, <1>8, <1>9, Listing
  <1> QED BY <1>10 DEF steps

LEMMA ListBoardsShape ==
  ASSUME DashTypes, NEW p \in Click!Passes, Click!ListDashboards(p)
  PROVE  \/ Click!PlanDashboards(pass[p].apps, click["boards"], pass[p].prune) = Click!Refused /\ GivesUp(p)
         \/ Lists(p, "boards", WantedBoards(pass[p].apps))
PROOF
  <1>1. "boards" \in Click!Kinds /\ ClickTypes /\ pass[p].prune \in BOOLEAN /\ pass[p].apps \in SUBSET AppDocs /\ pass[p].hook \in Nat
    BY DEF Click!Kinds, DashTypes, PassTypes
  <1>2. Click!Ours("boards") = Click!Tagged(click["boards"]) /\ click["boards"] \in SUBSET Boards
    BY <1>1, OursOf DEF ClickTypes, Docs
  <1>a. OneEach(pass[p].apps) /\ (pass[p].prune \/ pass[p].apps = {})
    BY DEF DashTypes, PassOK
  <1> DEFINE steps == Click!PlanDashboards(pass[p].apps, click["boards"], pass[p].prune)
  <1>3. steps # Click!Refused => Plans("boards", WantedBoards(pass[p].apps), Click!Ours("boards"), pass[p].prune, steps)
    BY <1>1, <1>a, <1>2, BoardsPlanned
  <1>4. Click!Plan(p, StageBefore("boards"), StageOf("boards"), steps)
    BY DEF Click!ListDashboards, StageBefore, StageOf
  <1> HIDE DEF steps
  <1>5. steps # Click!Refused => \A r \in steps : r.on = "boards"
    BY <1>3, StepKind
  <1>6. steps # Click!Refused => HookOf(pass[p].hook, steps) = pass[p].hook
    BY <1>5, OtherHook
  <1>7. steps # Click!Refused => HookOf(pass[p].hook, steps) \in Nat /\ Hooked(p, "boards", HookOf(pass[p].hook, steps))
    BY <1>1, <1>6 DEF Hooked
  <1>8. (steps = Click!Refused /\ GivesUp(p)) \/ Lists(p, "boards", WantedBoards(pass[p].apps))
    BY <1>3, <1>4, <1>7, Listing
  <1> QED BY <1>8 DEF steps

LEMMA ListAlertsShape ==
  ASSUME DashTypes, NEW p \in Click!Passes, Click!ListAlerts(p)
  PROVE  \E boards \in SUBSET Click!Ours("boards") :
           /\ ~Click!Twins(boards) /\ {b.name : b \in boards} = {b.name : b \in Click!Ours("boards")}
           /\ \/ /\ Click!PlanAlerts(pass[p].apps, boards, click["alerts"], pass[p].hook, pass[p].prune) = Click!Refused
                 /\ GivesUp(p)
              \/ Lists(p, "alerts", WantedAlerts(pass[p].apps, boards, pass[p].hook))
PROOF
  <1>1. "alerts" \in Click!Kinds /\ "boards" \in Click!Kinds /\ ClickTypes
    BY DEF Click!Kinds, DashTypes
  <1>b. pass[p].prune \in BOOLEAN /\ pass[p].apps \in SUBSET AppDocs /\ pass[p].hook \in Nat
    BY DEF DashTypes, PassTypes
  <1>2. Click!Ours("alerts") = click["alerts"] /\ click["alerts"] \in SUBSET Alerts /\ Click!Ours("boards") \subseteq Boards
    BY <1>1, OursOf DEF ClickTypes, Docs
  <1>a. OneEach(pass[p].apps)
    BY DEF DashTypes, PassOK
  <1>3. PICK boards \in SUBSET Click!Ours("boards") :
          /\ ~Click!Twins(boards) /\ {b.name : b \in boards} = {b.name : b \in Click!Ours("boards")}
          /\ Click!Plan(p, "alerts", "alert", Click!PlanAlerts(pass[p].apps, boards, click["alerts"], pass[p].hook, pass[p].prune))
    BY DEF Click!ListAlerts
  <1>4. boards \in SUBSET Boards /\ OneEach(boards)
    BY <1>2, <1>3 DEF Click!Twins, OneEach
  <1> DEFINE steps == Click!PlanAlerts(pass[p].apps, boards, click["alerts"], pass[p].hook, pass[p].prune)
             W == WantedAlerts(pass[p].apps, boards, pass[p].hook)
  <1>5. steps # Click!Refused => Plans("alerts", W, Click!Ours("alerts"), pass[p].prune, steps)
    BY <1>b, <1>a, <1>2, <1>4, AlertsPlanned
  <1>6. Click!Plan(p, StageBefore("alerts"), StageOf("alerts"), steps)
    BY <1>3 DEF StageBefore, StageOf
  <1> HIDE DEF steps
  <1>7. (steps = Click!Refused /\ GivesUp(p)) \/ Lists(p, "alerts", W)
    <2> HIDE DEF W
    <2>1. steps # Click!Refused => \A r \in steps : r.on = "alerts"
      BY <1>5, StepKind
    <2>2. steps # Click!Refused => HookOf(pass[p].hook, steps) = pass[p].hook
      BY <2>1, OtherHook
    <2>3. steps # Click!Refused => HookOf(pass[p].hook, steps) \in Nat /\ Hooked(p, "alerts", HookOf(pass[p].hook, steps))
      BY <1>b, <2>2 DEF Hooked
    <2> QED BY <1>5, <1>6, <2>3, Listing
  <1> QED BY <1>3, <1>7 DEF steps

LEMMA LateShape ==
  ASSUME DashTypes, Click!Late
  PROVE  \E r \in late : LateRecord(r) \/ LateRequest(r)
PROOF
  <1>1. PICK r \in late :
          /\ late' = late \ {r}
          /\ IF r.op = "record"
             THEN /\ record' = r.doc.pairs /\ gone' = gone \cup {x[2] : x \in r.doc.pairs}
                  /\ UNCHANGED <<click, made, excuses>>
             ELSE /\ IF Click!Possible(r) THEN Click!Applied(r) ELSE UNCHANGED <<click, made>>
                  /\ excuses' = IF Click!Shows(r) THEN excuses + 1 ELSE excuses
                  /\ gone' = IF r.op = "delete" /\ r.on = "boards" THEN gone \cup {r.id} ELSE gone
                  /\ UNCHANGED record
    BY DEF Click!Late
  <1>2. Click!Disturbed
    BY DEF Click!Late
  <1>3. r.op # "record" => r \in Asks
    BY DEF DashTypes
  <1> QED BY <1>1, <1>2, <1>3 DEF LateRecord, LateRequest

(* What a person makes of an object.                                       *)
LEMMA EditKinds ==
  ASSUME NEW on \in Click!Kinds, NEW x \in Docs(on), NEW y \in Click!Edits(on, x)
  PROVE  y \in Docs(on) /\ y.id = x.id /\ (on = "boards" /\ y.tagged => x.tagged)
PROOF
  <1>1. CASE on = "boards"
    <2>1. x \in Boards
      BY <1>1 DEF Docs
    <2>2. y \in {[x EXCEPT !.body.kind = "edited"], [x EXCEPT !.body.kind = "bare"], [x EXCEPT !.name = Other], [x EXCEPT !.tagged = FALSE]}
      BY <1>1 DEF Click!Edits
    <2>3. [x EXCEPT !.body.kind = "edited"] \in Boards /\ [x EXCEPT !.body.kind = "edited"].id = x.id
          /\ [x EXCEPT !.body.kind = "edited"].tagged = x.tagged
      BY <2>1 DEF Boards, Bodies
    <2>4. [x EXCEPT !.body.kind = "bare"] \in Boards /\ [x EXCEPT !.body.kind = "bare"].id = x.id
          /\ [x EXCEPT !.body.kind = "bare"].tagged = x.tagged
      BY <2>1 DEF Boards, Bodies
    <2>5. [x EXCEPT !.name = Other] \in Boards /\ [x EXCEPT !.name = Other].id = x.id
          /\ [x EXCEPT !.name = Other].tagged = x.tagged
      BY <2>1 DEF Boards
    <2>6. [x EXCEPT !.tagged = FALSE] \in Boards /\ [x EXCEPT !.tagged = FALSE].id = x.id
          /\ [x EXCEPT !.tagged = FALSE].tagged = FALSE
      BY <2>1 DEF Boards
    <2> QED BY <1>1, <2>2, <2>3, <2>4, <2>5, <2>6 DEF Docs
  <1>2. CASE on = "alerts"
    BY <1>2 DEF Click!Edits, Docs, Alerts
  <1>3. CASE on = "hooks"
    BY <1>3 DEF Click!Edits, Docs, HookDocs
  <1> QED BY <1>1, <1>2, <1>3 DEF Click!Kinds

Acts(on, x) ==
  /\ gone' = IF on = "boards" THEN gone \cup {x.id} ELSE gone
  /\ \/ \E y \in Click!Edits(on, x) :
          /\ click' = [click EXCEPT ![on] = (@ \ {x}) \cup {y}]
          /\ excuses' = IF y.name # x.name THEN excuses + 1 ELSE excuses
          /\ UNCHANGED made
     \/ /\ click' = [click EXCEPT ![on] = @ \ {x}]
        /\ UNCHANGED <<made, excuses>>
     \/ /\ Click!Applied(Click!Request("create", on, 0, x))
        /\ excuses' = excuses + 1
  /\ Click!Disturbed
  /\ UNCHANGED <<git, cluster, record, late>>

LEMMA PersonShape ==
  ASSUME DashTypes, Click!Person
  PROVE  \E on \in Click!Kinds : \E x \in click[on] : PersonActs(on, x)
PROOF
  <1>0. PICK on \in Click!Kinds : \E x \in click[on] : Acts(on, x)
    BY DEF Click!Person, Acts
  <1>a. PICK x \in click[on] : Acts(on, x)
    BY <1>0
  <1>1.   /\ gone' = IF on = "boards" THEN gone \cup {x.id} ELSE gone
          /\ \/ \E y \in Click!Edits(on, x) :
                  /\ click' = [click EXCEPT ![on] = (@ \ {x}) \cup {y}]
                  /\ excuses' = IF y.name # x.name THEN excuses + 1 ELSE excuses
                  /\ UNCHANGED made
             \/ /\ click' = [click EXCEPT ![on] = @ \ {x}]
                /\ UNCHANGED <<made, excuses>>
             \/ /\ Click!Applied(Click!Request("create", on, 0, x))
                /\ excuses' = excuses + 1
          /\ Click!Disturbed
          /\ UNCHANGED <<git, cluster, record, late>>
    BY <1>a DEF Acts
  <1>2. ClickTypes /\ x \in Docs(on) /\ \A y \in click[on] : y.id = x.id => y = x
    BY DEF DashTypes, ClickTypes
  <1>3. CASE \E y \in Click!Edits(on, x) :
               /\ click' = [click EXCEPT ![on] = (@ \ {x}) \cup {y}]
               /\ excuses' = IF y.name # x.name THEN excuses + 1 ELSE excuses
               /\ UNCHANGED made
    <2>1. PICK y \in Click!Edits(on, x) :
               /\ click' = [click EXCEPT ![on] = (@ \ {x}) \cup {y}]
               /\ excuses' = IF y.name # x.name THEN excuses + 1 ELSE excuses
               /\ made' = made
      BY <1>3
    <2>2. y \in Docs(on) /\ y.id = x.id /\ (on = "boards" /\ y.tagged => x.tagged)
      BY <1>2, EditKinds
    <2>3. click[on] \ {x} = {z \in click[on] : z.id # y.id}
      BY <1>2, <2>2
    <2>4. Replaces(on, y)
      BY <2>1, <2>2, <2>3 DEF Replaces
    <2>5. Edits(on, x, y)
      BY <2>1, <2>2, <2>4 DEF Edits
    <2> QED BY <1>1, <2>2, <2>5 DEF PersonActs
  <1>4. CASE click' = [click EXCEPT ![on] = @ \ {x}] /\ UNCHANGED <<made, excuses>>
    <2>1. click[on] \ {x} = {z \in click[on] : z.id # x.id}
      BY <1>2
    <2>2. Removes(on, x.id)
      BY <1>4, <2>1 DEF Removes
    <2> QED BY <1>1, <1>4, <2>2 DEF PersonActs
  <1>5. CASE Click!Applied(Click!Request("create", on, 0, x)) /\ excuses' = excuses + 1
    <2> DEFINE r == Click!Request("create", on, 0, x)
    <2>1. r \in Asks /\ r.op = "create" /\ r.on = on /\ r.doc = x
      BY <1>2, Requesting DEF Ops
    <2>2. Click!Applied(r)
      BY <1>5
    <2> HIDE DEF r
    <2>3. \E y \in Docs(on) : Adds(on, y) /\ y.name = x.name
      BY <1>2, <2>1, <2>2, Creating
    <2> QED BY <1>1, <1>5, <2>3 DEF PersonActs
  <1> QED BY <1>1, <1>3, <1>4, <1>5

LEMMA OutsideShape ==
  ASSUME Click!GitMoves \/ Click!Flux \/ Click!Rebuilt
  PROVE  Outside
PROOF
  BY DEF Click!GitMoves, Click!Flux, Click!Rebuilt, Outside

(* What Git and the cluster hold are instances.                            *)
LEMMA WorldsKept ==
  ASSUME DashTypes, [Click!Next]_(Click!vars)
  PROVE  (git \subseteq Released /\ cluster \subseteq Released /\ git \in Worlds \cup {Initial})'
PROOF
  <1>1. git \subseteq Released /\ cluster \subseteq Released /\ git \in Worlds \cup {Initial}
    BY DEF DashTypes
  <1>2. CASE Click!GitMoves
    BY <1>1, <1>2, DashboardsAssumption DEF Click!GitMoves
  <1>3. CASE Click!Flux
    <2>1. PICK i \in git \cup cluster :
             LET others == {j \in cluster : <<j.app, j.env>> # <<i.app, i.env>>}
                 wanted == {j \in git : <<j.app, j.env>> = <<i.app, i.env>>}
             IN  cluster' = others \cup wanted
      BY <1>3 DEF Click!Flux
    <2> QED BY <1>1, <1>3, <2>1 DEF Click!Flux
  <1>4. CASE Click!Rebuilt
    BY <1>1, <1>4 DEF Click!Rebuilt
  <1>5. CASE Click!Late \/ Click!Person \/ UNCHANGED Click!vars
    BY <1>1, <1>5 DEF Click!Late, Click!Person, Click!vars
  <1>6. ASSUME NEW p \in Click!Passes, Click!Begin(p) \/ Click!Fails(p) \/ Click!AnswerHasNoId(p) \/ Click!Lost(p) \/ Click!RecordLost(p)
        PROVE  git' = git /\ cluster' = cluster
    BY <1>6 DEF Click!Begin, Click!Fails, Click!AnswerHasNoId, Click!Lost, Click!RecordLost
  <1>7. ASSUME NEW p \in Click!Passes, Click!Works(p)
        PROVE  git' = git /\ cluster' = cluster
    BY <1>7 DEF Click!Works, Click!ListWebhooks, Click!ListDashboards, Click!ListAlerts, Click!Plan, Click!Send, Click!Record
  <1> QED BY <1>1, <1>2, <1>3, <1>4, <1>5, <1>6, <1>7 DEF Click!Next

(* What a step may be.                                                     *)
PassStep(p) ==
  \/ StartsPass(p) \/ GivesUp(p) \/ RecordsIds(p)
  \/ \E r \in pass[p].todo : Requests(p, r)
  \/ Lists(p, "hooks", WantedHooks)
  \/ Lists(p, "boards", WantedBoards(pass[p].apps))
  \/ \E boards \in SUBSET Click!Ours("boards") :
       /\ ~Click!Twins(boards) /\ {b.name : b \in boards} = {b.name : b \in Click!Ours("boards")}
       /\ Lists(p, "alerts", WantedAlerts(pass[p].apps, boards, pass[p].hook))

OtherStep ==
  \/ \E r \in late : LateRecord(r) \/ LateRequest(r)
  \/ \E on \in Click!Kinds : \E x \in click[on] : PersonActs(on, x)
  \/ Outside \/ Stands

LEMMA WorkShape ==
  ASSUME DashTypes, NEW p \in Click!Passes, Click!Works(p)
  PROVE  PassStep(p) /\ pass[p].pc # "idle"
PROOF
  <1>1. CASE Click!Send(p)
    <2>1. pass[p].pc # "idle"
      BY <1>1 DEF Click!Send, Click!Due, Click!Sending
    <2> QED BY <1>1, <2>1, SendShape DEF PassStep
  <1>2. CASE Click!Record(p)
    <2>1. pass[p].pc # "idle"
      BY <1>2 DEF Click!Record
    <2> QED BY <1>2, <2>1, RecordShape DEF PassStep
  <1>3. CASE Click!ListWebhooks(p)
    <2>1. pass[p].pc # "idle"
      BY <1>3 DEF Click!ListWebhooks, Click!Plan
    <2> QED BY <1>3, <2>1, ListHooksShape DEF PassStep
  <1>4. CASE Click!ListDashboards(p)
    <2>1. pass[p].pc # "idle"
      BY <1>4 DEF Click!ListDashboards, Click!Plan
    <2> QED BY <1>4, <2>1, ListBoardsShape DEF PassStep
  <1>5. CASE Click!ListAlerts(p)
    <2>1. pass[p].pc # "idle"
      BY <1>5 DEF Click!ListAlerts, Click!Plan
    <2> QED BY <1>5, <2>1, ListAlertsShape DEF PassStep
  <1> QED BY <1>1, <1>2, <1>3, <1>4, <1>5 DEF Click!Works

LEMMA NextShape ==
  ASSUME DashTypes, [Click!Next]_(Click!vars)
  PROVE  OtherStep \/ \E p \in Click!Passes : PassStep(p)
PROOF
  <1>1. ASSUME NEW p \in Click!Passes, Click!Begin(p)
        PROVE  PassStep(p)
    BY <1>1, BeginShape DEF PassStep
  <1>2. ASSUME NEW p \in Click!Passes, Click!Fails(p)
        PROVE  PassStep(p)
    BY <1>2, FailsShape DEF PassStep
  <1>3. ASSUME NEW p \in Click!Passes, Click!AnswerHasNoId(p)
        PROVE  PassStep(p)
    BY <1>3, NoIdShape DEF PassStep
  <1>4. ASSUME NEW p \in Click!Passes, Click!Lost(p)
        PROVE  PassStep(p)
    BY <1>4, LostShape DEF PassStep
  <1>5. ASSUME NEW p \in Click!Passes, Click!RecordLost(p)
        PROVE  PassStep(p)
    BY <1>5, RecordLostShape DEF PassStep
  <1>6. ASSUME NEW p \in Click!Passes, Click!Works(p)
        PROVE  PassStep(p)
    BY <1>6, WorkShape
  <1>7. Click!Late => OtherStep
    BY LateShape DEF OtherStep
  <1>8. Click!Person => OtherStep
    BY PersonShape DEF OtherStep
  <1>9. Click!GitMoves \/ Click!Flux \/ Click!Rebuilt => OtherStep
    BY OutsideShape DEF OtherStep
  <1>10. UNCHANGED Click!vars => OtherStep
    BY DEF Click!vars, OtherStep, Stands
  <1> QED BY <1>1, <1>2, <1>3, <1>4, <1>5, <1>6, <1>7, <1>8, <1>9, <1>10 DEF Click!Next

-----------------------------------------------------------------------------
(* What a step makes of the passes.                                        *)

SameWork(now, next) ==
  /\ next.pc = now.pc /\ next.apps = now.apps /\ next.prune = now.prune
  /\ next.todo = now.todo /\ next.ids = now.ids /\ next.hook = now.hook

LEMMA Marked ==
  ASSUME NEW now, PassOK(now), now.pc # "idle"
  PROVE  /\ PassOK([now EXCEPT !.disturbed = TRUE]) /\ SameWork(now, [now EXCEPT !.disturbed = TRUE])
         /\ [now EXCEPT !.disturbed = TRUE].disturbed /\ [now EXCEPT !.disturbed = TRUE].beside = now.beside
         /\ PassOK([now EXCEPT !.beside = TRUE, !.disturbed = TRUE])
         /\ SameWork(now, [now EXCEPT !.beside = TRUE, !.disturbed = TRUE])
         /\ [now EXCEPT !.beside = TRUE, !.disturbed = TRUE].disturbed
         /\ [now EXCEPT !.beside = TRUE, !.disturbed = TRUE].beside
PROOF
  <1>0. now \in PassTypes
    BY DEF PassOK
  <1>a. ASSUME NEW next \in PassTypes, SameWork(now, next)
        PROVE  PassOK(next)
    <2>1. next.pc = now.pc /\ next.apps = now.apps /\ next.todo = now.todo /\ (next.prune <=> now.prune)
      BY <1>a DEF SameWork
    <2>2. OneEach(next.apps) /\ (next.prune \/ next.apps = {})
      BY <2>1 DEF PassOK
    <2>3. next.pc # "idle" /\ (next.todo # {} => next.pc \in {"hook", "board", "record", "prune", "alert"})
      BY <2>1 DEF PassOK
    <2>4. \A r \in next.todo : (next.pc = "hook" <=> r.on = "hooks") /\ (next.pc = "alert" <=> r.on = "alerts")
      BY <2>1 DEF PassOK
    <2>5. \A q, r \in Writes(next.todo) : q.doc.name = r.doc.name => q = r
      BY <2>1 DEF PassOK
    <2>6. \A r \in next.todo : r.op = "delete" => r.on # "hooks" /\ next.prune
      BY <2>1 DEF PassOK
    <2> QED BY <2>2, <2>3, <2>4, <2>5, <2>6 DEF PassOK
  <1>1. [now EXCEPT !.disturbed = TRUE] \in PassTypes /\ SameWork(now, [now EXCEPT !.disturbed = TRUE])
        /\ [now EXCEPT !.disturbed = TRUE].disturbed /\ [now EXCEPT !.disturbed = TRUE].beside = now.beside
    BY <1>0 DEF PassTypes, SameWork
  <1>2. /\ [now EXCEPT !.beside = TRUE, !.disturbed = TRUE] \in PassTypes
        /\ SameWork(now, [now EXCEPT !.beside = TRUE, !.disturbed = TRUE])
        /\ [now EXCEPT !.beside = TRUE, !.disturbed = TRUE].disturbed
        /\ [now EXCEPT !.beside = TRUE, !.disturbed = TRUE].beside
    BY <1>0 DEF PassTypes, SameWork
  <1> QED BY <1>a, <1>1, <1>2

PassesOK == pass \in [Click!Passes -> PassTypes] /\ \A p \in Click!Passes : PassOK(pass[p])

LEMMA OnePassMoves ==
  ASSUME PassesOK, NEW p \in Click!Passes, NEW next, PassOK(next), pass' = [pass EXCEPT ![p] = next]
  PROVE  PassesOK' /\ pass'[p] = next /\ \A q \in Click!Passes : q # p => pass'[q] = pass[q]
PROOF
  <1>1. next \in PassTypes
    BY DEF PassOK
  <1> QED BY <1>1 DEF PassesOK

LEMMA DisturbedPasses ==
  ASSUME PassesOK, Click!Disturbed
  PROVE  /\ PassesOK'
         /\ \A q \in Click!Passes : /\ SameWork(pass[q], pass'[q]) /\ pass'[q].beside = pass[q].beside
                                    /\ pass[q].pc # "idle" => pass'[q].disturbed
PROOF
  <1>1. \A q \in Click!Passes : pass'[q] = IF pass[q].pc = "idle" THEN pass[q] ELSE [pass[q] EXCEPT !.disturbed = TRUE]
    BY DEF Click!Disturbed
  <1>2. ASSUME NEW q \in Click!Passes
        PROVE  PassOK(pass'[q]) /\ SameWork(pass[q], pass'[q]) /\ pass'[q].beside = pass[q].beside
               /\ (pass[q].pc # "idle" => pass'[q].disturbed)
    <2>1. PassOK(pass[q])
      BY DEF PassesOK
    <2>2. CASE pass[q].pc = "idle"
      BY <1>1, <2>1, <2>2 DEF SameWork
    <2>3. CASE pass[q].pc # "idle"
      BY <1>1, <2>1, <2>3, Marked
    <2> QED BY <2>2, <2>3
  <1>3. \A q \in Click!Passes : pass'[q] \in PassTypes
    BY <1>2 DEF PassOK
  <1>4. pass' \in [Click!Passes -> PassTypes]
    BY <1>3 DEF Click!Disturbed
  <1> QED BY <1>2, <1>4 DEF PassesOK

LEMMA PassStarts ==
  ASSUME PassesOK, NEW p \in Click!Passes, StartsPass(p)
  PROVE  /\ PassesOK'
         /\ pass'[p].pc = "webhooks" /\ pass'[p].todo = {} /\ pass'[p].ids = {}
         /\ \A q \in Click!Passes : q # p => SameWork(pass[q], pass'[q])
         /\ Click!Overlaps(p) => \A q \in Click!Passes : pass'[q].beside /\ pass'[q].disturbed
         /\ ~Click!Overlaps(p) => \A q \in Click!Passes : IF q = p THEN ~pass'[q].beside /\ ~pass'[q].disturbed
                                                         ELSE pass'[q] = pass[q]
PROOF
  <1>1. PICK apps \in SUBSET AppDocs, prune \in BOOLEAN :
          /\ OneEach(apps) /\ (prune \/ apps = {})
          /\ pass' = Click!Beside(p, [pass EXCEPT ![p] = StartedPass(apps, prune)])
    BY DEF StartsPass
  <1> DEFINE new == StartedPass(apps, prune)
             now == [pass EXCEPT ![p] = new]
  <1>a. PassOK(new) /\ FreshPass(new)
    BY <1>1, StartedOK
  <1>2. new.pc = "webhooks" /\ new.todo = {} /\ new.ids = {} /\ new.beside = FALSE /\ new.disturbed = FALSE
    BY <1>a DEF FreshPass
  <1> HIDE DEF new
  <1>3. now[p] = new /\ \A q \in Click!Passes : q # p => now[q] = pass[q]
    BY DEF PassesOK
  <1>4. now \in [Click!Passes -> PassTypes] /\ \A q \in Click!Passes : PassOK(now[q])
    <2>1. new \in PassTypes
      BY <1>a DEF PassOK
    <2> QED BY <1>a, <1>3, <2>1 DEF PassesOK
  <1> HIDE DEF now
  <1>5. CASE ~Click!Overlaps(p)
    <2>1. pass' = now
      BY <1>1, <1>5 DEF Click!Beside, now, new
    <2>2. \A q \in Click!Passes : q # p => SameWork(pass[q], pass'[q])
      BY <2>1, <1>3 DEF SameWork
    <2>3. PassesOK'
      BY <2>1, <1>4 DEF PassesOK
    <2> QED BY <2>1, <2>2, <2>3, <1>2, <1>3, <1>5
  <1>6. CASE Click!Overlaps(p)
    <2>1. pass' = [q \in Click!Passes |-> [now[q] EXCEPT !.beside = TRUE, !.disturbed = TRUE]]
      BY <1>1, <1>6 DEF Click!Beside, now, new
    <2>2. \A q \in Click!Passes : now[q].pc # "idle"
      <3>1. PICK q \in Click!Passes \ {p} : pass[q].pc # "idle"
        BY <1>6 DEF Click!Overlaps
      <3> QED BY <3>1, <1>2, <1>3, PassKinds
    <2>3. ASSUME NEW q \in Click!Passes
          PROVE  PassOK(pass'[q]) /\ SameWork(now[q], pass'[q]) /\ pass'[q].beside /\ pass'[q].disturbed
      BY <2>1, <2>2, <1>4, Marked
    <2>4. PassesOK'
      <3>1. \A q \in Click!Passes : pass'[q] \in PassTypes
        BY <2>3 DEF PassOK
      <3>2. pass' \in [Click!Passes -> PassTypes]
        BY <2>1, <3>1
      <3> QED BY <2>3, <3>2 DEF PassesOK
    <2>5. pass'[p].pc = "webhooks" /\ pass'[p].todo = {} /\ pass'[p].ids = {}
      BY <2>3, <1>2, <1>3 DEF SameWork
    <2>6. \A q \in Click!Passes : q # p => SameWork(pass[q], pass'[q])
      BY <2>3, <1>3
    <2> QED BY <2>3, <2>4, <2>5, <2>6, <1>6
  <1> QED BY <1>5, <1>6

LEMMA ListedPass ==
  ASSUME PassesOK, NEW p \in Click!Passes, NEW on \in Click!Kinds, NEW steps, NEW hook \in Nat, NEW W, NEW ours,
         pass[p].pc = StageBefore(on), Plans(on, W, ours, pass[p].prune, steps)
  PROVE  LET next == PlannedPass(pass[p], StageOf(on), steps, hook)
         IN  PassOK(next) /\ ListedNow(pass[p], next, StageOf(on), on, steps, hook) /\ PassOK(Click!Onward(next))
PROOF
  <1> DEFINE next == PlannedPass(pass[p], StageOf(on), steps, hook)
  <1>1. PassOK(pass[p])
    BY DEF PassesOK
  <1>2. PhaseOf(pass[p].pc, StageOf(on), on)
    BY DEF StageBefore, StageOf, Click!Kinds, PhaseOf
  <1>3. PassOK(next) /\ ListedNow(pass[p], next, StageOf(on), on, steps, hook)
    BY <1>1, <1>2, PlanMade
  <1> HIDE DEF next
  <1>4. PassOK(Click!Onward(next))
    <2>1. next.pc # "idle"
      BY <1>3 DEF StageOf, ListedNow
    <2> QED BY <1>3, <2>1, Onwards
  <1> QED BY <1>3, <1>4 DEF next

LateOK == \A r \in late : r \in Asks \/ r.op = "record"

(* What a request that is applied makes of ClickStack.                     *)
LEMMA AppliedOK ==
  ASSUME ClickTypes, NEW r \in Asks, Click!Possible(r), Click!Applied(r)
  PROVE  ClickTypes'
PROOF
  <1>1. r.on \in Click!Kinds /\ r.op \in Ops
    BY KindOf
  <1>2. CASE r.op = "create"
    <2>1. PICK x \in Docs(r.on) : Adds(r.on, x)
      BY <1>2, Creating
    <2> QED BY <1>1, <2>1, ClickKept
  <1>3. CASE r.op = "update"
    <2>1. PICK x \in Docs(r.on) : Replaces(r.on, x)
      BY <1>3, Updating
    <2> QED BY <1>1, <2>1, ClickKept
  <1>4. CASE r.op = "delete"
    BY <1>1, <1>4, Deleting, ClickKept
  <1> QED BY <1>1, <1>2, <1>3, <1>4 DEF Ops

LEMMA NumberedId ==
  ASSUME ClickTypes, NEW r \in Asks
  PROVE  Click!Numbered(r).id = (IF r.op = "create" THEN made[r.on] + 1 ELSE r.id) /\ Click!Numbered(r).id \in Nat
PROOF
  <1> DEFINE was == {y \in click[r.on] : y.id = r.id}
             tiles == 1 + (IF r.op = "create" THEN 0 ELSE (CHOOSE y \in was : TRUE).tiles)
             d == IF r.on = "boards" THEN [r.doc EXCEPT !.tiles = tiles] ELSE r.doc
             id == IF r.op = "create" THEN made[r.on] + 1 ELSE r.id
  <1>1. Click!Numbered(r) = [d EXCEPT !.id = id]
    BY DEF Click!Numbered
  <1>2. r.on \in Click!Kinds /\ r.id \in Nat /\ r.doc \in Docs(r.on) /\ made[r.on] \in Nat
    BY KindOf DEF ClickTypes
  <1>3. id \in Nat
    BY <1>2
  <1> HIDE DEF tiles, id
  <1>4. [d EXCEPT !.id = id].id = id
    BY <1>2 DEF Docs, Boards, Alerts, HookDocs, Click!Kinds
  <1> QED BY <1>1, <1>3, <1>4 DEF id

LEMMA RequestPass ==
  ASSUME DashTypes, NEW p \in Click!Passes, NEW r \in pass[p].todo, Requests(p, r)
  PROVE  /\ PassesOK' /\ r \in Asks
         /\ \A q \in Click!Passes : q # p => pass'[q] = pass[q]
         /\ \/ pass'[p] = Click!Idle
            \/ \E id \in {0, Click!Numbered(r).id} :
                 /\ id \in Nat /\ pass'[p] = Click!Onward(Click!Learnt(pass[p], r, id))
                 /\ PassOK(Click!Learnt(pass[p], r, id)) /\ LearntNow(pass[p], Click!Learnt(pass[p], r, id), r, id)
                 /\ Click!Learnt(pass[p], r, id).pc # "idle"
PROOF
  <1>1. PassesOK /\ ClickTypes /\ PassOK(pass[p]) /\ pass[p].pc \in Sends
    BY DEF DashTypes, PassesOK, Requests
  <1>2. r \in Asks
    BY <1>1 DEF PassOK, PassTypes
  <1>3. CASE pass' = [pass EXCEPT ![p] = Click!Idle]
    BY <1>1, <1>2, <1>3, IdleOK, OnePassMoves
  <1>4. ASSUME NEW id \in {0, Click!Numbered(r).id}, pass' = [pass EXCEPT ![p] = Click!Onward(Click!Learnt(pass[p], r, id))]
        PROVE  /\ PassesOK'
               /\ \A q \in Click!Passes : q # p => pass'[q] = pass[q]
               /\ id \in Nat /\ pass'[p] = Click!Onward(Click!Learnt(pass[p], r, id))
               /\ PassOK(Click!Learnt(pass[p], r, id)) /\ LearntNow(pass[p], Click!Learnt(pass[p], r, id), r, id)
               /\ Click!Learnt(pass[p], r, id).pc # "idle"
    <2>1. id \in Nat
      BY <1>1, <1>2, NumberedId
    <2> DEFINE next == Click!Learnt(pass[p], r, id)
    <2>2. PassOK(next) /\ LearntNow(pass[p], next, r, id)
      BY <1>1, <2>1, LearntOK
    <2> HIDE DEF next
    <2>3. next.pc # "idle"
      BY <1>1, <2>2 DEF LearntNow, Sends
    <2>4. PassOK(Click!Onward(next))
      BY <2>2, <2>3, Onwards
    <2>5. PassesOK' /\ pass'[p] = Click!Onward(next) /\ \A q \in Click!Passes : q # p => pass'[q] = pass[q]
      BY <1>1, <1>4, <2>4, OnePassMoves DEF next
    <2> QED BY <2>1, <2>2, <2>3, <2>5 DEF next
  <1>5. \/ pass' = [pass EXCEPT ![p] = Click!Idle]
        \/ \E id \in {0, Click!Numbered(r).id} : pass' = [pass EXCEPT ![p] = Click!Onward(Click!Learnt(pass[p], r, id))]
    BY DEF Requests
  <1> QED BY <1>2, <1>3, <1>4, <1>5, <1>1, IdleOK, OnePassMoves

LEMMA ListPass ==
  ASSUME DashTypes, NEW p \in Click!Passes, NEW on \in Click!Kinds, NEW W, Lists(p, on, W)
  PROVE  /\ PassesOK'
         /\ \A q \in Click!Passes : q # p => pass'[q] = pass[q]
         /\ \E steps, next : \E hook \in Nat :
              /\ Plans(on, W, Click!Ours(on), pass[p].prune, steps) /\ Hooked(p, on, hook)
              /\ PassOK(next) /\ ListedNow(pass[p], next, StageOf(on), on, steps, hook)
              /\ pass'[p] = Click!Onward(next)
PROOF
  <1>1. PassesOK
    BY DEF DashTypes, PassesOK
  <1>2. PICK steps : \E hook \in Nat :
          /\ Plans(on, W, Click!Ours(on), pass[p].prune, steps) /\ Hooked(p, on, hook)
          /\ pass' = [pass EXCEPT ![p] = Click!Onward(PlannedPass(pass[p], StageOf(on), steps, hook))]
    BY DEF Lists
  <1>3. PICK hook \in Nat :
          /\ Plans(on, W, Click!Ours(on), pass[p].prune, steps) /\ Hooked(p, on, hook)
          /\ pass' = [pass EXCEPT ![p] = Click!Onward(PlannedPass(pass[p], StageOf(on), steps, hook))]
    BY <1>2
  <1> DEFINE next == PlannedPass(pass[p], StageOf(on), steps, hook)
  <1>4. PassOK(next) /\ ListedNow(pass[p], next, StageOf(on), on, steps, hook) /\ PassOK(Click!Onward(next))
    <2>1. pass[p].pc = StageBefore(on)
      BY DEF Lists
    <2> QED BY <1>1, <1>3, <2>1, ListedPass
  <1> HIDE DEF next
  <1>5. PassesOK' /\ pass'[p] = Click!Onward(next) /\ \A q \in Click!Passes : q # p => pass'[q] = pass[q]
    BY <1>1, <1>3, <1>4, OnePassMoves DEF next
  <1> QED BY <1>3, <1>4, <1>5

LEMMA RecordPass ==
  ASSUME DashTypes, NEW p \in Click!Passes, RecordsIds(p)
  PROVE  /\ PassesOK'
         /\ \A q \in Click!Passes : q # p => pass'[q] = pass[q]
         /\ \E next : PassOK(next) /\ next.pc = "prune" /\ SameBut(pass[p], next) /\ pass'[p] = Click!Onward(next)
PROOF
  <1> DEFINE next == [pass[p] EXCEPT !.pc = Click!NextPhase("record")]
  <1>1. PassesOK /\ PassOK(pass[p]) /\ pass[p].pc = "record" /\ pass' = [pass EXCEPT ![p] = Click!Onward(next)]
    BY DEF DashTypes, PassesOK, RecordsIds
  <1>2. PassOK(next) /\ next.pc = "prune" /\ SameBut(pass[p], next)
    BY <1>1, RecordedOK
  <1> HIDE DEF next
  <1>3. PassOK(Click!Onward(next))
    BY <1>2, Onwards
  <1>4. PassesOK' /\ pass'[p] = Click!Onward(next) /\ \A q \in Click!Passes : q # p => pass'[q] = pass[q]
    BY <1>1, <1>3, OnePassMoves
  <1> QED BY <1>2, <1>4

LEMMA GiveUpPass ==
  ASSUME DashTypes, NEW p \in Click!Passes, GivesUp(p)
  PROVE  PassesOK' /\ pass'[p] = Click!Idle /\ \A q \in Click!Passes : q # p => pass'[q] = pass[q]
PROOF
  <1>1. PassesOK /\ pass' = [pass EXCEPT ![p] = Click!Idle]
    BY DEF DashTypes, PassesOK, GivesUp
  <1> QED BY <1>1, IdleOK, OnePassMoves

LEMMA ClickStays ==
  ASSUME ClickTypes, click' = click, made' = made
  PROVE  ClickTypes'
PROOF
  BY DEF ClickTypes

LEMMA TypesStep ==
  ASSUME DashTypes, [Click!Next]_(Click!vars)
  PROVE  DashTypes'
PROOF
  <1>0. PassesOK /\ ClickTypes /\ excuses \in Nat /\ LateOK
    BY DEF DashTypes, PassesOK, LateOK
  <1>1. ASSUME NEW p \in Click!Passes, PassStep(p)
        PROVE  PassesOK' /\ ClickTypes' /\ excuses' \in Nat /\ LateOK'
    <2>1. CASE StartsPass(p)
      <3>1. PassesOK'
        BY <1>0, <2>1, PassStarts
      <3> QED BY <1>0, <2>1, <3>1, ClickStays DEF StartsPass, LateOK
    <2>2. CASE GivesUp(p)
      <3>1. PassesOK'
        BY <2>2, GiveUpPass
      <3>2. pass[p].todo \subseteq Asks
        BY DEF DashTypes, PassTypes
      <3> QED BY <1>0, <2>2, <3>1, <3>2, ClickStays DEF GivesUp, LateOK
    <2>3. CASE RecordsIds(p)
      <3>1. PassesOK'
        BY <2>3, RecordPass
      <3> QED BY <1>0, <2>3, <3>1, ClickStays DEF RecordsIds, LateOK
    <2>4. ASSUME NEW r \in pass[p].todo, Requests(p, r)
          PROVE  PassesOK' /\ ClickTypes' /\ excuses' \in Nat /\ LateOK'
      <3>1. PassesOK' /\ r \in Asks
        BY <2>4, RequestPass
      <3>2. Click!Possible(r) /\ Click!Applied(r) /\ late' = late /\ excuses' = excuses
        BY <2>4 DEF Requests
      <3>3. ClickTypes'
        BY <1>0, <3>1, <3>2, AppliedOK
      <3> QED BY <1>0, <3>1, <3>2, <3>3 DEF LateOK
    <2>5. ASSUME NEW on \in Click!Kinds, NEW W, Lists(p, on, W)
          PROVE  PassesOK' /\ ClickTypes' /\ excuses' \in Nat /\ LateOK'
      <3>1. PassesOK'
        BY <2>5, ListPass
      <3> QED BY <1>0, <2>5, <3>1, ClickStays DEF Lists, LateOK
    <2> QED BY <1>1, <2>1, <2>2, <2>3, <2>4, <2>5 DEF PassStep, Click!Kinds
  <1>2. ASSUME OtherStep
        PROVE  PassesOK' /\ ClickTypes' /\ excuses' \in Nat /\ LateOK'
    <2>1. ASSUME NEW r \in late, LateRecord(r)
          PROVE  PassesOK' /\ ClickTypes' /\ excuses' \in Nat /\ LateOK'
      <3>1. PassesOK'
        BY <1>0, <2>1, DisturbedPasses DEF LateRecord
      <3> QED BY <1>0, <2>1, <3>1, ClickStays DEF LateRecord, LateOK
    <2>2. ASSUME NEW r \in late, LateRequest(r)
          PROVE  PassesOK' /\ ClickTypes' /\ excuses' \in Nat /\ LateOK'
      <3>1. PassesOK'
        BY <1>0, <2>2, DisturbedPasses DEF LateRequest
      <3>2. ClickTypes'
        BY <1>0, <2>2, ClickStays, AppliedOK DEF LateRequest
      <3> QED BY <1>0, <2>2, <3>1, <3>2 DEF LateRequest, LateOK
    <2>3. ASSUME NEW on \in Click!Kinds, NEW x \in click[on], PersonActs(on, x)
          PROVE  PassesOK' /\ ClickTypes' /\ excuses' \in Nat /\ LateOK'
      <3>1. PassesOK'
        BY <1>0, <2>3, DisturbedPasses DEF PersonActs
      <3>2. CASE \E y \in Docs(on) : Edits(on, x, y)
        <4>1. PICK y \in Docs(on) : Edits(on, x, y)
          BY <3>2
        <4>2. ClickTypes'
          BY <1>0, <4>1, ClickKept DEF Edits
        <4> QED BY <1>0, <2>3, <3>1, <4>1, <4>2 DEF PersonActs, Edits, LateOK
      <3>3. CASE Removes(on, x.id) /\ excuses' = excuses
        <4>2. ClickTypes'
          BY <1>0, <3>3, ClickKept
        <4> QED BY <1>0, <2>3, <3>1, <3>3, <4>2 DEF PersonActs, LateOK
      <3>4. CASE \E y \in Docs(on) : Adds(on, y) /\ y.name = x.name /\ excuses' = excuses + 1
        <4>1. PICK y \in Docs(on) : Adds(on, y) /\ excuses' = excuses + 1
          BY <3>4
        <4>2. ClickTypes'
          BY <1>0, <4>1, ClickKept
        <4> QED BY <1>0, <2>3, <3>1, <4>1, <4>2 DEF PersonActs, LateOK
      <3> QED BY <2>3, <3>2, <3>3, <3>4 DEF PersonActs
    <2>4. CASE Outside
      <3>1. PassesOK'
        BY <1>0, <2>4, DisturbedPasses DEF Outside
      <3> QED BY <1>0, <2>4, <3>1, ClickStays DEF Outside, LateOK
    <2>5. CASE Stands
      BY <1>0, <2>5, ClickStays DEF Stands, LateOK, PassesOK
    <2> QED BY <1>2, <2>1, <2>2, <2>3, <2>4, <2>5 DEF OtherStep
  <1>3. PassesOK' /\ ClickTypes' /\ excuses' \in Nat /\ LateOK'
    BY <1>1, <1>2, NextShape
  <1>4. (git \subseteq Released /\ cluster \subseteq Released /\ git \in Worlds \cup {Initial})'
    BY WorldsKept
  <1> QED BY <1>3, <1>4 DEF DashTypes, PassesOK, LateOK

LEMMA TypesInit ==
  ASSUME Click!Init
  PROVE  DashTypes
PROOF
  <1>1. git = Initial /\ cluster = Initial /\ Initial \subseteq Released /\ excuses = 0 /\ late = {}
    BY DashboardsAssumption DEF Click!Init
  <1>2. click = [on \in Click!Kinds |-> {}] /\ made = [on \in Click!Kinds |-> 0]
    BY DEF Click!Init
  <1>3. ClickTypes
    BY <1>2 DEF ClickTypes
  <1>4. pass = [p \in Click!Passes |-> Click!Idle] /\ Click!Idle \in PassTypes /\ PassOK(Click!Idle)
    BY IdleOK DEF Click!Init, PassOK
  <1> QED BY <1>1, <1>3, <1>4 DEF DashTypes

-----------------------------------------------------------------------------
(* The record.                                                             *)

(* A request that was asked fits what it was planned from.                 *)
Fits(r) ==
  /\ r.op = "create" => r.id = 0
  /\ r.op # "create" => r.id >= 1 /\ r.id <= made[r.on]
  /\ r.op # "delete" /\ r.on = "boards" => r.doc.tagged
  /\ r.op = "update" /\ r.on = "boards" =>
       r.id \in gone \/ \A b \in click["boards"] : b.id = r.id => b.name = r.doc.name

Live(id, name) == \E b \in click["boards"] : b.tagged /\ b.id = id /\ b.name = name
Named(x) == x[2] \in gone \/ Live(x[2], x[1])

(* What may become of dashboards: the names of those that stay stay, but   *)
(* for ones that are known as gone, and all stay but those of D.           *)
KeepBoards(D) ==
  \A b \in click["boards"] : b.tagged => b.id \in gone' \/ b.id \in D \/ Live(b.id, b.name)'
Renames ==
  \A c \in click'["boards"] : \/ c.id \in gone' \/ c.id > made["boards"]
                              \/ \E b \in click["boards"] : b.id = c.id /\ b.name = c.name
Grows == gone \subseteq gone' /\ \A on \in Click!Kinds : made[on] <= made'[on]

LEMMA FitsKept ==
  ASSUME ClickTypes, ClickTypes', Renames, Grows, NEW r \in Asks, Fits(r)
  PROVE  Fits(r)'
PROOF
  <1>1. r.on \in Click!Kinds /\ r.id \in Nat /\ made[r.on] \in Nat /\ made'[r.on] \in Nat /\ made[r.on] <= made'[r.on]
    BY KindOf DEF ClickTypes, Grows
  <1>2. r.op # "create" => r.id >= 1 /\ r.id <= made'[r.on]
    BY <1>1 DEF Fits
  <1>3. ASSUME r.op = "update", r.on = "boards", r.id \notin gone', NEW c \in click'["boards"], c.id = r.id
        PROVE  c.name = r.doc.name
    <2>1. ~(c.id > made["boards"])
      BY <1>1, <1>3 DEF Fits
    <2>2. PICK b \in click["boards"] : b.id = c.id /\ b.name = c.name
      BY <1>3, <2>1 DEF Renames
    <2>3. r.id \notin gone
      BY <1>3 DEF Grows
    <2> QED BY <1>3, <2>2, <2>3 DEF Fits
  <1> QED BY <1>2, <1>3 DEF Fits

LEMMA NamedKept ==
  ASSUME NEW D, KeepBoards(D), Grows, NEW x, x[2] \notin D, Named(x)
  PROVE  Named(x)'
PROOF
  <1>1. CASE x[2] \in gone
    BY <1>1 DEF Named, Grows
  <1>2. CASE Live(x[2], x[1])
    <2>1. PICK b \in click["boards"] : b.tagged /\ b.id = x[2] /\ b.name = x[1]
      BY <1>2 DEF Live
    <2> QED BY <2>1 DEF KeepBoards, Named
  <1> QED BY <1>1, <1>2 DEF Named

LEMMA BoardsStay ==
  ASSUME click' = click, made' = made, gone \subseteq gone', ClickTypes
  PROVE  KeepBoards({}) /\ Renames /\ Grows
PROOF
  BY DEF KeepBoards, Renames, Grows, Live, ClickTypes

StaysItself(x) == x.id \in gone' \/ (x.tagged /\ \A b \in click["boards"] : b.id = x.id => b.name = x.name)

LEMMA BoardsMove ==
  ASSUME ClickTypes, NEW on \in Click!Kinds, NEW x, NEW id, gone \subseteq gone',
         Adds(on, x) \/ Replaces(on, x) \/ Removes(on, id)
  PROVE  /\ Grows
         /\ Adds(on, x) => KeepBoards({}) /\ Renames
         /\ Replaces(on, x) /\ (on = "boards" => StaysItself(x)) => KeepBoards({}) /\ Renames
         /\ Removes(on, id) => KeepBoards(IF on = "boards" THEN {id} ELSE {}) /\ Renames
PROOF
  <1>0. /\ made \in [Click!Kinds -> Nat] /\ "boards" \in Click!Kinds /\ click = [k \in Click!Kinds |-> click[k]]
        /\ \A b \in click["boards"] : b.id \in Nat
    BY DEF ClickTypes, Click!Kinds, Docs, Boards
  <1>1. Grows
    BY <1>0 DEF Grows, Adds, Replaces, Removes
  <1>2. ASSUME Adds(on, x)
        PROVE  KeepBoards({}) /\ Renames
    <2>1. click'["boards"] = (IF on = "boards" THEN click["boards"] \cup {x} ELSE click["boards"])
      BY <1>0, <1>2 DEF Adds
    <2>2. on = "boards" => x.id > made["boards"]
      BY <1>0, <1>2 DEF Adds
    <2> QED BY <2>1, <2>2 DEF KeepBoards, Renames, Live
  <1>3. ASSUME Replaces(on, x), on = "boards" => StaysItself(x)
        PROVE  KeepBoards({}) /\ Renames
    <2>1. click'["boards"] = (IF on = "boards" THEN {y \in click["boards"] : y.id # x.id} \cup {x} ELSE click["boards"])
      BY <1>0, <1>3 DEF Replaces
    <2>2. \E b \in click[on] : b.id = x.id
      BY <1>3 DEF Replaces
    <2> QED BY <1>3, <2>1, <2>2 DEF StaysItself, KeepBoards, Renames, Live
  <1>4. ASSUME Removes(on, id)
        PROVE  KeepBoards(IF on = "boards" THEN {id} ELSE {}) /\ Renames
    <2>1. click'["boards"] = (IF on = "boards" THEN {y \in click["boards"] : y.id # id} ELSE click["boards"])
      BY <1>0, <1>4 DEF Removes
    <2> QED BY <2>1 DEF KeepBoards, Renames, Live
  <1> QED BY <1>1, <1>2, <1>3, <1>4

Taken(r) == IF r.op = "delete" /\ r.on = "boards" THEN {r.id} ELSE {}

LEMMA RequestMoves ==
  ASSUME ClickTypes, NEW r \in Asks, Fits(r), Click!Possible(r), Click!Applied(r), gone \subseteq gone'
  PROVE  Grows /\ Renames /\ KeepBoards(Taken(r))
PROOF
  <1>1. r.on \in Click!Kinds /\ r.op \in Ops
    BY KindOf
  <1>2. CASE r.op = "create"
    <2>1. PICK x \in Docs(r.on) : Adds(r.on, x)
      BY <1>2, Creating
    <2> QED BY <1>1, <1>2, <2>1, BoardsMove DEF Taken
  <1>3. CASE r.op = "update"
    <2>1. PICK x \in Docs(r.on) : /\ Replaces(r.on, x) /\ x.id = r.id /\ x.name = r.doc.name
                                  /\ r.on = "boards" => x.tagged = r.doc.tagged
      BY <1>3, Updating
    <2>2. r.on = "boards" => StaysItself(x)
      BY <1>3, <2>1 DEF Fits, StaysItself
    <2> QED BY <1>1, <1>3, <2>1, <2>2, BoardsMove DEF Taken
  <1>4. CASE r.op = "delete"
    <2>1. Removes(r.on, r.id)
      BY <1>4, Deleting
    <2>2. Grows /\ Renames /\ KeepBoards(IF r.on = "boards" THEN {r.id} ELSE {})
      BY <1>1, <2>1, BoardsMove
    <2> QED BY <1>4, <2>2 DEF Taken
  <1> QED BY <1>1, <1>2, <1>3, <1>4 DEF Ops

LEMMA PersonMoves ==
  ASSUME ClickTypes, NEW on \in Click!Kinds, NEW x \in click[on], PersonActs(on, x)
  PROVE  Grows /\ Renames /\ KeepBoards({})
PROOF
  <1>1. gone \subseteq gone' /\ (on = "boards" => x.id \in gone')
    BY DEF PersonActs
  <1>2. CASE \E y \in Docs(on) : Edits(on, x, y)
    <2>1. PICK y \in Docs(on) : Replaces(on, y) /\ y.id = x.id
      BY <1>2 DEF Edits
    <2>2. on = "boards" => StaysItself(y)
      BY <1>1, <2>1 DEF StaysItself
    <2> QED BY <1>1, <2>1, <2>2, BoardsMove
  <1>3. CASE Removes(on, x.id)
    <2>1. Grows /\ Renames /\ KeepBoards(IF on = "boards" THEN {x.id} ELSE {})
      BY <1>1, <1>3, BoardsMove
    <2>2. KeepBoards({})
      BY <1>1, <2>1 DEF KeepBoards
    <2> QED BY <2>1, <2>2
  <1>4. CASE \E y \in Docs(on) : Adds(on, y)
    BY <1>1, <1>4, BoardsMove
  <1> QED BY <1>2, <1>3, <1>4 DEF PersonActs

LEMMA LateMoves ==
  ASSUME ClickTypes, NEW r \in late, LateRequest(r), Fits(r)
  PROVE  Grows /\ Renames /\ KeepBoards({})
PROOF
  <1>1. gone \subseteq gone' /\ r \in Asks
    BY DEF LateRequest
  <1>2. CASE Click!Possible(r)
    <2>1. Grows /\ Renames /\ KeepBoards(Taken(r))
      BY <1>1, <1>2, RequestMoves DEF LateRequest
    <2>2. \A id \in Taken(r) : id \in gone'
      BY DEF Taken, LateRequest
    <2> QED BY <2>1, <2>2 DEF KeepBoards
  <1>3. CASE ~Click!Possible(r)
    BY <1>1, <1>3, BoardsStay DEF LateRequest
  <1> QED BY <1>2, <1>3

Early == {"webhooks", "hook", "dashboards"}

(* A pass on its own.                                                      *)
Alone(p) ==
  /\ pass[p].beside => excuses >= 1
  /\ pass[p].pc \in Early => pass[p].ids = {}
  /\ pass[p].pc # "idle" /\ ~pass[p].beside =>
       /\ \A q \in Click!Passes : q # p => pass[q].pc = "idle"
       /\ \A r \in pass[p].todo : r.op = "delete" /\ r.on = "boards" =>
            /\ \A x \in pass[p].ids : x[2] # r.id
            /\ pass[p].pc = "prune" => r.id \in gone \/ \A x \in record : x[2] # r.id

AskedFit == (\A r \in late : r \in Asks => Fits(r)) /\ \A p \in Click!Passes : \A r \in pass[p].todo : Fits(r)
RecordNamed == \A x \in record : Named(x)
IdsNamed == \A p \in Click!Passes : \A x \in pass[p].ids : x[2] = 0 \/ Named(x)
RecordInv == AskedFit /\ RecordNamed /\ IdsNamed /\ \A p \in Click!Passes : Alone(p)

(* A pass that goes on with no more than it had.                           *)
Fewer(now, next) ==
  /\ next.todo \subseteq now.todo /\ next.ids \subseteq now.ids /\ (next.beside => now.beside)
  /\ next.pc # "idle" => /\ now.pc # "idle" /\ (now.beside => next.beside)
                         /\ next.pc \in Early => now.pc \in Early
                         /\ next.pc = "prune" => now.pc = "prune"
  /\ next.pc = "idle" => next = Click!Idle

LEMMA OnwardFewer ==
  ASSUME NEW now, PassOK(now), now.pc # "idle"
  PROVE  Fewer(now, Click!Onward(now))
PROOF
  <1>1. CASE Click!Onward(now) = now
    BY <1>1 DEF Fewer
  <1>2. CASE Click!Onward(now) = Click!Idle
    BY <1>2, IdleOK DEF Fewer
  <1>3. CASE /\ \/ now.pc = "hook" /\ now.todo = {} /\ Click!Onward(now).pc = "dashboards"
                \/ now.pc = "board" /\ Writes(now.todo) = {} /\ Click!Onward(now).pc = "record"
                \/ now.pc = "prune" /\ now.todo = {} /\ Click!Onward(now).pc = "alerts"
             /\ SameBut(now, Click!Onward(now))
    <2>1. Click!Onward(now).todo = now.todo /\ Click!Onward(now).ids = now.ids /\ (Click!Onward(now).beside <=> now.beside)
      BY <1>3 DEF SameBut
    <2> QED BY <1>3, <2>1 DEF Fewer, Early
  <1> QED BY <1>1, <1>2, <1>3, Onwards

LEMMA IdleFewer ==
  ASSUME NEW now
  PROVE  Fewer(now, Click!Idle)
PROOF
  BY IdleOK DEF Fewer

LEMMA SameFewer ==
  ASSUME NEW now, NEW next, PassOK(now), PassOK(next), SameWork(now, next), next.beside = now.beside
  PROVE  Fewer(now, next)
PROOF
  BY DEF SameWork, Fewer, PassOK

(* A pass that does no more than before is as alone as it was.             *)
LEMMA AloneKept ==
  ASSUME DashTypes, NEW p \in Click!Passes, Alone(p), Fewer(pass[p], pass'[p]),
         excuses \in Nat, excuses' \in Nat, excuses <= excuses', gone \subseteq gone',
         \A q \in Click!Passes : q # p /\ pass[q].pc = "idle" => pass'[q].pc = "idle",
         \A x \in record' : \/ x \in record \/ x[2] \in gone' \/ pass[p].pc # "prune"
                            \/ \E q \in Click!Passes : q # p /\ pass[q].pc # "idle"
  PROVE  Alone(p)'
PROOF
  <1>1. pass'[p].beside => excuses' >= 1
    BY DEF Fewer, Alone
  <1>2. pass'[p].pc \in Early => pass'[p].ids = {}
    BY DEF Fewer, Alone, Early
  <1>3. ASSUME pass'[p].pc # "idle", ~pass'[p].beside
        PROVE  /\ \A q \in Click!Passes : q # p => pass'[q].pc = "idle"
               /\ \A r \in pass'[p].todo : r.op = "delete" /\ r.on = "boards" =>
                    /\ \A x \in pass'[p].ids : x[2] # r.id
                    /\ pass'[p].pc = "prune" => r.id \in gone' \/ \A x \in record' : x[2] # r.id
    <2>1. pass[p].pc # "idle" /\ ~pass[p].beside
      BY <1>3 DEF Fewer
    <2>2. \A q \in Click!Passes : q # p => pass[q].pc = "idle"
      BY <2>1 DEF Alone
    <2>3. \A q \in Click!Passes : q # p => pass'[q].pc = "idle"
      BY <2>2
    <2>4. ASSUME NEW r \in pass'[p].todo, r.op = "delete", r.on = "boards"
          PROVE  /\ \A x \in pass'[p].ids : x[2] # r.id
                 /\ pass'[p].pc = "prune" => r.id \in gone' \/ \A x \in record' : x[2] # r.id
      <3>1. r \in pass[p].todo /\ pass'[p].ids \subseteq pass[p].ids /\ (pass'[p].pc = "prune" => pass[p].pc = "prune")
        BY <1>3, <2>4 DEF Fewer
      <3>2. /\ \A x \in pass[p].ids : x[2] # r.id
            /\ pass[p].pc = "prune" => r.id \in gone \/ \A x \in record : x[2] # r.id
        BY <2>1, <2>4, <3>1 DEF Alone
      <3> QED BY <2>2, <3>1, <3>2
    <2> QED BY <2>3, <2>4
  <1> QED BY <1>1, <1>2, <1>3 DEF Alone

(* What stays fit and named when dashboards move.                          *)
LEMMA FitStep ==
  ASSUME DashTypes, RecordInv, ClickTypes', Renames, Grows,
         \A r \in late' : r \in late \/ r.op = "record" \/ \E p \in Click!Passes : r \in pass[p].todo,
         \A p \in Click!Passes : \A r \in pass'[p].todo : r \in Asks /\ (r \in pass[p].todo \/ Fits(r))
  PROVE  AskedFit'
PROOF
  <1>1. ClickTypes /\ \A p \in Click!Passes : pass[p].todo \subseteq Asks
    BY DEF DashTypes, PassTypes
  <1>a. \A r \in Asks : r.op # "record"
    BY DEF Asks, AsksOf, Ops
  <1>2. ASSUME NEW r \in late', r \in Asks
        PROVE  Fits(r)'
    <2>1. Fits(r)
      BY <1>1, <1>a, <1>2 DEF RecordInv, AskedFit
    <2> QED BY <1>1, <1>2, <2>1, FitsKept
  <1>3. ASSUME NEW p \in Click!Passes, NEW r \in pass'[p].todo
        PROVE  Fits(r)'
    <2>1. Fits(r) /\ r \in Asks
      BY DEF RecordInv, AskedFit
    <2> QED BY <1>1, <2>1, FitsKept
  <1> QED BY <1>2, <1>3 DEF AskedFit

LEMMA NameStep ==
  ASSUME RecordInv, NEW D, KeepBoards(D), Grows,
         \A x \in record' : \/ (x \in record /\ x[2] \notin D) \/ Named(x)'
                            \/ \E p \in Click!Passes : x \in pass[p].ids /\ x[2] # 0 /\ x[2] \notin D,
         \A p \in Click!Passes : \A x \in pass'[p].ids : (x \in pass[p].ids /\ x[2] \notin D) \/ x[2] = 0 \/ Named(x)'
  PROVE  RecordNamed' /\ IdsNamed'
PROOF
  <1>1. ASSUME NEW x \in record'
        PROVE  Named(x)'
    BY NamedKept DEF RecordInv, RecordNamed, IdsNamed
  <1>2. ASSUME NEW p \in Click!Passes, NEW x \in pass'[p].ids
        PROVE  x[2] = 0 \/ Named(x)'
    BY NamedKept DEF RecordInv, IdsNamed
  <1> QED BY <1>1, <1>2 DEF RecordNamed, IdsNamed

(* Each step keeps the invariant of the record.                            *)
LEMMA RecordStarts ==
  ASSUME DashTypes, DashTypes', RecordInv, NEW p \in Click!Passes, StartsPass(p)
  PROVE  RecordInv'
PROOF
  <1>1. PassesOK /\ ClickTypes /\ ClickTypes' /\ PassesOK' /\ excuses \in Nat /\ excuses' \in Nat
    BY DEF DashTypes, PassesOK
  <1>2. /\ pass'[p].pc = "webhooks" /\ pass'[p].todo = {} /\ pass'[p].ids = {}
        /\ \A q \in Click!Passes : q # p => SameWork(pass[q], pass'[q])
        /\ Click!Overlaps(p) => \A q \in Click!Passes : pass'[q].beside /\ pass'[q].disturbed
        /\ ~Click!Overlaps(p) => \A q \in Click!Passes : IF q = p THEN ~pass'[q].beside /\ ~pass'[q].disturbed
                                                        ELSE pass'[q] = pass[q]
    BY <1>1, PassStarts
  <1>3. /\ click' = click /\ made' = made /\ record' = record /\ late' = late /\ gone' = gone
        /\ excuses' = IF Click!Overlaps(p) /\ ~\E q \in Click!Passes : pass[q].beside THEN excuses + 1 ELSE excuses
    BY DEF StartsPass
  <1>4. KeepBoards({}) /\ Renames /\ Grows
    BY <1>1, <1>3, BoardsStay
  <1>5. \A q \in Click!Passes : pass'[q].todo \subseteq pass[q].todo /\ pass'[q].ids \subseteq pass[q].ids
    BY <1>2 DEF SameWork
  <1>6. \A q \in Click!Passes : pass[q].todo \subseteq Asks
    BY DEF DashTypes, PassTypes
  <1>7. AskedFit'
    BY <1>1, <1>3, <1>4, <1>5, <1>6, FitStep
  <1>8. RecordNamed' /\ IdsNamed'
    BY <1>3, <1>4, <1>5, NameStep
  <1>9. ASSUME NEW q \in Click!Passes
        PROVE  Alone(q)'
    <2>1. Alone(q)
      BY DEF RecordInv
    <2>2. pass'[q].pc \in Early => pass'[q].ids = {}
      BY <1>2, <2>1 DEF SameWork, Alone, Early
    <2>3. CASE Click!Overlaps(p)
      <3>1. excuses' >= 1
        <4>1. CASE \E o \in Click!Passes : pass[o].beside
          BY <4>1, <1>1, <1>3 DEF RecordInv, Alone
        <4>2. CASE ~\E o \in Click!Passes : pass[o].beside
          BY <4>2, <1>1, <1>3, <2>3
        <4> QED BY <4>1, <4>2
      <3>2. pass'[q].beside
        BY <1>2, <2>3
      <3> QED BY <2>2, <3>1, <3>2 DEF Alone
    <2>4. CASE ~Click!Overlaps(p)
      <3>1. \A o \in Click!Passes : o # p => pass'[o] = pass[o] /\ pass[o].pc = "idle"
        BY <1>2, <2>4 DEF Click!Overlaps
      <3>2. CASE q = p
        <4>1. ~pass'[q].beside /\ pass'[q].todo = {}
          BY <1>2, <2>4, <3>2
        <4> QED BY <2>2, <3>1, <3>2, <4>1 DEF Alone
      <3>3. CASE q # p
        <4>1. pass'[q] = Click!Idle
          BY <1>1, <3>1, <3>3 DEF PassesOK, PassOK
        <4> QED BY <4>1, IdleOK DEF Alone, Early
      <3> QED BY <3>2, <3>3
    <2> QED BY <2>3, <2>4
  <1> QED BY <1>7, <1>8, <1>9 DEF RecordInv

LEMMA RecordFails ==
  ASSUME DashTypes, DashTypes', RecordInv, NEW p \in Click!Passes, GivesUp(p)
  PROVE  RecordInv'
PROOF
  <1>1. ClickTypes /\ ClickTypes' /\ excuses \in Nat /\ excuses' \in Nat
    BY DEF DashTypes
  <1>2. pass'[p] = Click!Idle /\ \A q \in Click!Passes : q # p => pass'[q] = pass[q]
    BY GiveUpPass
  <1>3. /\ click' = click /\ made' = made /\ gone' = gone /\ excuses' = excuses /\ pass[p].pc # "idle"
        /\ \A r \in late' : r \in late \/ r \in pass[p].todo \/ r.op = "record"
        /\ record' = record \/ record' = Click!Recordable(pass[p].ids)
    BY DEF GivesUp
  <1>4. KeepBoards({}) /\ Renames /\ Grows
    BY <1>1, <1>3, BoardsStay
  <1>5. \A q \in Click!Passes : Fewer(pass[q], pass'[q])
    BY <1>2, IdleFewer DEF Fewer, DashTypes, PassOK
  <1>6. \A q \in Click!Passes : pass[q].todo \subseteq Asks
    BY DEF DashTypes, PassTypes
  <1>7. AskedFit'
    BY <1>1, <1>3, <1>4, <1>5, <1>6, FitStep DEF Fewer
  <1>8. RecordNamed' /\ IdsNamed'
    <2>1. \A x \in record' : x \in record \/ (x \in pass[p].ids /\ x[2] # 0)
      BY <1>3 DEF Click!Recordable
    <2> QED BY <1>4, <1>5, <2>1, NameStep DEF Fewer
  <1>9. ASSUME NEW q \in Click!Passes
        PROVE  Alone(q)'
    <2>1. CASE q = p
      BY <2>1, <1>2, IdleOK DEF Alone, Early
    <2>2. CASE q # p
      <3>1. \A x \in record' : \E o \in Click!Passes : o # q /\ pass[o].pc # "idle"
        BY <1>3, <2>2
      <3>2. \A o \in Click!Passes : o # q /\ pass[o].pc = "idle" => pass'[o].pc = "idle"
        BY <1>2, IdleOK
      <3>3. Alone(q) /\ excuses <= excuses'
        BY <1>1, <1>3 DEF RecordInv
      <3> QED BY <1>1, <1>3, <1>5, <3>1, <3>2, <3>3, AloneKept
    <2> QED BY <2>1, <2>2
  <1> QED BY <1>7, <1>8, <1>9 DEF RecordInv

LEMMA RecordRecords ==
  ASSUME DashTypes, DashTypes', RecordInv, NEW p \in Click!Passes, RecordsIds(p)
  PROVE  RecordInv'
PROOF
  <1>1. ClickTypes /\ ClickTypes' /\ excuses \in Nat /\ excuses' \in Nat /\ PassOK(pass[p])
    BY DEF DashTypes
  <1>2. /\ \A q \in Click!Passes : q # p => pass'[q] = pass[q]
        /\ \E next : PassOK(next) /\ next.pc = "prune" /\ SameBut(pass[p], next) /\ pass'[p] = Click!Onward(next)
    BY RecordPass
  <1>b. PICK next : PassOK(next) /\ next.pc = "prune" /\ SameBut(pass[p], next) /\ pass'[p] = Click!Onward(next)
    BY <1>2
  <1>3. /\ click' = click /\ made' = made /\ gone' = gone /\ excuses' = excuses /\ pass[p].pc = "record" /\ late' = late
        /\ record' = IF Click!Writing(p) THEN Click!Recordable(pass[p].ids) ELSE record
    BY DEF RecordsIds
  <1>4. KeepBoards({}) /\ Renames /\ Grows
    BY <1>1, <1>3, BoardsStay
  <1>5. Fewer(next, pass'[p])
    BY <1>b, OnwardFewer
  <1>c. next.todo = pass[p].todo /\ next.ids = pass[p].ids /\ (next.beside <=> pass[p].beside)
    BY <1>b DEF SameBut
  <1>d. \A q \in Click!Passes : pass'[q].todo \subseteq pass[q].todo /\ pass'[q].ids \subseteq pass[q].ids
    BY <1>2, <1>5, <1>c DEF Fewer
  <1>6. \A q \in Click!Passes : pass[q].todo \subseteq Asks
    BY DEF DashTypes, PassTypes
  <1>7. AskedFit'
    BY <1>1, <1>3, <1>4, <1>d, <1>6, FitStep
  <1>8. RecordNamed' /\ IdsNamed'
    <2>1. \A x \in record' : x \in record \/ (x \in pass[p].ids /\ x[2] # 0)
      BY <1>3 DEF Click!Recordable
    <2> QED BY <1>4, <1>d, <2>1, NameStep
  <1>9. ASSUME NEW q \in Click!Passes
        PROVE  Alone(q)'
    <2>0. Alone(q) /\ Alone(p)
      BY DEF RecordInv
    <2>1. CASE q = p
      <3>1. pass'[p].beside => excuses' >= 1
        BY <1>3, <1>5, <1>c, <2>0, <2>1 DEF Fewer, Alone
      <3>2. pass'[p].pc \notin Early
        BY <1>b, <1>5, IdleOK DEF Fewer, Early
      <3>3. ASSUME pass'[p].pc # "idle", ~pass'[p].beside
            PROVE  /\ \A o \in Click!Passes : o # p => pass'[o].pc = "idle"
                   /\ \A r \in pass'[p].todo : r.op = "delete" /\ r.on = "boards" =>
                        /\ \A x \in pass'[p].ids : x[2] # r.id
                        /\ pass'[p].pc = "prune" => r.id \in gone' \/ \A x \in record' : x[2] # r.id
        <4>1. ~pass[p].beside /\ pass[p].pc # "idle"
          BY <1>3, <1>5, <1>c, <3>3 DEF Fewer
        <4>2. \A o \in Click!Passes : o # p => pass'[o].pc = "idle"
          BY <1>2, <2>0, <4>1 DEF Alone
        <4>3. ASSUME NEW r \in pass'[p].todo, r.op = "delete", r.on = "boards"
              PROVE  (\A x \in pass'[p].ids : x[2] # r.id) /\ \A x \in record' : x[2] # r.id
          <5>1. r \in pass[p].todo /\ \A x \in pass[p].ids : x[2] # r.id
            BY <1>d, <2>0, <4>1, <4>3 DEF Alone
          <5>2. pass[p].prune
            BY <1>1, <4>3, <5>1 DEF PassOK
          <5>3. record' = Click!Recordable(pass[p].ids)
            BY <1>3, <5>2 DEF Click!Writing
          <5> QED BY <1>d, <5>1, <5>3 DEF Click!Recordable
        <4> QED BY <4>2, <4>3
      <3> QED BY <2>1, <3>1, <3>2, <3>3 DEF Alone
    <2>2. CASE q # p
      <3>1. \A x \in record' : \E o \in Click!Passes : o # q /\ pass[o].pc # "idle"
        BY <1>3, <2>2
      <3>2. \A o \in Click!Passes : o # q /\ pass[o].pc = "idle" => pass'[o].pc = "idle"
        BY <1>2, <1>3
      <3>3. Fewer(pass[q], pass'[q])
        BY <1>2, <2>2 DEF Fewer, DashTypes, PassOK
      <3>4. excuses <= excuses' /\ gone \subseteq gone'
        BY <1>1, <1>3
      <3> QED BY <1>1, <2>0, <3>1, <3>2, <3>3, <3>4, AloneKept
    <2> QED BY <2>1, <2>2
  <1> QED BY <1>7, <1>8, <1>9 DEF RecordInv

LEMMA RecordRequests ==
  ASSUME DashTypes, DashTypes', RecordInv, NEW p \in Click!Passes, NEW r \in pass[p].todo, Requests(p, r)
  PROVE  RecordInv'
PROOF
  <1>1. ClickTypes /\ ClickTypes' /\ excuses \in Nat /\ excuses' \in Nat /\ PassOK(pass[p]) /\ pass[p].pc # "idle"
    BY IdleOK DEF DashTypes, PassOK
  <1>2. r \in Asks /\ Fits(r) /\ r.on \in Click!Kinds /\ r.id \in Nat
    BY RequestPass, KindOf DEF RecordInv, AskedFit
  <1>3. /\ Click!Possible(r) /\ Click!Applied(r) /\ Click!Deleted(p, r) /\ record' = record /\ late' = late /\ excuses' = excuses
        /\ pass[p].pc \in Sends /\ (r.op = "delete" => pass[p].pc # "board")
    BY DEF Requests
  <1>4. gone \subseteq gone' /\ (r.op = "delete" /\ r.on = "boards" /\ pass[p].beside => r.id \in gone')
    BY <1>3 DEF Click!Deleted
  <1>5. Renames /\ Grows /\ KeepBoards(Taken(r))
    BY <1>1, <1>2, <1>3, <1>4, RequestMoves
  <1>6. /\ \A q \in Click!Passes : q # p => pass'[q] = pass[q]
        /\ \/ pass'[p] = Click!Idle
           \/ \E id \in {0, Click!Numbered(r).id} :
                /\ id \in Nat /\ pass'[p] = Click!Onward(Click!Learnt(pass[p], r, id))
                /\ PassOK(Click!Learnt(pass[p], r, id)) /\ LearntNow(pass[p], Click!Learnt(pass[p], r, id), r, id)
                /\ Click!Learnt(pass[p], r, id).pc # "idle"
    BY RequestPass
  <1>7. pass'[p].todo \subseteq pass[p].todo /\ (pass'[p].beside => pass[p].beside)
        /\ (pass'[p].pc # "idle" => (pass[p].beside => pass'[p].beside)
                                   /\ (pass'[p].pc \in Early => pass[p].pc \in Early)
                                   /\ (pass'[p].pc = "prune" => pass[p].pc = "prune"))
        /\ \A x \in pass'[p].ids : x \in pass[p].ids \/ (r.on = "boards" /\ r.op = "create" /\ (x = <<r.doc.name, 0>> \/ x = <<r.doc.name, Click!Numbered(r).id>>))
    <2>1. CASE pass'[p] = Click!Idle
      BY <2>1, IdleOK
    <2>2. ASSUME NEW id \in {0, Click!Numbered(r).id},
                 pass'[p] = Click!Onward(Click!Learnt(pass[p], r, id)),
                 PassOK(Click!Learnt(pass[p], r, id)), LearntNow(pass[p], Click!Learnt(pass[p], r, id), r, id),
                 Click!Learnt(pass[p], r, id).pc # "idle"
          PROVE  /\ pass'[p].todo \subseteq pass[p].todo /\ (pass'[p].beside => pass[p].beside)
                 /\ (pass'[p].pc # "idle" => (pass[p].beside => pass'[p].beside)
                                   /\ (pass'[p].pc \in Early => pass[p].pc \in Early)
                                   /\ (pass'[p].pc = "prune" => pass[p].pc = "prune"))
                 /\ \A x \in pass'[p].ids : x \in pass[p].ids \/ (r.on = "boards" /\ r.op = "create" /\ (x = <<r.doc.name, 0>> \/ x = <<r.doc.name, Click!Numbered(r).id>>))
      <3> DEFINE next == Click!Learnt(pass[p], r, id)
      <3>1. Fewer(next, pass'[p])
        BY <2>2, OnwardFewer
      <3>2. /\ next.pc = pass[p].pc /\ next.todo = pass[p].todo \ {r} /\ (next.beside <=> pass[p].beside)
            /\ next.ids = pass[p].ids \cup (IF r.on = "boards" /\ r.op = "create" THEN {<<r.doc.name, id>>} ELSE {})
        BY <2>2 DEF LearntNow
      <3> HIDE DEF next
      <3>3. pass'[p].todo \subseteq pass[p].todo /\ (pass'[p].beside => pass[p].beside)
        BY <3>1, <3>2 DEF Fewer
      <3>4. pass'[p].pc # "idle" => (pass[p].beside => pass'[p].beside) /\ (pass'[p].pc \in Early => pass[p].pc \in Early)
                                   /\ (pass'[p].pc = "prune" => pass[p].pc = "prune")
        BY <3>1, <3>2 DEF Fewer
      <3>5. \A x \in pass'[p].ids : x \in pass[p].ids \/ (r.on = "boards" /\ r.op = "create" /\ (x = <<r.doc.name, 0>> \/ x = <<r.doc.name, Click!Numbered(r).id>>))
        BY <3>1, <3>2 DEF Fewer
      <3> QED BY <3>3, <3>4, <3>5
    <2> QED BY <1>6, <2>1, <2>2
  <1>8. \A q \in Click!Passes : pass'[q].todo \subseteq pass[q].todo /\ pass[q].todo \subseteq Asks
    BY <1>6, <1>7 DEF DashTypes, PassTypes
  <1>9. AskedFit'
    BY <1>1, <1>3, <1>5, <1>8, FitStep
  (* Whoever deletes a dashboard beside no other pass has not recorded it. *)
  <1>10. ASSUME r.op = "delete", r.on = "boards", r.id \notin gone'
         PROVE  /\ \A x \in record : x[2] # r.id \/ x[2] \in gone
                /\ \A q \in Click!Passes : \A x \in pass[q].ids : x[2] # r.id
    <2>1. ~pass[p].beside
      BY <1>4, <1>10
    <2>2. pass[p].pc = "prune"
      BY <1>1, <1>3, <1>10 DEF PassOK, Sends
    <2>3. Alone(p)
      BY DEF RecordInv
    <2>4. (\A x \in pass[p].ids : x[2] # r.id) /\ (r.id \in gone \/ \A x \in record : x[2] # r.id)
      BY <1>1, <1>10, <2>1, <2>2, <2>3 DEF Alone
    <2>5. \A q \in Click!Passes : q # p => pass[q] = Click!Idle
      BY <1>1, <2>1, <2>3 DEF Alone, DashTypes, PassOK
    <2> QED BY <2>4, <2>5, IdleOK
  <1>11. KeepBoards(Taken(r) \ gone')
    BY <1>5 DEF KeepBoards
  <1>13. ASSUME NEW x \in record'
         PROVE  x \in record /\ x[2] \notin Taken(r) \ gone'
    BY <1>3, <1>4, <1>10 DEF Taken
  <1>14. ASSUME r.on = "boards", r.op = "create", NEW x, x = <<r.doc.name, Click!Numbered(r).id>>
         PROVE  Named(x)'
    <2>1. PICK y \in Docs("boards") : y = Click!Numbered(r) /\ Adds("boards", y) /\ y.name = r.doc.name /\ y.tagged = r.doc.tagged
      BY <1>1, <1>2, <1>3, <1>14, Creating
    <2>2. y \in click'["boards"]
      BY <1>1, <2>1 DEF Adds, ClickTypes, Click!Kinds
    <2>3. y.tagged
      BY <1>2, <1>14, <2>1 DEF Fits
    <2>4. Live(x[2], x[1])'
      BY <1>14, <2>1, <2>2, <2>3 DEF Live
    <2> QED BY <2>4 DEF Named
  <1>15. ASSUME NEW q \in Click!Passes, NEW x \in pass'[q].ids
         PROVE  (x \in pass[q].ids /\ x[2] \notin Taken(r) \ gone') \/ x[2] = 0 \/ Named(x)'
    <2>1. \A y \in pass[q].ids : y[2] \notin Taken(r) \ gone'
      BY <1>10 DEF Taken
    <2>2. CASE x \in pass[q].ids
      BY <2>1, <2>2
    <2>3. CASE x \notin pass[q].ids
      <3>1. q = p /\ r.on = "boards" /\ r.op = "create" /\ (x = <<r.doc.name, 0>> \/ x = <<r.doc.name, Click!Numbered(r).id>>)
        BY <1>6, <1>7, <2>3
      <3>2. x = <<r.doc.name, 0>> => x[2] = 0
        OBVIOUS
      <3> QED BY <3>1, <3>2, <1>14
    <2> QED BY <2>2, <2>3
  <1>16. RecordNamed' /\ IdsNamed'
    BY <1>5, <1>11, <1>13, <1>15, NameStep
  <1>17. ASSUME NEW q \in Click!Passes
         PROVE  Alone(q)'
    <2>0. Alone(q) /\ Alone(p)
      BY DEF RecordInv
    <2>1. CASE q = p
      <3>1. pass'[p].beside => excuses' >= 1
        BY <1>3, <1>7, <2>0 DEF Alone
      <3>2. pass'[p].pc \in Early => pass'[p].ids = {}
        <4>1. ASSUME pass'[p].pc \in Early, NEW x \in pass'[p].ids
              PROVE  FALSE
          <5>1. pass[p].pc \in Early /\ pass[p].pc = "hook"
            BY <1>3, <1>7, <4>1 DEF Early, Sends
          <5>2. pass[p].ids = {} /\ r.on = "hooks"
            BY <1>1, <5>1, <2>0 DEF Alone, PassOK
          <5> QED BY <1>7, <4>1, <5>2
        <4> QED BY <4>1
      <3>3. ASSUME pass'[p].pc # "idle", ~pass'[p].beside
            PROVE  /\ \A o \in Click!Passes : o # p => pass'[o].pc = "idle"
                   /\ \A s \in pass'[p].todo : s.op = "delete" /\ s.on = "boards" =>
                        /\ \A x \in pass'[p].ids : x[2] # s.id
                        /\ pass'[p].pc = "prune" => s.id \in gone' \/ \A x \in record' : x[2] # s.id
        <4>1. ~pass[p].beside
          BY <1>7, <3>3
        <4>2. \A o \in Click!Passes : o # p => pass'[o].pc = "idle"
          BY <1>1, <1>6, <2>0, <4>1 DEF Alone
        <4>3. ASSUME NEW s \in pass'[p].todo, s.op = "delete", s.on = "boards"
              PROVE  /\ \A x \in pass'[p].ids : x[2] # s.id
                     /\ pass'[p].pc = "prune" => s.id \in gone' \/ \A x \in record' : x[2] # s.id
          <5>1. s \in pass[p].todo
            BY <1>7, <4>3
          <5>2. (\A x \in pass[p].ids : x[2] # s.id) /\ (pass[p].pc = "prune" => s.id \in gone \/ \A x \in record : x[2] # s.id)
            BY <1>1, <2>0, <4>1, <4>3, <5>1 DEF Alone
          <5>3. s.id >= 1 /\ s.id <= made[s.on] /\ s.id \in Nat /\ made[s.on] \in Nat
            <6>1. Fits(s) /\ s \in Asks
              BY <1>8, <5>1 DEF RecordInv, AskedFit
            <6>2. s.id \in Nat /\ s.on \in Click!Kinds
              BY <6>1, KindOf
            <6> QED BY <1>1, <4>3, <6>1, <6>2 DEF Fits, ClickTypes
          <5>4. r.op = "create" => Click!Numbered(r).id = made[r.on] + 1
            BY <1>1, <1>2, NumberedId
          <5>5. \A x \in pass'[p].ids : x[2] # s.id
            <6>1. ASSUME NEW x \in pass'[p].ids, x \notin pass[p].ids
                  PROVE  x[2] # s.id
              <7>1. r.on = "boards" /\ r.op = "create" /\ (x = <<r.doc.name, 0>> \/ x = <<r.doc.name, Click!Numbered(r).id>>)
                BY <1>7, <6>1
              <7>2. x[2] = 0 \/ x[2] = made[s.on] + 1
                BY <4>3, <5>4, <7>1
              <7> QED BY <5>3, <7>2
            <6> QED BY <5>2, <6>1
          <5> QED BY <1>3, <1>4, <1>7, <3>3, <5>2, <5>5
        <4> QED BY <4>2, <4>3
      <3> QED BY <2>1, <3>1, <3>2, <3>3 DEF Alone
    <2>2. CASE q # p
      <3>1. Fewer(pass[q], pass'[q])
        BY <1>6, <2>2 DEF Fewer, DashTypes, PassOK
      <3>2. \A o \in Click!Passes : o # q /\ pass[o].pc = "idle" => pass'[o].pc = "idle"
        BY <1>1, <1>6
      <3>3. excuses <= excuses' /\ \A x \in record' : x \in record
        BY <1>1, <1>3
      <3> QED BY <1>1, <1>4, <2>0, <3>1, <3>2, <3>3, AloneKept
    <2> QED BY <2>1, <2>2
  <1> QED BY <1>9, <1>16, <1>17 DEF RecordInv

LEMMA PlannedFits ==
  ASSUME ClickTypes, NEW on \in Click!Kinds, NEW W, NEW prune, NEW steps, Plans(on, W, Click!Ours(on), prune, steps),
         on = "boards" => \A w \in W : w.tagged,
         NEW r \in steps, r.op # "keep"
  PROVE  Fits(r) /\ r.on = on
PROOF
  <1>1. r.on = on /\ r.id \in Nat
    BY DEF Plans
  <1>2. r.op \in {"create", "update", "delete"}
    BY DEF Plans, Ops
  <1>3. \A x \in Click!Ours(on) : x \in click[on] /\ x.id >= 1 /\ x.id <= made[on] /\ (on = "boards" => x.tagged)
    BY OursOf DEF ClickTypes, Click!Tagged
  <1>4. CASE r.op = "create"
    <2>1. r.id = 0 /\ r.doc \in W
      BY <1>4 DEF Plans
    <2> QED BY <1>1, <1>4, <2>1 DEF Fits
  <1>5. CASE r.op = "update"
    <2>1. r.doc \in W /\ \E x \in Click!Ours(on) : x.id = r.id /\ x.name = r.doc.name
      BY <1>5 DEF Plans
    <2>2. PICK x \in Click!Ours(on) : x.id = r.id /\ x.name = r.doc.name
      BY <2>1
    <2>3. \A b \in click[on] : b.id = r.id => b = x
      BY <1>3, <2>2 DEF ClickTypes
    <2> QED BY <1>1, <1>3, <1>5, <2>1, <2>2, <2>3 DEF Fits
  <1>6. CASE r.op = "delete"
    <2>1. r.doc \in Click!Ours(on) /\ r.id = r.doc.id
      BY <1>6 DEF Plans
    <2> QED BY <1>1, <1>3, <1>6, <2>1 DEF Fits
  <1> QED BY <1>2, <1>1, <1>4, <1>5, <1>6

(* The dashboards a plan knows are there, and none that it deletes.        *)
LEMMA KnownLive ==
  ASSUME ClickTypes, NEW W, NEW prune, NEW steps, Plans("boards", W, Click!Ours("boards"), prune, steps)
  PROVE  \A x \in Click!Known(steps, "boards") :
           /\ Live(x[2], x[1])
           /\ \A r \in steps : r.op = "delete" => r.id # x[2]
PROOF
  <1>1. ASSUME NEW x \in Click!Known(steps, "boards")
        PROVE  /\ Live(x[2], x[1])
               /\ \A r \in steps : r.op = "delete" => r.id # x[2]
    <2>1. PICK r \in steps : r.op \in {"keep", "update"} /\ x = <<r.doc.name, r.id>>
      BY DEF Click!Known
    <2>2. x[1] = r.doc.name /\ x[2] = r.id
      BY <2>1
    <2>3. \E y \in Click!Ours("boards") : y.id = r.id /\ y.name = r.doc.name
      BY <2>1 DEF Plans
    <2>4. r.doc.name \in NamesOf(W)
      BY <2>1 DEF Plans, NamesOf
    <2>5. PICK y \in Click!Ours("boards") : y.id = r.id /\ y.name = r.doc.name
      BY <2>3
    <2>6. y \in click["boards"] /\ y.tagged
      BY DEF Click!Ours, Click!Tagged
    <2>7. Live(x[2], x[1])
      BY <2>2, <2>5, <2>6 DEF Live
    <2>8. ASSUME NEW s \in steps, s.op = "delete", s.id = r.id
          PROVE  FALSE
      <3>1. s.doc \in Click!Ours("boards") /\ s.id = s.doc.id /\ s.doc.name \notin NamesOf(W)
        BY <2>8 DEF Plans
      <3>2. s.doc \in click["boards"]
        BY <3>1 DEF Click!Ours, Click!Tagged
      <3>3. s.doc = y
        BY <2>5, <2>6, <2>8, <3>1, <3>2 DEF ClickTypes, Click!Kinds
      <3> QED BY <2>4, <2>5, <3>1, <3>3
    <2> QED BY <2>2, <2>7, <2>8
  <1> QED BY <1>1

LEMMA RecordLists ==
  ASSUME DashTypes, DashTypes', RecordInv, NEW p \in Click!Passes, NEW on \in Click!Kinds, NEW W, Lists(p, on, W),
         on = "boards" => \A w \in W : w.tagged
  PROVE  RecordInv'
PROOF
  <1>1. ClickTypes /\ ClickTypes' /\ excuses \in Nat /\ excuses' \in Nat /\ PassOK(pass[p])
    BY DEF DashTypes
  <1>2. /\ \A q \in Click!Passes : q # p => pass'[q] = pass[q]
        /\ \E steps, next : \E hook \in Nat :
             /\ Plans(on, W, Click!Ours(on), pass[p].prune, steps) /\ Hooked(p, on, hook)
             /\ PassOK(next) /\ ListedNow(pass[p], next, StageOf(on), on, steps, hook)
             /\ pass'[p] = Click!Onward(next)
    BY ListPass
  <1>a. PICK steps, next : \E hook \in Nat :
             /\ Plans(on, W, Click!Ours(on), pass[p].prune, steps)
             /\ PassOK(next) /\ ListedNow(pass[p], next, StageOf(on), on, steps, hook)
             /\ pass'[p] = Click!Onward(next)
    BY <1>2
  <1>3. /\ click' = click /\ made' = made /\ gone' = gone /\ excuses' = excuses /\ record' = record /\ late' = late
        /\ pass[p].pc = StageBefore(on)
    BY DEF Lists
  <1>4. KeepBoards({}) /\ Renames /\ Grows
    BY <1>1, <1>3, BoardsStay
  <1>5. /\ next.pc = StageOf(on) /\ next.todo = {r \in steps : r.op # "keep"} /\ (next.beside <=> pass[p].beside)
        /\ next.ids = pass[p].ids \cup (IF on = "boards" THEN Click!Known(steps, "boards") ELSE {})
    BY <1>a DEF ListedNow
  <1>6. Fewer(next, pass'[p]) /\ pass[p].pc # "idle" /\ next.pc # "idle"
    <2>1. next.pc # "idle" /\ pass[p].pc # "idle"
      BY <1>3, <1>5 DEF StageOf, StageBefore
    <2> QED BY <1>a, <2>1, OnwardFewer
  <1>7. \A r \in next.todo : Fits(r) /\ r.on = on
    <2>1. \A r \in steps : r.op # "keep" => Fits(r) /\ r.on = on
      BY <1>1, <1>a, PlannedFits
    <2> QED BY <1>5, <2>1
  <1>8. AskedFit'
    <2>1. \A q \in Click!Passes : pass'[q].todo \subseteq Asks
      BY DEF DashTypes, PassTypes
    <2>2. \A q \in Click!Passes : \A r \in pass'[q].todo : r \in pass[q].todo \/ Fits(r)
      BY <1>2, <1>6, <1>7 DEF Fewer
    <2> QED BY <1>1, <1>3, <1>4, <2>1, <2>2, FitStep
  <1>9. on = "boards" => \A x \in Click!Known(steps, "boards") : Live(x[2], x[1]) /\ \A r \in steps : r.op = "delete" => r.id # x[2]
    BY <1>1, <1>a, KnownLive
  <1>10. RecordNamed' /\ IdsNamed'
    <2>1. \A x : Live(x[2], x[1]) => Named(x)'
      BY <1>3 DEF Live, Named
    <2>2. ASSUME NEW q \in Click!Passes, NEW x \in pass'[q].ids
          PROVE  x \in pass[q].ids \/ Named(x)'
      BY <1>2, <1>5, <1>6, <1>9, <2>1 DEF Fewer
    <2> QED BY <1>3, <1>4, <2>2, NameStep
  <1>11. ASSUME NEW q \in Click!Passes
         PROVE  Alone(q)'
    <2>0. Alone(q) /\ Alone(p)
      BY DEF RecordInv
    <2>1. CASE q = p
      <3>1. pass'[p].beside => excuses' >= 1
        BY <1>3, <1>5, <1>6, <2>0 DEF Fewer, Alone
      <3>2. pass'[p].pc \in Early => pass'[p].ids = {}
        <4>1. ASSUME pass'[p].pc \in Early
              PROVE  on = "hooks" /\ pass[p].pc \in Early
          BY <1>3, <1>5, <1>6, <4>1, IdleOK DEF Fewer, Early, StageOf, StageBefore, Click!Kinds
        <4> QED BY <1>5, <1>6, <2>0, <4>1 DEF Fewer, Alone
      <3>3. ASSUME pass'[p].pc # "idle", ~pass'[p].beside
            PROVE  /\ \A o \in Click!Passes : o # p => pass'[o].pc = "idle"
                   /\ \A s \in pass'[p].todo : s.op = "delete" /\ s.on = "boards" =>
                        /\ \A x \in pass'[p].ids : x[2] # s.id
                        /\ pass'[p].pc = "prune" => s.id \in gone' \/ \A x \in record' : x[2] # s.id
        <4>1. ~pass[p].beside
          BY <1>5, <1>6, <3>3 DEF Fewer
        <4>2. \A o \in Click!Passes : o # p => pass'[o].pc = "idle"
          BY <1>6, <1>2, <2>0, <4>1 DEF Alone
        <4>3. ASSUME NEW s \in pass'[p].todo, s.op = "delete", s.on = "boards"
              PROVE  /\ \A x \in pass'[p].ids : x[2] # s.id
                     /\ pass'[p].pc # "prune"
          <5>1. on = "boards" /\ s \in steps
            BY <1>5, <1>6, <1>7, <4>3 DEF Fewer
          <5>2. pass[p].ids = {}
            BY <1>3, <2>0, <5>1 DEF Alone, Early, StageBefore
          <5>3. pass'[p].ids \subseteq Click!Known(steps, "boards")
            BY <1>5, <1>6, <5>1, <5>2 DEF Fewer
          <5>4. pass'[p].pc # "prune"
            BY <1>5, <1>6, <5>1, IdleOK DEF Fewer, StageOf
          <5> QED BY <1>9, <4>3, <5>1, <5>3, <5>4
        <4> QED BY <4>2, <4>3
      <3> QED BY <2>1, <3>1, <3>2, <3>3 DEF Alone
    <2>2. CASE q # p
      <3>1. Fewer(pass[q], pass'[q])
        BY <1>2, <2>2 DEF Fewer, DashTypes, PassOK
      <3>2. \A o \in Click!Passes : o # q /\ pass[o].pc = "idle" => pass'[o].pc = "idle"
        BY <1>2, <1>6
      <3>3. excuses <= excuses' /\ gone \subseteq gone' /\ \A x \in record' : x \in record
        BY <1>1, <1>3
      <3> QED BY <1>1, <2>0, <3>1, <3>2, <3>3, AloneKept
    <2> QED BY <2>1, <2>2
  <1> QED BY <1>8, <1>10, <1>11 DEF RecordInv

(* What is not a pass's step leaves the passes less to do.                 *)
LEMMA DisturbedFewer ==
  ASSUME DashTypes, Click!Disturbed
  PROVE  /\ \A q \in Click!Passes : Fewer(pass[q], pass'[q])
         /\ \A q \in Click!Passes : pass'[q].todo = pass[q].todo /\ pass'[q].ids = pass[q].ids
         /\ \A q \in Click!Passes : pass[q].pc = "idle" => pass'[q].pc = "idle"
PROOF
  <1>1. PassesOK
    BY DEF DashTypes, PassesOK
  <1>2. /\ PassesOK'
        /\ \A q \in Click!Passes : /\ SameWork(pass[q], pass'[q]) /\ pass'[q].beside = pass[q].beside
                                   /\ pass[q].pc # "idle" => pass'[q].disturbed
    BY <1>1, DisturbedPasses
  <1>3. ASSUME NEW q \in Click!Passes
        PROVE  /\ Fewer(pass[q], pass'[q])
               /\ pass'[q].todo = pass[q].todo /\ pass'[q].ids = pass[q].ids
               /\ pass[q].pc = "idle" => pass'[q].pc = "idle"
    <2>1. PassOK(pass[q]) /\ PassOK(pass'[q])
      BY <1>1, <1>2 DEF PassesOK
    <2>2. SameWork(pass[q], pass'[q]) /\ pass'[q].beside = pass[q].beside
      BY <1>2
    <2>3. Fewer(pass[q], pass'[q])
      BY <2>1, <2>2, SameFewer
    <2> QED BY <2>2, <2>3 DEF SameWork
  <1> QED BY <1>3

LEMMA RecordStays ==
  ASSUME DashTypes, DashTypes', RecordInv, Click!Disturbed, Renames, Grows, KeepBoards({}),
         excuses <= excuses', late' \subseteq late,
         \A x \in record' : x \in record \/ x[2] \in gone'
  PROVE  RecordInv'
PROOF
  <1>1. ClickTypes /\ ClickTypes' /\ excuses \in Nat /\ excuses' \in Nat
    BY DEF DashTypes
  <1>2. /\ \A q \in Click!Passes : Fewer(pass[q], pass'[q])
        /\ \A q \in Click!Passes : pass'[q].todo = pass[q].todo /\ pass'[q].ids = pass[q].ids
        /\ \A q \in Click!Passes : pass[q].pc = "idle" => pass'[q].pc = "idle"
    BY DisturbedFewer
  <1>3. \A q \in Click!Passes : pass[q].todo \subseteq Asks
    BY DEF DashTypes, PassTypes
  <1>4. AskedFit'
    BY <1>1, <1>2, <1>3, FitStep
  <1>5. \A x \in record' : x \in record \/ Named(x)'
    BY DEF Named
  <1>6. RecordNamed' /\ IdsNamed'
    BY <1>2, <1>5, NameStep
  <1>7. \A q \in Click!Passes : Alone(q)'
    <2>1. gone \subseteq gone' /\ \A q \in Click!Passes : Alone(q)
      BY DEF Grows, RecordInv
    <2> QED BY <1>1, <1>2, <2>1, AloneKept
  <1> QED BY <1>4, <1>6, <1>7 DEF RecordInv

LEMMA RecordOthers ==
  ASSUME DashTypes, DashTypes', RecordInv, OtherStep
  PROVE  RecordInv'
PROOF
  <1>1. ClickTypes /\ ClickTypes' /\ excuses \in Nat /\ excuses' \in Nat
    BY DEF DashTypes
  <1>2. ASSUME NEW r \in late, LateRecord(r)
        PROVE  RecordInv'
    <2>1. click' = click /\ made' = made /\ gone \subseteq gone' /\ excuses' = excuses /\ late' \subseteq late /\ Click!Disturbed
      BY <1>2 DEF LateRecord
    <2>2. \A x \in record' : x[2] \in gone'
      BY <1>2 DEF LateRecord
    <2>3. KeepBoards({}) /\ Renames /\ Grows
      BY <1>1, <2>1, BoardsStay
    <2> QED BY <1>1, <2>1, <2>2, <2>3, RecordStays
  <1>3. ASSUME NEW r \in late, LateRequest(r)
        PROVE  RecordInv'
    <2>1. Fits(r)
      BY <1>3 DEF LateRequest, RecordInv, AskedFit
    <2>2. KeepBoards({}) /\ Renames /\ Grows
      BY <1>1, <1>3, <2>1, LateMoves
    <2>3. record' = record /\ late' \subseteq late /\ Click!Disturbed /\ excuses <= excuses'
      BY <1>1, <1>3 DEF LateRequest
    <2> QED BY <2>2, <2>3, RecordStays
  <1>4. ASSUME NEW on \in Click!Kinds, NEW x \in click[on], PersonActs(on, x)
        PROVE  RecordInv'
    <2>1. KeepBoards({}) /\ Renames /\ Grows
      BY <1>1, <1>4, PersonMoves
    <2>2. record' = record /\ late' = late /\ Click!Disturbed
      BY <1>4 DEF PersonActs
    <2>3. excuses <= excuses'
      BY <1>1, <1>4 DEF PersonActs, Edits
    <2> QED BY <2>1, <2>2, <2>3, RecordStays
  <1>5. CASE Outside
    <2>1. click' = click /\ made' = made /\ gone' = gone /\ excuses' = excuses /\ late' = late /\ record' = record /\ Click!Disturbed
      BY <1>5 DEF Outside
    <2>3. KeepBoards({}) /\ Renames /\ Grows
      BY <1>1, <2>1, BoardsStay
    <2> QED BY <1>1, <2>1, <2>3, RecordStays
  <1>6. CASE Stands
    <2>1. /\ click' = click /\ made' = made /\ gone' = gone /\ excuses' = excuses /\ late' = late /\ record' = record
          /\ pass' = pass
      BY <1>6 DEF Stands
    <2>2. \A r : Fits(r) => Fits(r)'
      BY <2>1 DEF Fits
    <2>3. \A x : Named(x) => Named(x)'
      BY <2>1 DEF Named, Live
    <2>4. \A q \in Click!Passes : Alone(q) => Alone(q)'
      BY <2>1 DEF Alone
    <2> QED BY <2>1, <2>2, <2>3, <2>4 DEF RecordInv, AskedFit, RecordNamed, IdsNamed
  <1> QED BY <1>2, <1>3, <1>4, <1>5, <1>6 DEF OtherStep

LEMMA RecordStep ==
  ASSUME DashTypes, RecordInv, [Click!Next]_(Click!vars)
  PROVE  RecordInv'
PROOF
  <1>1. DashTypes'
    BY TypesStep
  <1>2. CASE OtherStep
    BY <1>1, <1>2, RecordOthers
  <1>3. ASSUME NEW p \in Click!Passes, PassStep(p)
        PROVE  RecordInv'
    <2>1. CASE StartsPass(p)
      BY <1>1, <2>1, RecordStarts
    <2>2. CASE GivesUp(p)
      BY <1>1, <2>2, RecordFails
    <2>3. CASE RecordsIds(p)
      BY <1>1, <2>3, RecordRecords
    <2>4. ASSUME NEW r \in pass[p].todo, Requests(p, r)
          PROVE  RecordInv'
      BY <1>1, <2>4, RecordRequests
    <2>5. ASSUME NEW on \in Click!Kinds, NEW W, Lists(p, on, W), on = "boards" => \A w \in W : w.tagged
          PROVE  RecordInv'
      BY <1>1, <2>5, RecordLists
    <2>6. \A w \in WantedBoards(pass[p].apps) : w.tagged
      BY DEF WantedBoards, Click!Definition
    <2> QED BY <1>3, <2>1, <2>2, <2>3, <2>4, <2>5, <2>6 DEF PassStep, Click!Kinds
  <1> QED BY <1>2, <1>3, NextShape

LEMMA RecordInit ==
  ASSUME Click!Init
  PROVE  RecordInv
PROOF
  <1>1. record = {} /\ late = {} /\ pass = [p \in Click!Passes |-> Click!Idle]
    BY DEF Click!Init
  <1>2. \A p \in Click!Passes : pass[p] = Click!Idle
    BY <1>1
  <1>3. \A p \in Click!Passes : Alone(p)
    BY <1>2, IdleOK DEF Alone, Early
  <1> QED BY <1>1, <1>2, <1>3, IdleOK DEF RecordInv, AskedFit, RecordNamed, IdsNamed

(* What the console's record names is a dashboard ClickStack has, of that  *)
(* app, unless it is known to be gone.                                     *)
THEOREM RecordNames == DashboardSpec => []RecordNamesLive
PROOF
  <1>1. Click!Init => DashTypes /\ RecordInv
    BY TypesInit, RecordInit
  <1>2. DashTypes /\ RecordInv /\ [Click!Next]_(Click!vars) => (DashTypes /\ RecordInv)'
    BY TypesStep, RecordStep
  <1>3. DashTypes /\ RecordInv => RecordNamesLive
    BY DEF RecordInv, RecordNamed, Named, Live, RecordNamesLive, Click!RecordNamesLive, Click!Ours, Click!Tagged
  <1> QED BY <1>1, <1>2, <1>3, PTL DEF DashboardSpec, Click!Spec

-----------------------------------------------------------------------------
(* Objects of one name.                                                    *)

(* What there is of a name, and what the passes are about to make of it: a *)
(* pass that updates one may bring back a name it had.                     *)
IsClaim(on, n, t) ==
  \/ \E x \in Click!Ours(on) : x.name = n /\ t = <<x.id, "there">>
  \/ \E p \in Click!Passes : \E r \in pass[p].todo :
       /\ r.on = on /\ r.doc.name = n
       /\ (r.op = "update" /\ t = <<r.id, "there">>) \/ (r.op = "create" /\ t = <<0, p>>)
Claims(on, n) == {t \in Nat \X {"there", "scheduled", "byHand"} : IsClaim(on, n, t)}

Few(C, k) == IsFiniteSet(C) /\ Cardinality(C) <= k
ClaimsFew == \A on \in Click!Kinds : \A n : Few(Claims(on, n), 1 + excuses)

LEMMA FewSubset ==
  ASSUME NEW C, NEW D, NEW k \in Nat, NEW m \in Nat, k <= m, Few(C, k), \A t \in D : t \in C
  PROVE  Few(D, m)
PROOF
  <1>1. IsFiniteSet(C) /\ Cardinality(C) \in Nat /\ Cardinality(C) <= k
    BY FS_CardinalityType DEF Few
  <1>2. D \in SUBSET C
    OBVIOUS
  <1>3. IsFiniteSet(D) /\ Cardinality(D) <= Cardinality(C) /\ Cardinality(D) \in Nat
    BY <1>1, <1>2, FS_Subset, FS_CardinalityType
  <1> QED BY <1>1, <1>3 DEF Few

LEMMA FewPlus ==
  ASSUME NEW C, NEW D, NEW b, NEW k \in Nat, NEW m \in Nat, k + 1 <= m, Few(C, k), \A t \in D : t \in C \/ t = b
  PROVE  Few(D, m)
PROOF
  <1>1. IsFiniteSet(C) /\ Cardinality(C) \in Nat /\ Cardinality(C) <= k
    BY FS_CardinalityType DEF Few
  <1>2. IsFiniteSet(C \cup {b}) /\ Cardinality(C \cup {b}) <= k + 1 /\ Cardinality(C \cup {b}) \in Nat
    <2>1. /\ IsFiniteSet(C \cup {b})
          /\ Cardinality(C \cup {b}) = IF b \in C THEN Cardinality(C) ELSE Cardinality(C) + 1
      BY <1>1, FS_AddElement
    <2>2. Cardinality(C \cup {b}) \in Nat
      BY <2>1, FS_CardinalityType
    <2> QED BY <1>1, <2>1, <2>2
  <1>3. Few(C \cup {b}, k + 1)
    BY <1>2 DEF Few
  <1>4. \A t \in D : t \in C \cup {b}
    OBVIOUS
  <1> QED BY <1>3, <1>4, FewSubset

LEMMA FewSwap ==
  ASSUME NEW C, NEW D, NEW a \in C, NEW b, NEW k \in Nat, Few(C, k), \A t \in D : (t \in C /\ t # a) \/ t = b
  PROVE  Few(D, k)
PROOF
  <1>1. IsFiniteSet(C) /\ Cardinality(C) \in Nat /\ Cardinality(C) <= k
    BY FS_CardinalityType DEF Few
  <1>2. IsFiniteSet(C \ {a}) /\ Cardinality(C \ {a}) = Cardinality(C) - 1 /\ Cardinality(C \ {a}) \in Nat
    BY <1>1, FS_RemoveElement, FS_CardinalityType
  <1>3. Few(C \ {a}, k - 1) /\ k - 1 \in Nat
    BY <1>1, <1>2 DEF Few
  <1>4. \A t \in D : t \in C \ {a} \/ t = b
    OBVIOUS
  <1>5. (k - 1) + 1 <= k
    OBVIOUS
  <1> QED BY <1>3, <1>4, <1>5, FewPlus

LEMMA FewNone ==
  ASSUME NEW k \in Nat
  PROVE  Few({}, k)
PROOF
  BY FS_EmptySet DEF Few

LEMMA IsClaims ==
  ASSUME ClickTypes, PassesOK, NEW on \in Click!Kinds, NEW n, NEW t, IsClaim(on, n, t)
  PROVE  t \in Claims(on, n)
PROOF
  <1>1. \A x \in Click!Ours(on) : x.id \in Nat
    BY OursOf DEF Docs, Boards, Alerts, HookDocs
  <1>2. \A p \in Click!Passes : \A r \in pass[p].todo : r.id \in Nat
    BY KindOf DEF PassesOK, PassTypes
  <1>3. t \in Nat \X {"there", "scheduled", "byHand"}
    BY <1>1, <1>2, PassKinds DEF IsClaim
  <1> QED BY <1>3 DEF Claims

(* The objects of a name are among what claims it.                         *)
LEMMA ShownFew ==
  ASSUME ClickTypes, PassesOK, excuses \in Nat, ClaimsFew, NEW on \in Click!Kinds, NEW n
  PROVE  Cardinality({y \in Click!Ours(on) : y.name = n}) <= 1 + excuses
PROOF
  <1> DEFINE S == {y \in Click!Ours(on) : y.name = n}
             f == [y \in S |-> <<y.id, "there">>]
             C == Claims(on, n)
  <1>1. \A y \in S : f[y] \in C
    <2>1. \A y \in S : IsClaim(on, n, <<y.id, "there">>)
      BY DEF IsClaim
    <2>2. \A y \in S : <<y.id, "there">> \in C
      BY <2>1, IsClaims
    <2> QED BY <2>2
  <1>2. \A x, y \in S : f[x] = f[y] => x = y
    <2>1. \A x, y \in S : x.id = y.id => x = y
      BY OursOf DEF ClickTypes
    <2> QED BY <2>1
  <1>3. f \in [S -> C]
    BY <1>1
  <1>4. IsFiniteSet(C) /\ Cardinality(C) <= 1 + excuses
    BY DEF ClaimsFew, Few
  <1> HIDE DEF f, S, C
  <1>5. f \in Injection(S, C)
    BY <1>2, <1>3 DEF Injection, IsInjective
  <1>6. IsFiniteSet(S) /\ Cardinality(S) <= Cardinality(C)
    BY <1>4, <1>5, FS_Injection
  <1>7. Cardinality(S) \in Nat /\ Cardinality(C) \in Nat
    BY <1>4, <1>6, FS_CardinalityType
  <1> QED BY <1>4, <1>6, <1>7 DEF S

LEMMA FewStay ==
  ASSUME ClickTypes, PassesOK, excuses \in Nat, excuses' \in Nat, excuses <= excuses', ClaimsFew,
         \A on \in Click!Kinds : \A n, t : IsClaim(on, n, t)' => IsClaim(on, n, t)
  PROVE  ClaimsFew'
PROOF
  <1>1. ASSUME NEW on \in Click!Kinds, NEW n
        PROVE  Few(Claims(on, n), 1 + excuses)'
    <2>1. \A t \in Claims(on, n)' : t \in Claims(on, n)
      BY IsClaims DEF Claims
    <2>2. Few(Claims(on, n), 1 + excuses)
      BY DEF ClaimsFew
    <2>3. Few(Claims(on, n)', 1 + excuses')
      BY <2>1, <2>2, FewSubset
    <2> QED BY <2>3 DEF Few
  <1> QED BY <1>1 DEF ClaimsFew

LEMMA FewGrow ==
  ASSUME ClickTypes, PassesOK, excuses \in Nat, excuses' = excuses + 1, ClaimsFew, NEW b,
         \A on \in Click!Kinds : \A n, t : IsClaim(on, n, t)' => IsClaim(on, n, t) \/ t = b
  PROVE  ClaimsFew'
PROOF
  <1>1. ASSUME NEW on \in Click!Kinds, NEW n
        PROVE  Few(Claims(on, n), 1 + excuses)'
    <2>1. \A t \in Claims(on, n)' : t \in Claims(on, n) \/ t = b
      BY IsClaims DEF Claims
    <2>2. Few(Claims(on, n), 1 + excuses)
      BY DEF ClaimsFew
    <2>3. 1 + excuses \in Nat /\ 1 + excuses' \in Nat /\ (1 + excuses) + 1 <= 1 + excuses'
      OBVIOUS
    <2>4. Few(Claims(on, n)', 1 + excuses')
      BY <2>1, <2>2, <2>3, FewPlus
    <2> QED BY <2>4 DEF Few
  <1> QED BY <1>1 DEF ClaimsFew

LEMMA ClaimsBefore ==
  ASSUME NEW on \in Click!Kinds, NEW id, NEW n, NEW t, IsClaim(on, n, t)',
         \A p \in Click!Passes : pass'[p].todo \subseteq pass[p].todo,
         \A x \in Click!Ours(on)' : x \in Click!Ours(on) \/ x.id = id
  PROVE  IsClaim(on, n, t) \/ (t = <<id, "there">> /\ \E x \in Click!Ours(on)' : x.id = id /\ x.name = n)
PROOF
  <1>1. CASE \E x \in Click!Ours(on)' : x.name = n /\ t = <<x.id, "there">>
    BY <1>1 DEF IsClaim
  <1>2. CASE \E p \in Click!Passes : \E r \in pass'[p].todo :
               /\ r.on = on /\ r.doc.name = n
               /\ (r.op = "update" /\ t = <<r.id, "there">>) \/ (r.op = "create" /\ t = <<0, p>>)
    BY <1>2 DEF IsClaim
  <1> QED BY <1>1, <1>2 DEF IsClaim

LEMMA OursMove ==
  ASSUME ClickTypes, NEW on \in Click!Kinds
  PROVE  /\ \A y : Adds(on, y) \/ Replaces(on, y) =>
              \A o \in Click!Kinds : \A x \in Click!Ours(o)' : x \in Click!Ours(o) \/ (o = on /\ x = y /\ x \in click'[on])
         /\ \A id : Removes(on, id) => \A o \in Click!Kinds : \A x \in Click!Ours(o)' : x \in Click!Ours(o)
PROOF
  <1>1. click = [k \in Click!Kinds |-> click[k]]
    BY DEF ClickTypes
  <1>2. ASSUME NEW y, Adds(on, y) \/ Replaces(on, y), NEW o \in Click!Kinds, NEW x \in Click!Ours(o)'
        PROVE  x \in Click!Ours(o) \/ (o = on /\ x = y /\ x \in click'[on])
    <2>1. o # on => click'[o] = click[o]
      BY <1>1, <1>2 DEF Adds, Replaces
    <2>2. click'[on] \subseteq click[on] \cup {y}
      BY <1>1, <1>2 DEF Adds, Replaces
    <2> QED BY <2>1, <2>2 DEF Click!Ours, Click!Tagged
  <1>3. ASSUME NEW id, Removes(on, id), NEW o \in Click!Kinds, NEW x \in Click!Ours(o)'
        PROVE  x \in Click!Ours(o)
    <2>1. click'[o] \subseteq click[o]
      BY <1>1, <1>3 DEF Removes
    <2> QED BY <2>1 DEF Click!Ours, Click!Tagged
  <1> QED BY <1>2, <1>3

(* Steps that change nothing in ClickStack claim no more.                  *)
LEMMA ClaimsSame ==
  ASSUME ClickTypes, PassesOK, excuses \in Nat, excuses' \in Nat, excuses <= excuses', ClaimsFew, click' = click,
         \A p \in Click!Passes : pass'[p].todo \subseteq pass[p].todo
  PROVE  ClaimsFew'
PROOF
  <1>1. \A on \in Click!Kinds : Click!Ours(on)' = Click!Ours(on)
    BY DEF Click!Ours, Click!Tagged
  <1>2. ASSUME NEW on \in Click!Kinds, NEW n, NEW t, IsClaim(on, n, t)'
        PROVE  IsClaim(on, n, t)
    BY <1>1, <1>2 DEF IsClaim
  <1> QED BY <1>2, FewStay

(* A person adds at most one, and is an excuse when that is of a new name. *)
LEMMA ClaimsPerson ==
  ASSUME DashTypes, DashTypes', ClaimsFew, NEW on \in Click!Kinds, NEW x \in click[on], PersonActs(on, x)
  PROVE  ClaimsFew'
PROOF
  <1>1. ClickTypes /\ PassesOK /\ excuses \in Nat /\ excuses' \in Nat
    BY DEF DashTypes, PassesOK
  <1>2. \A p \in Click!Passes : pass'[p].todo \subseteq pass[p].todo
    BY DisturbedFewer DEF PersonActs
  <1>3. ASSUME NEW y \in Docs(on), Adds(on, y) \/ Replaces(on, y), excuses' = excuses + 1
        PROVE  ClaimsFew'
    <2>1. \A o \in Click!Kinds : \A z \in Click!Ours(o)' : z \in Click!Ours(o) \/ z.id = y.id
      BY <1>1, <1>3, OursMove
    <2>2. PICK id : id = y.id
      OBVIOUS
    <2>3. ASSUME NEW o \in Click!Kinds, NEW n, NEW t, IsClaim(o, n, t)'
          PROVE  IsClaim(o, n, t) \/ t = <<id, "there">>
      <3>1. \A z \in Click!Ours(o)' : z \in Click!Ours(o) \/ z.id = id
        BY <2>1, <2>2
      <3> QED BY <1>2, <2>3, <3>1, ClaimsBefore
    <2> QED BY <1>1, <1>3, <2>3, FewGrow
  <1>4. CASE \E y \in Docs(on) : Edits(on, x, y)
    <2>1. PICK y \in Docs(on) : Edits(on, x, y)
      BY <1>4
    <2>2. CASE y.name # x.name
      BY <1>3, <2>1, <2>2 DEF Edits
    <2>3. CASE y.name = x.name
      <3>1. excuses' = excuses /\ Replaces(on, y) /\ y.id = x.id /\ (on = "boards" /\ y.tagged => x.tagged)
        BY <2>1, <2>3 DEF Edits
      <3>2. ASSUME NEW o \in Click!Kinds, NEW n, NEW t, IsClaim(o, n, t)'
            PROVE  IsClaim(o, n, t)
        <4>1. \A z \in Click!Ours(o)' : z \in Click!Ours(o) \/ (o = on /\ z = y)
          BY <1>1, <3>1, OursMove
        <4>0. PICK id : id = y.id
          OBVIOUS
        <4>2. \A z \in Click!Ours(o)' : z \in Click!Ours(o) \/ z.id = id
          BY <4>0, <4>1
        <4>3. IsClaim(o, n, t) \/ (t = <<id, "there">> /\ \E z \in Click!Ours(o)' : z.id = id /\ z.name = n)
          BY <1>2, <3>2, <4>2, ClaimsBefore
        <4>4. ASSUME NEW z \in Click!Ours(o)', z.id = id, z.name = n, t = <<id, "there">>
              PROVE  IsClaim(o, n, t)
          <5>1. CASE z \in Click!Ours(o)
            BY <4>4, <5>1 DEF IsClaim
          <5>2. CASE o = on /\ z = y
            <6>1. x \in Click!Ours(o)
              BY <3>1, <4>4, <5>2 DEF Click!Ours, Click!Tagged
            <6>2. x.name = n /\ t = <<x.id, "there">>
              BY <2>3, <3>1, <4>0, <4>4, <5>2
            <6> QED BY <6>1, <6>2 DEF IsClaim
          <5> QED BY <4>1, <5>1, <5>2
        <4> QED BY <4>3, <4>4
      <3>3. excuses <= excuses'
        BY <1>1, <3>1
      <3> QED BY <1>1, <3>2, <3>3, FewStay
    <2> QED BY <2>2, <2>3
  <1>5. CASE Removes(on, x.id) /\ excuses' = excuses
    <2>1. \A o \in Click!Kinds : \A z \in Click!Ours(o)' : z \in Click!Ours(o)
      BY <1>1, <1>5, OursMove
    <2>2. ASSUME NEW o \in Click!Kinds, NEW n, NEW t, IsClaim(o, n, t)'
          PROVE  IsClaim(o, n, t)
      BY <1>2, <2>1, <2>2 DEF IsClaim
    <2>3. excuses <= excuses'
      BY <1>1, <1>5
    <2> QED BY <1>1, <2>2, <2>3, FewStay
  <1>6. CASE \E y \in Docs(on) : Adds(on, y) /\ y.name = x.name /\ excuses' = excuses + 1
    BY <1>3, <1>6
  <1> QED BY <1>4, <1>5, <1>6 DEF PersonActs

(* A request applied: what it updates it had claimed, and what it creates  *)
(* takes the place of its claim.                                           *)
LEMMA TodoRequested ==
  ASSUME DashTypes, NEW p \in Click!Passes, NEW r \in pass[p].todo, Requests(p, r)
  PROVE  /\ pass'[p].todo \subseteq pass[p].todo \ {r}
         /\ \A q \in Click!Passes : q # p => pass'[q] = pass[q]
PROOF
  <1>1. /\ \A q \in Click!Passes : q # p => pass'[q] = pass[q]
        /\ \/ pass'[p] = Click!Idle
           \/ \E id \in {0, Click!Numbered(r).id} :
                /\ id \in Nat /\ pass'[p] = Click!Onward(Click!Learnt(pass[p], r, id))
                /\ PassOK(Click!Learnt(pass[p], r, id)) /\ LearntNow(pass[p], Click!Learnt(pass[p], r, id), r, id)
                /\ Click!Learnt(pass[p], r, id).pc # "idle"
    BY RequestPass
  <1>2. CASE pass'[p] = Click!Idle
    BY <1>1, <1>2, IdleOK
  <1>3. ASSUME NEW id \in {0, Click!Numbered(r).id},
               pass'[p] = Click!Onward(Click!Learnt(pass[p], r, id)),
               PassOK(Click!Learnt(pass[p], r, id)), LearntNow(pass[p], Click!Learnt(pass[p], r, id), r, id),
               Click!Learnt(pass[p], r, id).pc # "idle"
        PROVE  pass'[p].todo \subseteq pass[p].todo \ {r}
    <2> DEFINE next == Click!Learnt(pass[p], r, id)
    <2>1. Fewer(next, pass'[p])
      BY <1>3, OnwardFewer
    <2>2. next.todo = pass[p].todo \ {r}
      BY <1>3 DEF LearntNow
    <2> HIDE DEF next
    <2> QED BY <2>1, <2>2 DEF Fewer
  <1> QED BY <1>1, <1>2, <1>3

LEMMA ClaimsRequest ==
  ASSUME DashTypes, DashTypes', ClaimsFew, NEW p \in Click!Passes, NEW r \in pass[p].todo, Requests(p, r)
  PROVE  ClaimsFew'
PROOF
  <1>1. ClickTypes /\ PassesOK /\ excuses \in Nat /\ excuses' \in Nat /\ PassOK(pass[p]) /\ r \in Asks
    BY RequestPass DEF DashTypes, PassesOK
  <1>2. /\ pass'[p].todo \subseteq pass[p].todo \ {r}
        /\ \A q \in Click!Passes : q # p => pass'[q] = pass[q]
    BY TodoRequested
  <1>3. \A q \in Click!Passes : pass'[q].todo \subseteq pass[q].todo
    BY <1>2
  <1>4. r.on \in Click!Kinds /\ r.op \in Ops /\ r.id \in Nat
    BY <1>1, KindOf
  <1>5. Click!Possible(r) /\ Click!Applied(r) /\ excuses' = excuses /\ excuses <= excuses'
    BY <1>1 DEF Requests
  <1>6. CASE r.op = "create"
    <2>1. PICK x \in Docs(r.on) : Adds(r.on, x) /\ x.name = r.doc.name
      BY <1>1, <1>5, <1>6, Creating
    <2>2. PICK id : id = x.id
      OBVIOUS
    <2>3. \A o \in Click!Kinds : \A z \in Click!Ours(o)' : z \in Click!Ours(o) \/ (o = r.on /\ z = x)
      BY <1>1, <1>4, <2>1, OursMove
    <2>4. ASSUME NEW o \in Click!Kinds, NEW n
          PROVE  Few(Claims(o, n), 1 + excuses)'
      <3>1. ASSUME NEW t \in Claims(o, n)'
            PROVE  t \in Claims(o, n) \/ (o = r.on /\ n = r.doc.name /\ t = <<id, "there">>)
        <4>1. IsClaim(o, n, t)'
          BY <3>1 DEF Claims
        <4>2. \A z \in Click!Ours(o)' : z \in Click!Ours(o) \/ z.id = id
          BY <2>2, <2>3
        <4>3. IsClaim(o, n, t) \/ (t = <<id, "there">> /\ \E z \in Click!Ours(o)' : z.id = id /\ z.name = n)
          BY <1>3, <4>1, <4>2, ClaimsBefore
        <4>4. ASSUME NEW z \in Click!Ours(o)', z.id = id, z.name = n, t = <<id, "there">>
              PROVE  IsClaim(o, n, t) \/ (o = r.on /\ n = r.doc.name /\ t = <<id, "there">>)
          <5>1. CASE z \in Click!Ours(o)
            BY <4>4, <5>1 DEF IsClaim
          <5>2. CASE o = r.on /\ z = x
            BY <2>1, <4>4, <5>2
          <5> QED BY <2>3, <5>1, <5>2
        <4>5. IsClaim(o, n, t) \/ (o = r.on /\ n = r.doc.name /\ t = <<id, "there">>)
          BY <4>3, <4>4
        <4> QED BY <1>1, <4>5, IsClaims
      <3>2. Few(Claims(o, n), 1 + excuses) /\ 1 + excuses \in Nat /\ 1 + excuses' = 1 + excuses
        BY <1>1, <1>5 DEF ClaimsFew
      <3>3. CASE ~(o = r.on /\ n = r.doc.name)
        <4>1. \A t \in Claims(o, n)' : t \in Claims(o, n)
          BY <3>1, <3>3
        <4>2. Few(Claims(o, n)', 1 + excuses)
          BY <3>2, <4>1, FewSubset
        <4> QED BY <3>2, <4>2 DEF Few
      <3>4. CASE o = r.on /\ n = r.doc.name
        <4>1. <<0, p>> \in Claims(o, n)
          <5>1. IsClaim(o, n, <<0, p>>)
            BY <1>6, <3>4 DEF IsClaim
          <5> QED BY <1>1, <5>1, IsClaims
        <4>2. <<0, p>> \notin Claims(o, n)'
          <5>1. ASSUME IsClaim(o, n, <<0, p>>)'
                PROVE  FALSE
            <6>1. p # "there"
              BY PassKinds
            <6>2. PICK q \in Click!Passes : \E s \in pass'[q].todo :
                     s.on = o /\ s.doc.name = n /\ s.op = "create" /\ <<0, p>> = <<0, q>>
              BY <5>1, <6>1 DEF IsClaim
            <6>3. PICK s \in pass'[p].todo : s.on = o /\ s.doc.name = n /\ s.op = "create"
              BY <6>2
            <6>4. s \in Writes(pass[p].todo) /\ r \in Writes(pass[p].todo) /\ s # r
              BY <1>2, <1>6, <6>3 DEF Writes
            <6>5. s.doc.name = r.doc.name
              BY <3>4, <6>3
            <6> QED BY <1>1, <6>4, <6>5 DEF PassOK
          <5> QED BY <5>1 DEF Claims
        <4>3. \A t \in Claims(o, n)' : (t \in Claims(o, n) /\ t # <<0, p>>) \/ t = <<id, "there">>
          BY <3>1, <4>2
        <4>4. Few(Claims(o, n)', 1 + excuses)
          <5> DEFINE a == <<0, p>>
                     b == <<id, "there">>
          <5>1. a \in Claims(o, n) /\ \A t \in Claims(o, n)' : (t \in Claims(o, n) /\ t # a) \/ t = b
            BY <4>1, <4>3
          <5> HIDE DEF a, b
          <5> QED BY <3>2, <5>1, FewSwap
        <4> QED BY <3>2, <4>4 DEF Few
      <3> QED BY <3>3, <3>4
    <2> QED BY <2>4 DEF ClaimsFew
  <1>7. CASE r.op = "update"
    <2>1. PICK x \in Docs(r.on) : Replaces(r.on, x) /\ x.id = r.id /\ x.name = r.doc.name
      BY <1>1, <1>5, <1>7, Updating
    <2>2. \A o \in Click!Kinds : \A z \in Click!Ours(o)' : z \in Click!Ours(o) \/ (o = r.on /\ z = x)
      BY <1>1, <1>4, <2>1, OursMove
    <2>3. ASSUME NEW o \in Click!Kinds, NEW n, NEW t, IsClaim(o, n, t)'
          PROVE  IsClaim(o, n, t)
      <3>1. PICK id : id = r.id
        OBVIOUS
      <3>2. \A z \in Click!Ours(o)' : z \in Click!Ours(o) \/ z.id = id
        BY <2>1, <2>2, <3>1
      <3>3. IsClaim(o, n, t) \/ (t = <<id, "there">> /\ \E z \in Click!Ours(o)' : z.id = id /\ z.name = n)
        BY <1>3, <2>3, <3>2, ClaimsBefore
      <3>4. ASSUME NEW z \in Click!Ours(o)', z.id = id, z.name = n, t = <<id, "there">>
            PROVE  IsClaim(o, n, t)
        <4>1. CASE z \in Click!Ours(o)
          BY <3>4, <4>1 DEF IsClaim
        <4>2. CASE o = r.on /\ z = x
          <5>1. r.on = o /\ r.doc.name = n /\ t = <<r.id, "there">>
            BY <2>1, <3>1, <3>4, <4>2
          <5> QED BY <1>7, <5>1 DEF IsClaim
        <4> QED BY <2>2, <4>1, <4>2
      <3> QED BY <3>3, <3>4
    <2> QED BY <1>1, <1>5, <2>3, FewStay
  <1>8. CASE r.op = "delete"
    <2>1. Removes(r.on, r.id)
      BY <1>1, <1>5, <1>8, Deleting
    <2>2. \A o \in Click!Kinds : \A z \in Click!Ours(o)' : z \in Click!Ours(o)
      BY <1>1, <1>4, <2>1, OursMove
    <2>3. ASSUME NEW o \in Click!Kinds, NEW n, NEW t, IsClaim(o, n, t)'
          PROVE  IsClaim(o, n, t)
      BY <1>3, <2>2, <2>3 DEF IsClaim
    <2> QED BY <1>1, <1>5, <2>3, FewStay
  <1> QED BY <1>4, <1>6, <1>7, <1>8 DEF Ops

(* A late request: what it may show anew is an excuse.                     *)
LEMMA ClaimsLate ==
  ASSUME DashTypes, DashTypes', RecordInv, ClaimsFew, NEW r \in late, LateRequest(r)
  PROVE  ClaimsFew'
PROOF
  <1>1. ClickTypes /\ PassesOK /\ excuses \in Nat /\ excuses' \in Nat /\ r \in Asks
    BY DEF DashTypes, PassesOK, LateRequest
  <1>2. Fits(r)
    BY <1>1 DEF RecordInv, AskedFit
  <1>3. \A p \in Click!Passes : pass'[p].todo \subseteq pass[p].todo
    BY DisturbedFewer DEF LateRequest
  <1>4. r.on \in Click!Kinds /\ r.op \in Ops /\ r.id \in Nat
    BY <1>1, KindOf
  <1>5. excuses' = (IF Click!Shows(r) THEN excuses + 1 ELSE excuses) /\ excuses <= excuses'
    BY <1>1 DEF LateRequest
  <1>6. CASE ~Click!Possible(r)
    BY <1>1, <1>3, <1>5, <1>6, ClaimsSame DEF LateRequest
  <1>7. ASSUME NEW x \in Docs(r.on), Adds(r.on, x) \/ Replaces(r.on, x), Click!Shows(r)
        PROVE  ClaimsFew'
    <2>1. \A o \in Click!Kinds : \A z \in Click!Ours(o)' : z \in Click!Ours(o) \/ (o = r.on /\ z = x)
      BY <1>1, <1>4, <1>7, OursMove
    <2>2. PICK id : id = x.id
      OBVIOUS
    <2>3. ASSUME NEW o \in Click!Kinds, NEW n, NEW t, IsClaim(o, n, t)'
          PROVE  IsClaim(o, n, t) \/ t = <<id, "there">>
      <3>1. \A z \in Click!Ours(o)' : z \in Click!Ours(o) \/ z.id = id
        BY <2>1, <2>2
      <3>2. IsClaim(o, n, t) \/ (t = <<id, "there">> /\ \E z \in Click!Ours(o)' : z.id = id /\ z.name = n)
        BY <1>3, <2>3, <3>1, ClaimsBefore
      <3> QED BY <3>2
    <2>4. excuses' = excuses + 1
      BY <1>5, <1>7
    <2> QED BY <1>1, <2>3, <2>4, FewGrow
  <1>8. CASE Click!Possible(r) /\ r.op = "create"
    <2>1. PICK x \in Docs(r.on) : Adds(r.on, x)
      BY <1>1, <1>8, Creating DEF LateRequest
    <2>2. \A y \in Click!Ours(r.on) : y.id >= 1 /\ y.id \in Nat
      <3>1. \A y \in Click!Ours(r.on) : y \in click[r.on] /\ y \in Docs(r.on)
        BY <1>1, <1>4, OursOf
      <3> QED BY <1>1, <1>4, <3>1 DEF ClickTypes, Docs, Boards, Alerts, HookDocs
    <2>3. r.id = 0
      BY <1>2, <1>8 DEF Fits
    <2>4. Click!Shows(r)
      BY <1>8, <2>2, <2>3 DEF Click!Shows
    <2> QED BY <1>7, <2>1, <2>4
  <1>9. CASE Click!Possible(r) /\ r.op = "update"
    <2>1. PICK x \in Docs(r.on) : Replaces(r.on, x) /\ x.id = r.id /\ x.name = r.doc.name
      BY <1>1, <1>9, Updating DEF LateRequest
    <2>2. CASE Click!Shows(r)
      BY <1>7, <2>1, <2>2
    <2>3. CASE ~Click!Shows(r)
      <3>1. PICK y \in Click!Ours(r.on) : y.id = r.id /\ y.name = r.doc.name
        BY <1>9, <2>3 DEF Click!Shows
      <3>2. \A o \in Click!Kinds : \A z \in Click!Ours(o)' : z \in Click!Ours(o) \/ (o = r.on /\ z = x)
        BY <1>1, <1>4, <2>1, OursMove
      <3>3. ASSUME NEW o \in Click!Kinds, NEW n, NEW t, IsClaim(o, n, t)'
            PROVE  IsClaim(o, n, t)
        <4>1. PICK id : id = r.id
          OBVIOUS
        <4>2. \A z \in Click!Ours(o)' : z \in Click!Ours(o) \/ z.id = id
          BY <2>1, <3>2, <4>1
        <4>3. IsClaim(o, n, t) \/ (t = <<id, "there">> /\ \E z \in Click!Ours(o)' : z.id = id /\ z.name = n)
          BY <1>3, <3>3, <4>2, ClaimsBefore
        <4>4. ASSUME NEW z \in Click!Ours(o)', z.id = id, z.name = n, t = <<id, "there">>
              PROVE  IsClaim(o, n, t)
          <5>1. CASE z \in Click!Ours(o)
            BY <4>4, <5>1 DEF IsClaim
          <5>2. CASE o = r.on /\ z = x
            <6>1. y \in Click!Ours(o) /\ y.name = n /\ t = <<y.id, "there">>
              BY <2>1, <3>1, <4>1, <4>4, <5>2
            <6> QED BY <6>1 DEF IsClaim
          <5> QED BY <3>2, <5>1, <5>2
        <4> QED BY <4>3, <4>4
      <3> QED BY <1>1, <1>5, <3>3, FewStay
    <2> QED BY <2>2, <2>3
  <1>10. CASE Click!Possible(r) /\ r.op = "delete"
    <2>1. Removes(r.on, r.id)
      BY <1>1, <1>10, Deleting DEF LateRequest
    <2>2. \A o \in Click!Kinds : \A z \in Click!Ours(o)' : z \in Click!Ours(o)
      BY <1>1, <1>4, <2>1, OursMove
    <2>3. ASSUME NEW o \in Click!Kinds, NEW n, NEW t, IsClaim(o, n, t)'
          PROVE  IsClaim(o, n, t)
      BY <1>3, <2>2, <2>3 DEF IsClaim
    <2> QED BY <1>1, <1>5, <2>3, FewStay
  <1> QED BY <1>4, <1>6, <1>8, <1>9, <1>10 DEF Ops

(* A plan: it creates what is not there, and nobody else does unless two   *)
(* passes run at once.                                                     *)
LEMMA OtherClaim ==
  ASSUME DashTypes, NEW q \in Click!Passes, NEW on, NEW n
  PROVE  \E b : \A t : \A r \in pass[q].todo :
           /\ r.on = on /\ r.doc.name = n
           /\ (r.op = "update" /\ t = <<r.id, "there">>) \/ (r.op = "create" /\ t = <<0, q>>)
           => t = b
PROOF
  <1>1. \A r, s \in Writes(pass[q].todo) : r.doc.name = s.doc.name => r = s
    BY DEF DashTypes, PassOK
  <1>2. CASE \E s \in Writes(pass[q].todo) : s.doc.name = n
    <2>1. PICK s \in Writes(pass[q].todo) : s.doc.name = n
      BY <1>2
    <2>2. PICK b : b = IF s.op = "update" THEN <<s.id, "there">> ELSE <<0, q>>
      OBVIOUS
    <2>3. ASSUME NEW t, NEW r \in pass[q].todo, r.on = on, r.doc.name = n,
                 (r.op = "update" /\ t = <<r.id, "there">>) \/ (r.op = "create" /\ t = <<0, q>>)
          PROVE  t = b
      <3>1. r \in Writes(pass[q].todo)
        BY <2>3 DEF Writes
      <3>2. r = s
        BY <1>1, <2>1, <2>3, <3>1
      <3> QED BY <2>2, <2>3, <3>2
    <2> QED BY <2>3
  <1>3. CASE ~\E s \in Writes(pass[q].todo) : s.doc.name = n
    <2>1. \A r \in pass[q].todo : r.op = "update" \/ r.op = "create" => r \in Writes(pass[q].todo)
      BY DEF Writes
    <2> QED BY <1>3, <2>1
  <1> QED BY <1>2, <1>3

LEMMA ClaimsLists ==
  ASSUME DashTypes, DashTypes', RecordInv, ClaimsFew, NEW p \in Click!Passes, NEW on \in Click!Kinds, NEW W, Lists(p, on, W)
  PROVE  ClaimsFew'
PROOF
  <1>1. ClickTypes /\ PassesOK /\ excuses \in Nat /\ excuses' \in Nat
    BY DEF DashTypes, PassesOK
  <1>2. /\ \A q \in Click!Passes : q # p => pass'[q] = pass[q]
        /\ \E steps, next : \E hook \in Nat :
             /\ Plans(on, W, Click!Ours(on), pass[p].prune, steps) /\ Hooked(p, on, hook)
             /\ PassOK(next) /\ ListedNow(pass[p], next, StageOf(on), on, steps, hook)
             /\ pass'[p] = Click!Onward(next)
    BY ListPass
  <1>3. PICK steps, next : \E hook \in Nat :
             /\ Plans(on, W, Click!Ours(on), pass[p].prune, steps)
             /\ PassOK(next) /\ ListedNow(pass[p], next, StageOf(on), on, steps, hook)
             /\ pass'[p] = Click!Onward(next)
    BY <1>2
  <1>4. next.pc = StageOf(on) /\ next.todo = {r \in steps : r.op # "keep"}
    BY <1>3 DEF ListedNow
  <1>5. pass'[p].todo \subseteq steps
    <2>1. next.pc # "idle"
      BY <1>4 DEF StageOf
    <2>2. Fewer(next, pass'[p])
      BY <1>3, <2>1, OnwardFewer
    <2> QED BY <1>4, <2>2 DEF Fewer
  <1>6. /\ click' = click /\ excuses' = excuses /\ pass[p].pc = StageBefore(on)
        /\ \A o \in Click!Kinds : Click!Ours(o)' = Click!Ours(o)
    BY DEF Lists, Click!Ours, Click!Tagged
  <1>7. \A r \in pass'[p].todo :
          /\ r.on = on
          /\ r.op = "create" => \A x \in Click!Ours(on) : x.name # r.doc.name
          /\ r.op = "update" => \E x \in Click!Ours(on) : x.id = r.id /\ x.name = r.doc.name
    <2>1. \A r \in steps : r.on = on
      BY <1>3 DEF Plans
    <2>2. \A r \in steps : r.op = "create" => \A x \in Click!Ours(on) : x.name # r.doc.name
      BY <1>3 DEF Plans
    <2>3. \A r \in steps : r.op = "update" => \E x \in Click!Ours(on) : x.id = r.id /\ x.name = r.doc.name
      BY <1>3 DEF Plans
    <2> QED BY <1>5, <2>1, <2>2, <2>3
  <1>8. PICK q \in Click!Passes : q # p /\ \A o \in Click!Passes : o = p \/ o = q
    BY PassKinds
  <1>9. ASSUME NEW o \in Click!Kinds, NEW n
        PROVE  Few(Claims(o, n), 1 + excuses)'
    <2>1. Few(Claims(o, n), 1 + excuses) /\ 1 + excuses \in Nat /\ 1 + excuses' = 1 + excuses
      BY <1>1, <1>6 DEF ClaimsFew
    <2>2. ASSUME o # on \/ \E x \in Click!Ours(on) : x.name = n,
                 NEW t \in Claims(o, n)'
          PROVE  t \in Claims(o, n)
      <3>1. IsClaim(o, n, t)'
        BY <2>2 DEF Claims
      <3>2. IsClaim(o, n, t)
        <4>1. CASE \E x \in Click!Ours(o)' : x.name = n /\ t = <<x.id, "there">>
          BY <1>6, <4>1 DEF IsClaim
        <4>2. ASSUME NEW r \in pass'[q].todo, r.on = o, r.doc.name = n,
                     (r.op = "update" /\ t = <<r.id, "there">>) \/ (r.op = "create" /\ t = <<0, q>>)
              PROVE  IsClaim(o, n, t)
          BY <1>2, <1>8, <4>2 DEF IsClaim
        <4>3. ASSUME NEW r \in pass'[p].todo, r.on = o, r.doc.name = n,
                     (r.op = "update" /\ t = <<r.id, "there">>) \/ (r.op = "create" /\ t = <<0, p>>)
              PROVE  IsClaim(o, n, t)
          <5>1. o = on /\ r.op = "update" /\ t = <<r.id, "there">>
            BY <1>7, <2>2, <4>3
          <5>2. PICK x \in Click!Ours(on) : x.id = r.id /\ x.name = r.doc.name
            BY <1>7, <5>1
          <5> QED BY <4>3, <5>1, <5>2 DEF IsClaim
        <4> QED BY <1>8, <3>1, <4>1, <4>2, <4>3 DEF IsClaim
      <3> QED BY <1>1, <3>2, IsClaims
    <2>3. CASE o # on \/ \E x \in Click!Ours(on) : x.name = n
      <3>1. \A t \in Claims(o, n)' : t \in Claims(o, n)
        BY <2>2, <2>3
      <3>2. Few(Claims(o, n)', 1 + excuses)
        BY <2>1, <3>1, FewSubset
      <3> QED BY <2>1, <3>2 DEF Few
    <2>4. CASE o = on /\ ~\E x \in Click!Ours(on) : x.name = n
      <3>1. PICK b : \A t : \A r \in pass[q].todo :
                       /\ r.on = on /\ r.doc.name = n
                       /\ (r.op = "update" /\ t = <<r.id, "there">>) \/ (r.op = "create" /\ t = <<0, q>>)
                       => t = b
        BY OtherClaim
      <3>2. ASSUME NEW t \in Claims(o, n)'
            PROVE  t = <<0, p>> \/ (t = b /\ pass[q].todo # {})
        <4>1. IsClaim(o, n, t)'
          BY <3>2 DEF Claims
        <4>2. ~\E x \in Click!Ours(o)' : x.name = n /\ t = <<x.id, "there">>
          BY <1>6, <2>4
        <4>3. ASSUME NEW r \in pass'[q].todo, r.on = o, r.doc.name = n,
                     (r.op = "update" /\ t = <<r.id, "there">>) \/ (r.op = "create" /\ t = <<0, q>>)
              PROVE  t = b /\ pass[q].todo # {}
          <5>1. r \in pass[q].todo
            BY <1>2, <1>8
          <5> QED BY <2>4, <3>1, <4>3, <5>1
        <4>4. ASSUME NEW r \in pass'[p].todo, r.on = o, r.doc.name = n,
                     (r.op = "update" /\ t = <<r.id, "there">>) \/ (r.op = "create" /\ t = <<0, p>>)
              PROVE  t = <<0, p>>
          BY <1>7, <2>4, <4>4
        <4> QED BY <1>8, <4>1, <4>2, <4>3, <4>4 DEF IsClaim
      <3>3. pass[q].todo # {} => excuses >= 1
        <4>1. ASSUME pass[q].todo # {}
              PROVE  excuses >= 1
          <5>1. pass[q].pc # "idle"
            BY <1>1, <4>1, IdleOK DEF PassesOK, PassOK
          <5>2. pass[p].pc # "idle"
            BY <1>6 DEF StageBefore
          <5>3. Alone(p)
            BY DEF RecordInv
          <5> QED BY <1>8, <5>1, <5>2, <5>3 DEF Alone
        <4> QED BY <4>1
      <3>4. PICK a : a = <<0, p>>
        OBVIOUS
      <3>5. Few({}, 0) /\ Few({a}, 1)
        <4>1. Few({}, 0)
          BY FewNone
        <4>2. 0 \in Nat /\ 1 \in Nat /\ 0 + 1 <= 1 /\ \A t \in {a} : t \in {} \/ t = a
          OBVIOUS
        <4> QED BY <4>1, <4>2, FewPlus, ZenonT(60)
      <3>6. CASE pass[q].todo = {}
        <4>1. \A t \in Claims(o, n)' : t \in {a}
          BY <3>2, <3>4, <3>6
        <4>2. 1 <= 1 + excuses /\ 1 \in Nat
          BY <1>1
        <4>3. Few(Claims(o, n)', 1 + excuses)
          BY <2>1, <3>5, <4>1, <4>2, FewSubset
        <4> QED BY <2>1, <4>3 DEF Few
      <3>7. CASE pass[q].todo # {}
        <4>1. \A t \in Claims(o, n)' : t \in {a} \/ t = b
          BY <3>2, <3>4
        <4>2. 1 + 1 <= 1 + excuses /\ 1 \in Nat
          BY <1>1, <3>3, <3>7
        <4>3. Few(Claims(o, n)', 1 + excuses)
          BY <2>1, <3>5, <4>1, <4>2, FewPlus
        <4> QED BY <2>1, <4>3 DEF Few
      <3> QED BY <3>6, <3>7
    <2> QED BY <2>3, <2>4
  <1> QED BY <1>9 DEF ClaimsFew

LEMMA ClaimsStep ==
  ASSUME DashTypes, RecordInv, ClaimsFew, [Click!Next]_(Click!vars)
  PROVE  ClaimsFew'
PROOF
  <1>1. DashTypes' /\ ClickTypes /\ PassesOK /\ excuses \in Nat /\ excuses' \in Nat
    BY TypesStep DEF DashTypes, PassesOK
  <1>2. ASSUME NEW p \in Click!Passes, PassStep(p)
        PROVE  ClaimsFew'
    <2>1. CASE StartsPass(p)
      <3>1. \A q \in Click!Passes : pass'[q].todo \subseteq pass[q].todo
        <4>1. pass'[p].todo = {} /\ \A q \in Click!Passes : q # p => SameWork(pass[q], pass'[q])
          BY <1>1, <2>1, PassStarts
        <4> QED BY <4>1 DEF SameWork
      <3>2. click' = click /\ excuses <= excuses'
        BY <1>1, <2>1 DEF StartsPass
      <3> QED BY <1>1, <3>1, <3>2, ClaimsSame
    <2>2. CASE GivesUp(p)
      <3>1. pass'[p] = Click!Idle /\ \A q \in Click!Passes : q # p => pass'[q] = pass[q]
        BY <2>2, GiveUpPass
      <3>2. \A q \in Click!Passes : pass'[q].todo \subseteq pass[q].todo
        BY <3>1, IdleOK
      <3>3. click' = click /\ excuses <= excuses'
        BY <1>1, <2>2 DEF GivesUp
      <3> QED BY <1>1, <3>2, <3>3, ClaimsSame
    <2>3. CASE RecordsIds(p)
      <3>1. \A q \in Click!Passes : pass'[q].todo \subseteq pass[q].todo
        <4>1. pass[p].pc = "record" /\ PassOK(pass[p])
          BY <1>1, <2>3 DEF RecordsIds, PassesOK
        <4>2. pass' = [pass EXCEPT ![p] = Click!Onward([pass[p] EXCEPT !.pc = Click!NextPhase("record")])]
          BY <2>3 DEF RecordsIds
        <4>3. PassOK([pass[p] EXCEPT !.pc = "prune"]) /\ SameBut(pass[p], [pass[p] EXCEPT !.pc = "prune"])
              /\ [pass[p] EXCEPT !.pc = "prune"].pc = "prune"
          BY <4>1, RecordedOK
        <4> DEFINE next == [pass[p] EXCEPT !.pc = "prune"]
        <4>4. Fewer(next, Click!Onward(next))
          BY <4>3, OnwardFewer
        <4>5. next.todo = pass[p].todo
          BY <4>3 DEF SameBut
        <4>6. Click!NextPhase("record") = "prune"
          BY DEF Click!NextPhase
        <4>7. pass'[p] = Click!Onward(next) /\ \A q \in Click!Passes : q # p => pass'[q] = pass[q]
          BY <1>1, <4>2, <4>6 DEF PassesOK
        <4> HIDE DEF next
        <4> QED BY <4>4, <4>5, <4>7 DEF Fewer
      <3>2. click' = click /\ excuses <= excuses'
        BY <1>1, <2>3 DEF RecordsIds
      <3> QED BY <1>1, <3>1, <3>2, ClaimsSame
    <2>4. ASSUME NEW r \in pass[p].todo, Requests(p, r)
          PROVE  ClaimsFew'
      BY <1>1, <2>4, ClaimsRequest
    <2>5. ASSUME NEW on \in Click!Kinds, NEW W, Lists(p, on, W)
          PROVE  ClaimsFew'
      BY <1>1, <2>5, ClaimsLists
    <2> QED BY <1>2, <2>1, <2>2, <2>3, <2>4, <2>5 DEF PassStep, Click!Kinds
  <1>3. CASE OtherStep
    <2>1. ASSUME NEW r \in late, LateRecord(r)
          PROVE  ClaimsFew'
      <3>1. click' = click /\ excuses <= excuses' /\ Click!Disturbed
        BY <1>1, <2>1 DEF LateRecord
      <3>2. \A q \in Click!Passes : pass'[q].todo \subseteq pass[q].todo
        BY <3>1, DisturbedFewer
      <3> QED BY <1>1, <3>1, <3>2, ClaimsSame
    <2>2. ASSUME NEW r \in late, LateRequest(r)
          PROVE  ClaimsFew'
      BY <1>1, <2>2, ClaimsLate
    <2>3. ASSUME NEW on \in Click!Kinds, NEW x \in click[on], PersonActs(on, x)
          PROVE  ClaimsFew'
      BY <1>1, <2>3, ClaimsPerson
    <2>4. CASE Outside
      <3>1. click' = click /\ excuses <= excuses' /\ Click!Disturbed
        BY <1>1, <2>4 DEF Outside
      <3>2. \A q \in Click!Passes : pass'[q].todo \subseteq pass[q].todo
        BY <3>1, DisturbedFewer
      <3> QED BY <1>1, <3>1, <3>2, ClaimsSame
    <2>5. CASE Stands
      <3>1. click' = click /\ excuses <= excuses' /\ pass' = pass
        BY <1>1, <2>5 DEF Stands
      <3> QED BY <1>1, <3>1, ClaimsSame
    <2> QED BY <1>3, <2>1, <2>2, <2>3, <2>4, <2>5 DEF OtherStep
  <1> QED BY <1>2, <1>3, NextShape

LEMMA ClaimsInit ==
  ASSUME Click!Init
  PROVE  ClaimsFew
PROOF
  <1>1. /\ click = [on \in Click!Kinds |-> {}] /\ excuses = 0
        /\ pass = [p \in Click!Passes |-> Click!Idle]
    BY DEF Click!Init
  <1>2. ASSUME NEW on \in Click!Kinds, NEW n
        PROVE  Few(Claims(on, n), 1 + excuses)
    <2>1. Click!Ours(on) = {}
      BY <1>1 DEF Click!Ours, Click!Tagged, Click!Kinds
    <2>2. \A p \in Click!Passes : pass[p].todo = {}
      BY <1>1, IdleOK
    <2>3. Claims(on, n) = {}
      BY <2>1, <2>2 DEF Claims, IsClaim
    <2> QED BY <1>1, <2>3, FewNone
  <1> QED BY <1>2 DEF ClaimsFew

(* A second dashboard, alert or webhook of a name takes two passes at      *)
(* once, a request applied late or a person.                               *)
THEOREM TwinsExcused == DashboardSpec => []TwinsNeedExcuses
PROOF
  <1>1. Click!Init => DashTypes /\ RecordInv /\ ClaimsFew
    BY TypesInit, RecordInit, ClaimsInit
  <1>2. DashTypes /\ RecordInv /\ ClaimsFew /\ [Click!Next]_(Click!vars) => (DashTypes /\ RecordInv /\ ClaimsFew)'
    BY TypesStep, RecordStep, ClaimsStep
  <1>3. ASSUME DashTypes, ClaimsFew
        PROVE  TwinsNeedExcuses
    <2>1. ClickTypes /\ PassesOK /\ excuses \in Nat
      BY <1>3 DEF DashTypes, PassesOK
    <2>2. ASSUME NEW on \in Click!Kinds, NEW x \in Click!Ours(on)
          PROVE  Cardinality({y \in Click!Ours(on) : y.name = x.name}) <= 1 + excuses
      <3>1. PICK n : n = x.name
        OBVIOUS
      <3>2. Cardinality({y \in Click!Ours(on) : y.name = n}) <= 1 + excuses
        BY <1>3, <2>1, ShownFew
      <3> QED BY <3>1, <3>2
    <2>3. \A S : Click!Cardinality(S) = Cardinality(S)
      BY DEF Click!Cardinality, Cardinality
    <2>4. ASSUME NEW on \in Click!Kinds, NEW x \in Click!Ours(on)
          PROVE  Click!Cardinality({y \in Click!Ours(on) : y.name = x.name}) <= 1 + excuses
      BY <2>2, <2>3
    <2> QED BY <2>4 DEF TwinsNeedExcuses, Click!TwinsNeedExcuses
  <1> QED BY <1>1, <1>2, <1>3, PTL DEF DashboardSpec, Click!Spec

-----------------------------------------------------------------------------
(* One pass repairs.                                                       *)

(* A plan on its way: what it still has to send brings what is there of    *)
(* one kind to what is wanted.                                             *)
Underway(on, W, ours, prune, todo) ==
  /\ OneEach(ours)
  /\ \A r \in todo : r.on = on /\ r.op \in Ops
  /\ \A r \in Writes(todo) : r.doc \in W
  /\ \A q, r \in Writes(todo) : q.doc.name = r.doc.name => q = r
  /\ \A r \in todo : r.op = "create" => \A x \in ours : x.name # r.doc.name
  /\ \A r \in todo : r.op = "update" => \E x \in ours : x.id = r.id /\ x.name = r.doc.name
  /\ \A r \in todo : r.op = "delete" => \E x \in ours : x.id = r.id /\ x.name \notin NamesOf(W)
  /\ \A q, r \in todo : q.op = "delete" /\ r.op = "delete" /\ q.id = r.id => q = r
  /\ \A w \in W : (\E r \in Writes(todo) : r.doc = w) \/ \E x \in ours : x.name = w.name /\ Like(on, x, w)
  /\ \A x \in ours : x.name \in NamesOf(W) \/ Spared(on, prune, x.name) \/ \E r \in todo : r.op = "delete" /\ r.id = x.id

OneId(ours) == \A x, y \in ours : x.id = y.id => x = y
Done(on, W, ours, prune) == Underway(on, W, ours, prune, {})

(* The ids of the objects a plan is for. *)
IdsOf(W, ours) == {<<x.name, x.id>> : x \in {y \in ours : y.name \in NamesOf(W)}}

LEMMA PlanUnderway ==
  ASSUME NEW on \in Click!Kinds, NEW W, NEW ours, NEW prune, NEW steps, Plans(on, W, ours, prune, steps),
         OneEach(W), OneId(ours)
  PROVE  Underway(on, W, ours, prune, {r \in steps : r.op # "keep"})
PROOF
  <1> DEFINE todo == {r \in steps : r.op # "keep"}
  <1>1. \A r \in todo : r \in steps /\ r.on = on /\ r.op \in Ops
    BY DEF Plans, Ops
  <1>2. \A r \in Writes(todo) : r \in steps /\ (r.op = "create" \/ r.op = "update") /\ r.doc \in W
    BY <1>1 DEF Plans, Writes, Ops
  <1>3. \A q, r \in Writes(todo) : q.doc.name = r.doc.name => q = r
    BY DEF Plans, Writes
  <1>4. \A r \in todo : r.op = "create" => \A x \in ours : x.name # r.doc.name
    BY StepCreates
  <1>5. \A r \in todo : r.op = "update" => \E x \in ours : x.id = r.id /\ x.name = r.doc.name
    BY StepUpdates
  <1>6. \A r \in todo : r.op = "delete" => r.doc \in ours /\ r.id = r.doc.id /\ r.doc.name \notin NamesOf(W)
    BY StepDeletes
  <1>7. ASSUME NEW q \in todo, NEW r \in todo, q.op = "delete", r.op = "delete", q.id = r.id
        PROVE  q = r
    <2>1. q.doc = r.doc
      BY <1>6, <1>7 DEF OneId
    <2>2. /\ q \in [op : Ops \cup {"keep"}, on : {on}, id : Nat, doc : Docs(on)]
          /\ r \in [op : Ops \cup {"keep"}, on : {on}, id : Nat, doc : Docs(on)]
      BY DEF Plans
    <2> QED BY <1>7, <2>1, <2>2
  <1>8. ASSUME NEW w \in W
        PROVE  (\E r \in Writes(todo) : r.doc = w) \/ \E x \in ours : x.name = w.name /\ Like(on, x, w)
    <2>1. PICK r \in steps : r.op # "delete" /\ r.doc.name = w.name
      BY DEF Plans
    <2>2. CASE r.op = "keep"
      <3>1. r.doc \in ours /\ \E v \in W : v.name = r.doc.name /\ Like(on, r.doc, v)
        BY <2>2 DEF Plans
      <3>2. PICK v \in W : v.name = r.doc.name /\ Like(on, r.doc, v)
        BY <3>1
      <3>3. v = w
        BY <2>1, <3>2 DEF OneEach
      <3> QED BY <2>1, <3>1, <3>2, <3>3
    <2>3. CASE r.op # "keep"
      <3>1. r \in Writes(todo)
        BY <2>1, <2>3 DEF Writes
      <3>2. r.doc = w
        BY <1>2, <2>1, <3>1 DEF OneEach
      <3> QED BY <3>1, <3>2
    <2> QED BY <2>2, <2>3
  <1>9. \A x \in ours : x.name \in NamesOf(W) \/ Spared(on, prune, x.name) \/ \E r \in todo : r.op = "delete" /\ r.id = x.id
    BY DEF Plans
  <1>10. OneEach(ours)
    BY DEF Plans
  <1> HIDE DEF todo
  <1>11. \A r \in todo : r.op = "delete" => \E x \in ours : x.id = r.id /\ x.name \notin NamesOf(W)
    BY <1>6
  <1>12. Underway(on, W, ours, prune, todo)
    BY <1>1, <1>2, <1>3, <1>4, <1>5, <1>7, <1>8, <1>9, <1>10, <1>11 DEF Underway
  <1> QED BY <1>12 DEF todo

(* What is known of the objects a plan is for is their ids.                *)
LEMMA PlanKnows ==
  ASSUME NEW W, NEW ours, NEW prune, NEW steps, Plans("boards", W, ours, prune, steps)
  PROVE  /\ \A x \in Click!Known(steps, "boards") : x \in IdsOf(W, ours)
         /\ \A x \in ours : x.name \in NamesOf(W) =>
              <<x.name, x.id>> \in Click!Known(steps, "boards")
PROOF
  <1>1. \A r \in steps : r.on = "boards"
    BY StepKind
  <1>2. ASSUME NEW r \in steps, r.op \in {"keep", "update"}
        PROVE  <<r.doc.name, r.id>> \in IdsOf(W, ours)
    <2>1. \E x \in ours : x.id = r.id /\ x.name = r.doc.name /\ x.name \in NamesOf(W)
      <3>1. CASE r.op = "keep"
        BY <3>1 DEF Plans, NamesOf
      <3>2. CASE r.op = "update"
        BY <3>2 DEF Plans, NamesOf
      <3> QED BY <1>2, <3>1, <3>2
    <2> QED BY <2>1 DEF IdsOf
  <1>3. ASSUME NEW x \in ours, x.name \in NamesOf(W)
        PROVE  <<x.name, x.id>> \in Click!Known(steps, "boards")
    <2>1. PICK w \in W : w.name = x.name
      BY <1>3 DEF NamesOf
    <2>2. PICK r \in steps : r.op # "delete" /\ r.doc.name = w.name
      BY DEF Plans
    <2>3. r.op \in {"keep", "update"}
      <3>1. r.op # "create"
        BY <2>1, <2>2, StepCreates
      <3> QED BY <2>2, <3>1, StepOp
    <2>4. r.id = x.id
      <3>1. CASE r.op = "keep"
        <4>1. r.doc \in ours /\ r.id = r.doc.id /\ OneEach(ours)
          BY <3>1, StepKeeps DEF Plans
        <4> QED BY <2>1, <2>2, <4>1 DEF OneEach
      <3>2. CASE r.op = "update"
        BY <2>1, <2>2, <3>2, StepUpdates DEF Plans, OneEach
      <3> QED BY <2>3, <3>1, <3>2
    <2> QED BY <1>1, <2>1, <2>2, <2>3, <2>4 DEF Click!Known
  <1>4. ASSUME NEW x \in Click!Known(steps, "boards")
        PROVE  x \in IdsOf(W, ours)
    <2>1. PICK r \in steps : r.op \in {"keep", "update"} /\ x = <<r.doc.name, r.id>>
      BY DEF Click!Known
    <2> QED BY <1>2, <2>1
  <1> QED BY <1>3, <1>4

LEMMA UnderwayCreates ==
  ASSUME NEW on, NEW W, NEW ours, NEW prune, NEW todo, Underway(on, W, ours, prune, todo),
         NEW r \in todo, r.op = "create", NEW x, x.name = r.doc.name, Like(on, x, r.doc)
  PROVE  Underway(on, W, ours \cup {x}, prune, todo \ {r}) /\ x.name \in NamesOf(W)
PROOF
  <1> DEFINE more == ours \cup {x}
             less == todo \ {r}
  <1>0. r \in Writes(todo) /\ Writes(less) = Writes(todo) \ {r} /\ r.doc \in W /\ x.name \in NamesOf(W)
    BY DEF Writes, Underway, NamesOf
  <1>1. OneEach(more)
    BY DEF Underway, OneEach
  <1>2. \A q \in Writes(less) : q.doc.name # x.name /\ q \in Writes(todo)
    BY <1>0 DEF Underway
  <1>3. \A q \in less : q.op = "create" => \A y \in more : y.name # q.doc.name
    BY <1>2 DEF Underway, Writes
  <1>4. \A w \in W : (\E q \in Writes(less) : q.doc = w) \/ \E y \in more : y.name = w.name /\ Like(on, y, w)
    <2> SUFFICES ASSUME NEW w \in W, ~ \E y \in more : y.name = w.name /\ Like(on, y, w)
                 PROVE  \E q \in Writes(less) : q.doc = w
      OBVIOUS
    <2>1. PICK q \in Writes(todo) : q.doc = w
      BY DEF Underway
    <2> QED BY <1>0, <2>1
  <1>5. \A y \in more : y.name \in NamesOf(W) \/ Spared(on, prune, y.name) \/ \E q \in less : q.op = "delete" /\ q.id = y.id
    BY <1>0 DEF Underway
  <1>6. \A q \in less : q.op = "update" => \E y \in more : y.id = q.id /\ y.name = q.doc.name
    BY DEF Underway
  <1>7. \A q \in less : q.op = "delete" => \E y \in more : y.id = q.id /\ y.name \notin NamesOf(W)
    BY DEF Underway
  <1>8. /\ \A q \in less : q.on = on /\ q.op \in Ops
        /\ \A q \in Writes(less) : q.doc \in W
        /\ \A q, s \in Writes(less) : q.doc.name = s.doc.name => q = s
        /\ \A q, s \in less : q.op = "delete" /\ s.op = "delete" /\ q.id = s.id => q = s
    BY <1>0 DEF Underway
  <1> HIDE DEF more, less
  <1>9. Underway(on, W, more, prune, less)
    BY <1>1, <1>3, <1>4, <1>5, <1>6, <1>7, <1>8 DEF Underway
  <1> QED BY <1>0, <1>9 DEF more, less

LEMMA UnderwayUpdates ==
  ASSUME NEW on, NEW W, NEW ours, NEW prune, NEW todo, Underway(on, W, ours, prune, todo), OneId(ours), OneEach(W),
         NEW r \in todo, r.op = "update", NEW x, x.id = r.id, x.name = r.doc.name, Like(on, x, r.doc)
  PROVE  /\ Underway(on, W, {y \in ours : y.id # r.id} \cup {x}, prune, todo \ {r})
         /\ x.name \in NamesOf(W) /\ \E z \in ours : z.id = x.id /\ z.name = x.name
PROOF
  <1> DEFINE more == {y \in ours : y.id # r.id} \cup {x}
             less == todo \ {r}
  <1>0. r \in Writes(todo) /\ Writes(less) = Writes(todo) \ {r} /\ r.doc \in W /\ x.name \in NamesOf(W)
    BY DEF Writes, Underway, NamesOf
  <1>a. PICK z \in ours : z.id = r.id /\ z.name = r.doc.name
    BY DEF Underway
  <1>b. \A y \in ours : y.id = r.id <=> y = z
    BY <1>a DEF OneId
  <1>c. \A y \in ours : y.name = x.name => y = z
    BY <1>a DEF Underway, OneEach
  <1>1. OneEach(more)
    BY <1>b, <1>c DEF Underway, OneEach
  <1>2. \A q \in Writes(less) : q.doc.name # x.name /\ q \in Writes(todo)
    BY <1>0 DEF Underway
  <1>3. \A q \in less : q.op = "create" => \A y \in more : y.name # q.doc.name
    BY <1>2 DEF Underway, Writes
  <1>4. \A w \in W : (\E q \in Writes(less) : q.doc = w) \/ \E y \in more : y.name = w.name /\ Like(on, y, w)
    <2> SUFFICES ASSUME NEW w \in W, ~ \E y \in more : y.name = w.name /\ Like(on, y, w)
                 PROVE  \E q \in Writes(less) : q.doc = w
      OBVIOUS
    <2>1. w # r.doc
      OBVIOUS
    <2>2. CASE \E y \in ours : y.name = w.name /\ Like(on, y, w)
      <3>1. PICK y \in ours : y.name = w.name /\ Like(on, y, w)
        BY <2>2
      <3>2. y = z
        BY <1>b, <3>1
      <3>3. w = r.doc
        BY <1>0, <1>a, <3>1, <3>2 DEF OneEach
      <3> QED BY <2>1, <3>3
    <2>3. CASE ~\E y \in ours : y.name = w.name /\ Like(on, y, w)
      <3>1. PICK q \in Writes(todo) : q.doc = w
        BY <2>3 DEF Underway
      <3> QED BY <1>0, <2>1, <3>1
    <2> QED BY <2>2, <2>3
  <1>5. \A y \in more : y.name \in NamesOf(W) \/ Spared(on, prune, y.name) \/ \E q \in less : q.op = "delete" /\ q.id = y.id
    BY <1>0 DEF Underway
  <1>6. \A q \in less : q.op = "update" => \E y \in more : y.id = q.id /\ y.name = q.doc.name
    <2> SUFFICES ASSUME NEW q \in less, q.op = "update"
                 PROVE  \E y \in more : y.id = q.id /\ y.name = q.doc.name
      OBVIOUS
    <2>1. q \in Writes(less)
      BY DEF Writes
    <2>2. PICK y \in ours : y.id = q.id /\ y.name = q.doc.name
      BY DEF Underway
    <2> QED BY <1>2, <1>a, <1>b, <2>1, <2>2
  <1>7. \A q \in less : q.op = "delete" => \E y \in more : y.id = q.id /\ y.name \notin NamesOf(W)
    <2> SUFFICES ASSUME NEW q \in less, q.op = "delete"
                 PROVE  \E y \in more : y.id = q.id /\ y.name \notin NamesOf(W)
      OBVIOUS
    <2>2. PICK y \in ours : y.id = q.id /\ y.name \notin NamesOf(W)
      BY DEF Underway
    <2> QED BY <1>0, <1>a, <1>b, <2>2
  <1>8. /\ \A q \in less : q.on = on /\ q.op \in Ops
        /\ \A q \in Writes(less) : q.doc \in W
        /\ \A q, s \in Writes(less) : q.doc.name = s.doc.name => q = s
        /\ \A q, s \in less : q.op = "delete" /\ s.op = "delete" /\ q.id = s.id => q = s
    BY <1>0 DEF Underway
  <1> HIDE DEF more, less
  <1>9. Underway(on, W, more, prune, less)
    BY <1>1, <1>3, <1>4, <1>5, <1>6, <1>7, <1>8 DEF Underway
  <1> QED BY <1>0, <1>a, <1>9 DEF more, less

LEMMA UnderwayDeletes ==
  ASSUME NEW on, NEW W, NEW ours, NEW prune, NEW todo, Underway(on, W, ours, prune, todo), OneId(ours),
         NEW r \in todo, r.op = "delete"
  PROVE  /\ Underway(on, W, {y \in ours : y.id # r.id}, prune, todo \ {r})
         /\ \A y \in ours : y.id = r.id => y.name \notin NamesOf(W)
PROOF
  <1> DEFINE more == {y \in ours : y.id # r.id}
             less == todo \ {r}
  <1>0. Writes(less) = Writes(todo)
    BY DEF Writes
  <1>a. PICK z \in ours : z.id = r.id /\ z.name \notin NamesOf(W)
    BY DEF Underway
  <1>b. \A y \in ours : y.id = r.id <=> y = z
    BY <1>a DEF OneId
  <1>1. OneEach(more)
    BY DEF Underway, OneEach
  <1>2. \A y \in ours : y.name \in NamesOf(W) => y \in more
    BY <1>a, <1>b
  <1>4. \A w \in W : (\E q \in Writes(less) : q.doc = w) \/ \E y \in more : y.name = w.name /\ Like(on, y, w)
    <2>1. \A w \in W : w.name \in NamesOf(W)
      BY DEF NamesOf
    <2> QED BY <1>0, <1>2, <2>1 DEF Underway
  <1>5. \A y \in more : y.name \in NamesOf(W) \/ Spared(on, prune, y.name) \/ \E q \in less : q.op = "delete" /\ q.id = y.id
    BY DEF Underway
  <1>6. \A q \in less : q.op = "update" => \E y \in more : y.id = q.id /\ y.name = q.doc.name
    <2> SUFFICES ASSUME NEW q \in less, q.op = "update"
                 PROVE  \E y \in more : y.id = q.id /\ y.name = q.doc.name
      OBVIOUS
    <2>1. q \in Writes(todo) /\ q.doc \in W
      BY DEF Writes, Underway
    <2>2. PICK y \in ours : y.id = q.id /\ y.name = q.doc.name
      BY DEF Underway
    <2>3. y.name \in NamesOf(W)
      BY <2>1, <2>2 DEF NamesOf
    <2> QED BY <1>2, <2>2, <2>3
  <1>7. \A q \in less : q.op = "delete" => \E y \in more : y.id = q.id /\ y.name \notin NamesOf(W)
    <2> SUFFICES ASSUME NEW q \in less, q.op = "delete"
                 PROVE  \E y \in more : y.id = q.id /\ y.name \notin NamesOf(W)
      OBVIOUS
    <2>1. q.id # r.id
      BY DEF Underway
    <2>2. PICK y \in ours : y.id = q.id /\ y.name \notin NamesOf(W)
      BY DEF Underway
    <2> QED BY <2>1, <2>2
  <1>8. /\ \A q \in less : q.on = on /\ q.op \in Ops
        /\ \A q \in Writes(less) : q.doc \in W
        /\ \A q, s \in Writes(less) : q.doc.name = s.doc.name => q = s
        /\ \A q, s \in less : q.op = "delete" /\ s.op = "delete" /\ q.id = s.id => q = s
        /\ \A q \in less : q.op = "create" => \A y \in more : y.name # q.doc.name
    BY <1>0 DEF Underway
  <1> HIDE DEF more, less
  <1>9. Underway(on, W, more, prune, less)
    BY <1>1, <1>4, <1>5, <1>6, <1>7, <1>8 DEF Underway
  <1> QED BY <1>a, <1>b, <1>9 DEF more, less

(* A pass that nothing disturbs, halfway through its phases: H, B and A    *)
(* are the webhooks, dashboards and alerts that are the platform's.        *)
Mending(now, H, B, A, rec) ==
  /\ now.beside = FALSE
  /\ now.pc \in Early => now.ids = {}
  /\ now.pc = "hook" => Underway("hooks", WantedHooks, H, now.prune, now.todo)
  /\ now.pc # "webhooks" => HookNamed(now.hook, H)
  /\ now.pc \notin {"webhooks", "hook"} => Done("hooks", WantedHooks, H, now.prune)
  /\ now.pc \in {"board", "record", "prune"} =>
       /\ Underway("boards", WantedBoards(now.apps), B, now.prune, now.todo)
       /\ now.ids = IdsOf(WantedBoards(now.apps), B)
  /\ now.pc \in {"record", "prune"} => Writes(now.todo) = {}
  /\ now.pc \in {"alerts", "alert"} => Done("boards", WantedBoards(now.apps), B, now.prune)
  /\ now.pc \in {"prune", "alerts", "alert"} /\ now.apps # {} => rec = IdsOf(WantedBoards(now.apps), B)
  /\ now.pc = "alert" => Underway("alerts", WantedAlerts(now.apps, B, now.hook), A, now.prune, now.todo)

LEMMA OnwardMends ==
  ASSUME NEW now, PassOK(now), now.pc # "idle", NEW H, NEW B, NEW A, NEW rec, Mending(now, H, B, A, rec),
         Click!Onward(now).pc # "idle"
  PROVE  Mending(Click!Onward(now), H, B, A, rec)
PROOF
  <1> DEFINE next == Click!Onward(now)
  <1>0. next.pc # "idle"
    OBVIOUS
  <1>1. \/ next = now
        \/ next = Click!Idle
        \/ /\ \/ now.pc = "hook" /\ now.todo = {} /\ next.pc = "dashboards"
              \/ now.pc = "board" /\ Writes(now.todo) = {} /\ next.pc = "record"
              \/ now.pc = "prune" /\ now.todo = {} /\ next.pc = "alerts"
           /\ SameBut(now, next)
    BY Onwards
  <1> HIDE DEF next
  <1>2. CASE next = now
    BY <1>2 DEF next
  <1>3. CASE next = Click!Idle
    BY <1>0, <1>3, IdleOK
  <1>4. CASE SameBut(now, next) /\ now.pc = "hook" /\ now.todo = {} /\ next.pc = "dashboards"
    <2>1. Done("hooks", WantedHooks, H, next.prune) /\ HookNamed(next.hook, H) /\ next.beside = FALSE /\ next.ids = {}
      BY <1>4 DEF Mending, Done, SameBut, Early
    <2> QED BY <1>4, <2>1 DEF Mending, next
  <1>5. CASE SameBut(now, next) /\ now.pc = "board" /\ Writes(now.todo) = {} /\ next.pc = "record"
    <2>1. Done("hooks", WantedHooks, H, next.prune) /\ HookNamed(next.hook, H) /\ next.beside = FALSE
      BY <1>5 DEF Mending, SameBut
    <2>2. /\ Underway("boards", WantedBoards(next.apps), B, next.prune, next.todo)
          /\ next.ids = IdsOf(WantedBoards(next.apps), B) /\ Writes(next.todo) = {}
      BY <1>5 DEF Mending, SameBut
    <2> QED BY <1>5, <2>1, <2>2 DEF Mending, next, Early
  <1>6. CASE SameBut(now, next) /\ now.pc = "prune" /\ now.todo = {} /\ next.pc = "alerts"
    <2>1. Done("hooks", WantedHooks, H, next.prune) /\ HookNamed(next.hook, H) /\ next.beside = FALSE
      BY <1>6 DEF Mending, SameBut
    <2>2. /\ Done("boards", WantedBoards(next.apps), B, next.prune)
          /\ next.apps # {} => rec = IdsOf(WantedBoards(next.apps), B)
      BY <1>6 DEF Mending, SameBut, Done
    <2> QED BY <1>6, <2>1, <2>2 DEF Mending, next, Early
  <1> QED BY <1>1, <1>2, <1>3, <1>4, <1>5, <1>6

LEMMA ListsHooks ==
  ASSUME NEW now, now.pc = "webhooks", NEW H, NEW B, NEW A, NEW rec, Mending(now, H, B, A, rec),
         NEW steps, Plans("hooks", WantedHooks, H, now.prune, steps), OneId(H), NEW hook, HookNamed(hook, H),
         NEW next, ListedNow(now, next, "hook", "hooks", steps, hook)
  PROVE  Mending(next, H, B, A, rec)
PROOF
  <1>1. Underway("hooks", WantedHooks, H, now.prune, {r \in steps : r.op # "keep"})
    BY PlanUnderway, HookNames DEF Click!Kinds
  <1>2. /\ next.pc = "hook" /\ next.todo = {r \in steps : r.op # "keep"} /\ next.hook = hook /\ next.ids = now.ids
        /\ next.prune = now.prune /\ next.beside = now.beside
    BY DEF ListedNow
  <1>3. now.ids = {} /\ now.beside = FALSE
    BY DEF Mending, Early
  <1>4. Underway("hooks", WantedHooks, H, next.prune, next.todo) /\ HookNamed(next.hook, H)
    BY <1>1, <1>2
  <1> QED BY <1>2, <1>3, <1>4 DEF Mending

LEMMA ListsBoards ==
  ASSUME NEW now, now.pc = "dashboards", NEW H, NEW B, NEW A, NEW rec, Mending(now, H, B, A, rec),
         OneEach(WantedBoards(now.apps)),
         NEW steps, Plans("boards", WantedBoards(now.apps), B, now.prune, steps), OneId(B),
         NEW next, ListedNow(now, next, "board", "boards", steps, now.hook)
  PROVE  Mending(next, H, B, A, rec)
PROOF
  <1>1. Underway("boards", WantedBoards(now.apps), B, now.prune, {r \in steps : r.op # "keep"})
    BY PlanUnderway DEF Click!Kinds
  <1>2. /\ next.pc = "board" /\ next.todo = {r \in steps : r.op # "keep"} /\ next.hook = now.hook
        /\ next.ids = now.ids \cup Click!Known(steps, "boards")
        /\ next.apps = now.apps /\ next.prune = now.prune /\ next.beside = now.beside
    BY DEF ListedNow
  <1>3. /\ now.ids = {} /\ now.beside = FALSE /\ HookNamed(now.hook, H) /\ Done("hooks", WantedHooks, H, now.prune)
    BY DEF Mending, Early
  <1>4. Click!Known(steps, "boards") = IdsOf(WantedBoards(now.apps), B)
    <2>1. /\ \A x \in Click!Known(steps, "boards") : x \in IdsOf(WantedBoards(now.apps), B)
          /\ \A x \in B : x.name \in NamesOf(WantedBoards(now.apps)) => <<x.name, x.id>> \in Click!Known(steps, "boards")
      BY PlanKnows
    <2> QED BY <2>1 DEF IdsOf
  <1>5. /\ Underway("boards", WantedBoards(next.apps), B, next.prune, next.todo)
        /\ next.ids = IdsOf(WantedBoards(next.apps), B)
    BY <1>1, <1>2, <1>3, <1>4
  <1>6. HookNamed(next.hook, H) /\ Done("hooks", WantedHooks, H, next.prune)
    BY <1>2, <1>3
  <1> QED BY <1>2, <1>3, <1>5, <1>6 DEF Mending, Early

LEMMA ListsAlerts ==
  ASSUME NEW now, now.pc = "alerts", NEW H, NEW B, NEW A, NEW rec, Mending(now, H, B, A, rec),
         OneEach(WantedAlerts(now.apps, B, now.hook)),
         NEW steps, Plans("alerts", WantedAlerts(now.apps, B, now.hook), A, now.prune, steps), OneId(A),
         NEW next, ListedNow(now, next, "alert", "alerts", steps, now.hook)
  PROVE  Mending(next, H, B, A, rec)
PROOF
  <1>1. Underway("alerts", WantedAlerts(now.apps, B, now.hook), A, now.prune, {r \in steps : r.op # "keep"})
    BY PlanUnderway DEF Click!Kinds
  <1>2. /\ next.pc = "alert" /\ next.todo = {r \in steps : r.op # "keep"} /\ next.hook = now.hook
        /\ next.apps = now.apps /\ next.prune = now.prune /\ next.beside = now.beside
    BY DEF ListedNow
  <1>3. /\ now.beside = FALSE /\ HookNamed(now.hook, H) /\ Done("hooks", WantedHooks, H, now.prune)
        /\ Done("boards", WantedBoards(now.apps), B, now.prune)
        /\ now.apps # {} => rec = IdsOf(WantedBoards(now.apps), B)
    BY DEF Mending
  <1>4. Underway("alerts", WantedAlerts(next.apps, B, next.hook), A, next.prune, next.todo)
    BY <1>1, <1>2
  <1>5. /\ HookNamed(next.hook, H) /\ Done("hooks", WantedHooks, H, next.prune)
        /\ Done("boards", WantedBoards(next.apps), B, next.prune)
        /\ next.apps # {} => rec = IdsOf(WantedBoards(next.apps), B)
    BY <1>2, <1>3
  <1> QED BY <1>2, <1>3, <1>4, <1>5 DEF Mending, Early

LEMMA RecordMends ==
  ASSUME NEW now, now.pc = "record", NEW H, NEW B, NEW A, NEW rec, Mending(now, H, B, A, rec),
         NEW next, next.pc = "prune", SameBut(now, next), NEW after, now.apps # {} => after = now.ids
  PROVE  Mending(next, H, B, A, after)
PROOF
  <1>1. /\ now.beside = FALSE /\ HookNamed(now.hook, H) /\ Done("hooks", WantedHooks, H, now.prune)
        /\ Underway("boards", WantedBoards(now.apps), B, now.prune, now.todo)
        /\ now.ids = IdsOf(WantedBoards(now.apps), B) /\ Writes(now.todo) = {}
    BY DEF Mending
  <1>2. /\ next.beside = FALSE /\ HookNamed(next.hook, H) /\ Done("hooks", WantedHooks, H, next.prune)
        /\ Underway("boards", WantedBoards(next.apps), B, next.prune, next.todo)
        /\ next.ids = IdsOf(WantedBoards(next.apps), B) /\ Writes(next.todo) = {}
        /\ next.apps # {} => after = IdsOf(WantedBoards(next.apps), B)
    BY <1>1 DEF SameBut
  <1> QED BY <1>2 DEF Mending, Early

(* What a request makes of the platform's objects of its kind.             *)
Creation(ours, after, on, r, id) ==
  \E x : x.id = id /\ x.name = r.doc.name /\ Like(on, x, r.doc) /\ after = ours \cup {x}
Update(ours, after, on, r, id) ==
  \E x : /\ x.id = r.id /\ id = r.id /\ x.name = r.doc.name /\ Like(on, x, r.doc)
         /\ after = {y \in ours : y.id # r.id} \cup {x}
Deletion(ours, after, r) == after = {y \in ours : y.id # r.id}
Sent(ours, after, on, r, id) ==
  /\ r.op = "create" => Creation(ours, after, on, r, id)
  /\ r.op = "update" => Update(ours, after, on, r, id)
  /\ r.op = "delete" => Deletion(ours, after, r)

LEMMA SentUnderway ==
  ASSUME NEW on, NEW W, NEW ours, NEW prune, NEW todo, Underway(on, W, ours, prune, todo), OneId(ours), OneEach(W),
         NEW r \in todo, NEW after, NEW id, Sent(ours, after, on, r, id)
  PROVE  /\ Underway(on, W, after, prune, todo \ {r})
         /\ IdsOf(W, after) = IdsOf(W, ours) \cup (IF r.op = "create" THEN {<<r.doc.name, id>>} ELSE {})
PROOF
  <1>0. r.op \in Ops
    BY DEF Underway
  <1>1. CASE r.op = "create"
    <2>1. PICK x : x.id = id /\ x.name = r.doc.name /\ Like(on, x, r.doc) /\ after = ours \cup {x}
      BY <1>1 DEF Sent, Creation
    <2>2. Underway(on, W, ours \cup {x}, prune, todo \ {r}) /\ x.name \in NamesOf(W)
      BY <1>1, <2>1, UnderwayCreates
    <2>3. IdsOf(W, ours \cup {x}) = IdsOf(W, ours) \cup {<<x.name, x.id>>}
      BY <2>2 DEF IdsOf
    <2> QED BY <1>1, <2>1, <2>2, <2>3
  <1>2. CASE r.op = "update"
    <2>1. PICK x : x.id = r.id /\ x.name = r.doc.name /\ Like(on, x, r.doc) /\ after = {y \in ours : y.id # r.id} \cup {x}
      BY <1>2 DEF Sent, Update
    <2>2. /\ Underway(on, W, {y \in ours : y.id # r.id} \cup {x}, prune, todo \ {r})
          /\ x.name \in NamesOf(W) /\ \E z \in ours : z.id = x.id /\ z.name = x.name
      BY <1>2, <2>1, UnderwayUpdates
    <2>3. PICK z \in ours : z.id = x.id /\ z.name = x.name
      BY <2>2
    <2>4. \A y \in ours : y.id = r.id => y = z
      BY <2>1, <2>3 DEF OneId
    <2>5. \A t : t \in IdsOf(W, after) <=> t \in IdsOf(W, ours)
      BY <2>1, <2>2, <2>3, <2>4 DEF IdsOf
    <2>6. IdsOf(W, after) = IdsOf(W, ours)
      BY <2>5
    <2> QED BY <1>2, <2>1, <2>2, <2>6
  <1>3. CASE r.op = "delete"
    <2>1. after = {y \in ours : y.id # r.id}
      BY <1>3 DEF Sent, Deletion
    <2>2. /\ Underway(on, W, {y \in ours : y.id # r.id}, prune, todo \ {r})
          /\ \A y \in ours : y.id = r.id => y.name \notin NamesOf(W)
      BY <1>3, UnderwayDeletes
    <2>3. \A t : t \in IdsOf(W, after) <=> t \in IdsOf(W, ours)
      BY <2>1, <2>2 DEF IdsOf
    <2>4. IdsOf(W, after) = IdsOf(W, ours)
      BY <2>3
    <2> QED BY <1>3, <2>1, <2>2, <2>4
  <1> QED BY <1>0, <1>1, <1>2, <1>3 DEF Ops

(* The webhook the alerts are to name stays known.                         *)
LEMMA SentHook ==
  ASSUME NEW W, NEW H, NEW prune, NEW todo, Underway("hooks", W, H, prune, todo), OneId(H),
         NEW hook, HookNamed(hook, H), NEW r \in todo, r.op \in {"create", "update"},
         NEW after, NEW id, Sent(H, after, "hooks", r, id)
  PROVE  HookNamed(IF r.doc.name = "swhurl notify" THEN id ELSE hook, after)
PROOF
  <1>1. CASE r.op = "create"
    <2>1. PICK x : x.id = id /\ x.name = r.doc.name /\ after = H \cup {x}
      BY <1>1 DEF Sent, Creation
    <2>2. \A y \in H : y.name # r.doc.name
      BY <1>1 DEF Underway
    <2> QED BY <2>1, <2>2 DEF HookNamed
  <1>2. CASE r.op = "update"
    <2>1. PICK x : x.id = r.id /\ id = r.id /\ x.name = r.doc.name /\ after = {y \in H : y.id # r.id} \cup {x}
      BY <1>2 DEF Sent, Update
    <2>2. PICK z \in H : z.id = r.id /\ z.name = r.doc.name
      BY <1>2 DEF Underway
    <2>3. \A y \in H : y.name = r.doc.name => y = z
      BY <2>2 DEF Underway, OneEach
    <2> QED BY <2>1, <2>2, <2>3 DEF HookNamed
  <1> QED BY <1>1, <1>2

StageKind(pc) == IF pc = "hook" THEN "hooks" ELSE IF pc = "alert" THEN "alerts" ELSE "boards"

(* A pass that mends knows what to send, and what is sent mends.           *)
LEMMA MendsKind ==
  ASSUME NEW now, now.pc \in Sends, NEW H, NEW B, NEW A, NEW rec, Mending(now, H, B, A, rec), NEW r \in now.todo
  PROVE  r.on = StageKind(now.pc)
PROOF
  BY DEF Mending, Underway, StageKind, Sends

LEMMA SendsHook ==
  ASSUME NEW now, now.pc = "hook", NEW H, NEW B, NEW A, NEW rec, Mending(now, H, B, A, rec), OneId(H), NEW r \in now.todo,
         r.op # "delete", NEW after, NEW id, Sent(H, after, "hooks", r, id), NEW next, LearntNow(now, next, r, id)
  PROVE  Mending(next, after, B, A, rec)
PROOF
  <1>1. /\ Underway("hooks", WantedHooks, H, now.prune, now.todo) /\ HookNamed(now.hook, H) /\ now.beside = FALSE /\ now.ids = {}
    BY DEF Mending, Early
  <1>2. Underway("hooks", WantedHooks, after, now.prune, now.todo \ {r})
    BY <1>1, HookNames, SentUnderway
  <1>3. r.on = "hooks" /\ r.op \in {"create", "update"}
    BY <1>1 DEF Underway, Ops
  <1>4. HookNamed(IF r.doc.name = "swhurl notify" THEN id ELSE now.hook, after)
    BY <1>1, <1>3, SentHook
  <1>5. Click!Hooks[2] = "swhurl notify"
    BY DEF Click!Hooks
  <1>6. /\ next.pc = "hook" /\ next.todo = now.todo \ {r} /\ next.ids = {} /\ next.prune = now.prune /\ next.beside = FALSE
        /\ next.hook = IF r.doc.name = "swhurl notify" THEN id ELSE now.hook
    BY <1>1, <1>3, <1>5 DEF LearntNow
  <1>7. Underway("hooks", WantedHooks, after, next.prune, next.todo) /\ HookNamed(next.hook, after)
    BY <1>2, <1>4, <1>6
  <1> QED BY <1>6, <1>7 DEF Mending

LEMMA SendsBoard ==
  ASSUME NEW now, now.pc \in {"board", "prune"}, NEW H, NEW B, NEW A, NEW rec, Mending(now, H, B, A, rec), OneId(B),
         OneEach(WantedBoards(now.apps)), NEW r \in now.todo,
         NEW after, NEW id, Sent(B, after, "boards", r, id), NEW next, LearntNow(now, next, r, id)
  PROVE  Mending(next, H, after, A, rec)
PROOF
  <1> DEFINE W == WantedBoards(now.apps)
  <1>1. /\ Underway("boards", W, B, now.prune, now.todo) /\ HookNamed(now.hook, H) /\ now.beside = FALSE
        /\ now.ids = IdsOf(W, B) /\ Done("hooks", WantedHooks, H, now.prune)
        /\ now.pc = "prune" => Writes(now.todo) = {} /\ (now.apps # {} => rec = IdsOf(W, B))
    BY DEF Mending
  <1>3. r.on = "boards"
    BY <1>1 DEF Underway
  <1>4. /\ next.pc = now.pc /\ next.todo = now.todo \ {r} /\ next.prune = now.prune /\ next.beside = FALSE
        /\ next.hook = now.hook /\ next.apps = now.apps
        /\ next.ids = now.ids \cup (IF r.op = "create" THEN {<<r.doc.name, id>>} ELSE {})
    BY <1>1, <1>3 DEF LearntNow
  <1> HIDE DEF W
  <1>2. /\ Underway("boards", W, after, now.prune, now.todo \ {r})
        /\ IdsOf(W, after) = IdsOf(W, B) \cup (IF r.op = "create" THEN {<<r.doc.name, id>>} ELSE {})
    <2>1. OneEach(W)
      BY DEF W
    <2> QED BY <1>1, <2>1, SentUnderway
  <1>5. now.pc = "prune" => Writes(next.todo) = {} /\ (now.apps # {} => rec = IdsOf(W, after))
    <2>1. now.pc = "prune" => r.op # "create"
      BY <1>1 DEF Writes
    <2>2. Writes(next.todo) \subseteq Writes(now.todo)
      BY <1>4 DEF Writes
    <2> QED BY <1>1, <1>2, <2>1, <2>2
  <1>6. next.ids = IdsOf(W, after)
    BY <1>1, <1>2, <1>4
  <1>7. W = WantedBoards(next.apps)
    BY <1>4 DEF W
  <1>8. /\ Underway("boards", WantedBoards(next.apps), after, next.prune, next.todo)
        /\ next.ids = IdsOf(WantedBoards(next.apps), after)
        /\ next.pc = "prune" => Writes(next.todo) = {} /\ (next.apps # {} => rec = IdsOf(WantedBoards(next.apps), after))
    BY <1>2, <1>4, <1>5, <1>6, <1>7
  <1>9. HookNamed(next.hook, H) /\ Done("hooks", WantedHooks, H, next.prune)
    BY <1>1, <1>4
  <1> QED BY <1>4, <1>8, <1>9 DEF Mending, Early

LEMMA SendsAlert ==
  ASSUME NEW now, now.pc = "alert", NEW H, NEW B, NEW A, NEW rec, Mending(now, H, B, A, rec), OneId(A),
         OneEach(WantedAlerts(now.apps, B, now.hook)), NEW r \in now.todo,
         NEW after, NEW id, Sent(A, after, "alerts", r, id), NEW next, LearntNow(now, next, r, id)
  PROVE  Mending(next, H, B, after, rec)
PROOF
  <1>1. /\ Underway("alerts", WantedAlerts(now.apps, B, now.hook), A, now.prune, now.todo) /\ HookNamed(now.hook, H)
        /\ now.beside = FALSE /\ Done("hooks", WantedHooks, H, now.prune)
        /\ Done("boards", WantedBoards(now.apps), B, now.prune)
        /\ now.apps # {} => rec = IdsOf(WantedBoards(now.apps), B)
    BY DEF Mending
  <1>2. Underway("alerts", WantedAlerts(now.apps, B, now.hook), after, now.prune, now.todo \ {r})
    BY <1>1, SentUnderway
  <1>3. r.on = "alerts"
    BY <1>1 DEF Underway
  <1>4. /\ next.pc = "alert" /\ next.todo = now.todo \ {r} /\ next.prune = now.prune /\ next.beside = FALSE
        /\ next.hook = now.hook /\ next.apps = now.apps
    BY <1>1, <1>3 DEF LearntNow
  <1>5. /\ Underway("alerts", WantedAlerts(next.apps, B, next.hook), after, next.prune, next.todo)
        /\ HookNamed(next.hook, H) /\ Done("hooks", WantedHooks, H, next.prune)
        /\ Done("boards", WantedBoards(next.apps), B, next.prune)
        /\ next.apps # {} => rec = IdsOf(WantedBoards(next.apps), B)
    BY <1>1, <1>2, <1>4
  <1> QED BY <1>4, <1>5 DEF Mending, Early

(* A document a plan may send: what is made of it is the platform's.       *)
Sendable(r) == r.op # "delete" => IF r.on = "boards" THEN r.doc.tagged ELSE r.doc.id = 0

LEMMA Unnumbered ==
  ASSUME NEW on \in Click!Kinds, NEW d \in Docs(on), d.id = 0, NEW n \in Nat
  PROVE  [[d EXCEPT !.id = n] EXCEPT !.id = 0] = d
PROOF
  <1>1. CASE on = "boards"
    BY <1>1 DEF Docs, Boards
  <1>2. CASE on = "alerts"
    BY <1>2 DEF Docs, Alerts
  <1>3. CASE on = "hooks"
    BY <1>3 DEF Docs, HookDocs
  <1> QED BY <1>1, <1>2, <1>3 DEF Click!Kinds

LEMMA SentOurs ==
  ASSUME ClickTypes, NEW r \in Asks, Click!Possible(r), Click!Applied(r), Sendable(r)
  PROVE  /\ Sent(Click!Ours(r.on), Click!Ours(r.on)', r.on, r, Click!Numbered(r).id)
         /\ \A k \in Click!Kinds : k # r.on => Click!Ours(k)' = Click!Ours(k)
PROOF
  <1> DEFINE O(k) == Click!Ours(k)
             N(k) == Click!Ours(k)'
             id == Click!Numbered(r).id
  <1>1. r.on \in Click!Kinds /\ r.op \in Ops /\ r.id \in Nat /\ r.doc \in Docs(r.on)
    BY KindOf
  <1>2. DOMAIN click = Click!Kinds /\ made[r.on] \in Nat
    BY <1>1 DEF ClickTypes
  <1>3. CASE r.op = "create"
    <2>1. PICK x \in Docs(r.on) :
            /\ x = Click!Numbered(r)
            /\ Adds(r.on, x) /\ x.name = r.doc.name
            /\ r.on = "boards" => x.tagged = r.doc.tagged /\ x.body = r.doc.body
      BY <1>3, Creating
    <2>2. click' = [click EXCEPT ![r.on] = @ \cup {x}]
      BY <2>1 DEF Adds
    <2>3. click'[r.on] = click[r.on] \cup {x} /\ \A k \in Click!Kinds : k # r.on => click'[k] = click[k]
      BY <1>1, <1>2, <2>2
    <2>4. r.on = "boards" => x.tagged
      BY <1>3, <2>1 DEF Sendable
    <2>5. N(r.on) = O(r.on) \cup {x}
      BY <2>3, <2>4 DEF Click!Ours, Click!Tagged
    <2>6. \A k \in Click!Kinds : k # r.on => N(k) = O(k)
      BY <2>3 DEF Click!Ours, Click!Tagged
    <2>7. Like(r.on, x, r.doc)
      <3>1. CASE r.on = "boards"
        BY <2>1, <3>1 DEF Like
      <3>2. CASE r.on # "boards"
        <4>1. x = [r.doc EXCEPT !.id = made[r.on] + 1]
          BY <1>3, <2>1, <3>2 DEF Click!Numbered
        <4>2. r.doc.id = 0 /\ made[r.on] + 1 \in Nat
          BY <1>2, <1>3, <3>2 DEF Sendable
        <4>3. [[r.doc EXCEPT !.id = made[r.on] + 1] EXCEPT !.id = 0] = r.doc
          BY <1>1, <4>2, Unnumbered
        <4> QED BY <3>2, <4>1, <4>3 DEF Like
      <3> QED BY <3>1, <3>2
    <2> HIDE DEF O, N, id
    <2>8. x.id = id
      BY <2>1 DEF id
    <2>9. Creation(O(r.on), N(r.on), r.on, r, id)
      BY <2>1, <2>5, <2>7, <2>8 DEF Creation
    <2>10. Sent(O(r.on), N(r.on), r.on, r, id)
      BY <1>3, <2>9 DEF Sent
    <2> QED BY <2>6, <2>10 DEF O, N, id
  <1>4. CASE r.op = "update"
    <2>1. PICK x \in Docs(r.on) :
            /\ x = Click!Numbered(r)
            /\ Replaces(r.on, x) /\ x.id = r.id /\ x.name = r.doc.name
            /\ r.on = "boards" => x.tagged = r.doc.tagged /\ x.body = r.doc.body
            /\ r.on # "boards" => x = [r.doc EXCEPT !.id = r.id]
      BY <1>4, Updating
    <2>2. click' = [click EXCEPT ![r.on] = {y \in click[r.on] : y.id # r.id} \cup {x}]
      BY <2>1 DEF Replaces
    <2>3. click'[r.on] = {y \in click[r.on] : y.id # r.id} \cup {x} /\ \A k \in Click!Kinds : k # r.on => click'[k] = click[k]
      BY <1>1, <1>2, <2>2
    <2>4. r.on = "boards" => x.tagged
      BY <1>4, <2>1 DEF Sendable
    <2>5. N(r.on) = {y \in O(r.on) : y.id # r.id} \cup {x}
      BY <2>3, <2>4 DEF Click!Ours, Click!Tagged
    <2>6. \A k \in Click!Kinds : k # r.on => N(k) = O(k)
      BY <2>3 DEF Click!Ours, Click!Tagged
    <2>7. Like(r.on, x, r.doc)
      <3>1. CASE r.on = "boards"
        BY <2>1, <3>1 DEF Like
      <3>2. CASE r.on # "boards"
        <4>2. r.doc.id = 0
          BY <1>4, <3>2 DEF Sendable
        <4>3. [[r.doc EXCEPT !.id = r.id] EXCEPT !.id = 0] = r.doc
          BY <1>1, <4>2, Unnumbered
        <4> QED BY <2>1, <3>2, <4>3 DEF Like
      <3> QED BY <3>1, <3>2
    <2> HIDE DEF O, N, id
    <2>8. x.id = id
      BY <2>1 DEF id
    <2>9. Update(O(r.on), N(r.on), r.on, r, id)
      BY <2>1, <2>5, <2>7, <2>8 DEF Update
    <2>10. Sent(O(r.on), N(r.on), r.on, r, id)
      BY <1>4, <2>9 DEF Sent
    <2> QED BY <2>6, <2>10 DEF O, N, id
  <1>5. CASE r.op = "delete"
    <2>1. Removes(r.on, r.id)
      BY <1>5, Deleting
    <2>2. click' = [click EXCEPT ![r.on] = {y \in click[r.on] : y.id # r.id}]
      BY <2>1 DEF Removes
    <2>3. click'[r.on] = {y \in click[r.on] : y.id # r.id} /\ \A k \in Click!Kinds : k # r.on => click'[k] = click[k]
      BY <1>1, <1>2, <2>2
    <2>5. N(r.on) = {y \in O(r.on) : y.id # r.id}
      BY <2>3 DEF Click!Ours, Click!Tagged
    <2>6. \A k \in Click!Kinds : k # r.on => N(k) = O(k)
      BY <2>3 DEF Click!Ours, Click!Tagged
    <2> HIDE DEF O, N, id
    <2>10. Sent(O(r.on), N(r.on), r.on, r, id)
      BY <1>5, <2>5 DEF Sent, Deletion
    <2> QED BY <2>6, <2>10 DEF O, N, id
  <1> QED BY <1>1, <1>3, <1>4, <1>5 DEF Ops

(* What the plans want may be sent.                                        *)
LEMMA HooksSendable == \A w \in WantedHooks : w.id = 0
PROOF
  <1>1. Click!Hook("ntfy: platform").id = 0 /\ Click!Hook("swhurl notify").id = 0
    BY DEF Click!Hook
  <1> QED BY <1>1 DEF WantedHooks

LEMMA AlertsSendable ==
  ASSUME NEW apps, NEW boards, NEW hook, NEW w \in WantedAlerts(apps, boards, hook)
  PROVE  w.id = 0
PROOF
  <1>1. PICK app \in apps : w \in UNION {Click!WantedAlerts(app, b, hook) : b \in {b \in boards : b.name = app.name}}
    BY DEF WantedAlerts
  <1>2. PICK b \in {b \in boards : b.name = app.name} : w \in Click!WantedAlerts(app, b, hook)
    BY <1>1
  <1> QED BY <1>2 DEF Click!WantedAlerts

LEMMA MendsSendable ==
  ASSUME NEW now, now.pc \in Sends, NEW H, NEW B, NEW A, NEW rec, Mending(now, H, B, A, rec), NEW r \in now.todo,
         PassOK(now)
  PROVE  Sendable(r)
PROOF
  <1>0. SUFFICES ASSUME r.op # "delete"
                 PROVE  IF r.on = "boards" THEN r.doc.tagged ELSE r.doc.id = 0
    BY DEF Sendable
  <1>1. r \in Writes(now.todo)
    BY <1>0 DEF Writes
  <1>2. CASE now.pc = "hook"
    <2>1. r.on = "hooks" /\ r.doc \in WantedHooks
      BY <1>1, <1>2 DEF Mending, Underway
    <2> QED BY <2>1, HooksSendable
  <1>3. CASE now.pc \in {"board", "prune"}
    <2>1. r.on = "boards" /\ r.doc \in WantedBoards(now.apps)
      BY <1>1, <1>3 DEF Mending, Underway
    <2> QED BY <2>1 DEF WantedBoards, Click!Definition
  <1>4. CASE now.pc = "alert"
    <2>1. r.on = "alerts" /\ r.doc \in WantedAlerts(now.apps, B, now.hook)
      BY <1>1, <1>4 DEF Mending, Underway
    <2>2. r.doc.id = 0
      BY <2>1, AlertsSendable
    <2> QED BY <2>1, <2>2
  <1> QED BY <1>2, <1>3, <1>4 DEF Sends

(* A pass under way that nothing disturbed.                                *)
Calm(p) == pass[p].pc # "idle" /\ ~pass[p].disturbed
MendsNow(p) == Mending(pass[p], Click!Ours("hooks"), Click!Ours("boards"), Click!Ours("alerts"), record)
CalmMends == \A p \in Click!Passes : Calm(p) => MendsNow(p)

LEMMA OursOnce ==
  ASSUME ClickTypes
  PROVE  OneId(Click!Ours("hooks")) /\ OneId(Click!Ours("boards")) /\ OneId(Click!Ours("alerts"))
PROOF
  <1>1. \A on \in Click!Kinds : Click!Ours(on) \subseteq click[on]
    BY OursOf
  <1> QED BY <1>1 DEF ClickTypes, OneId, Click!Kinds

LEMMA OnwardSame ==
  ASSUME NEW now, PassOK(now), now.pc # "idle", Click!Onward(now).pc # "idle"
  PROVE  Click!Onward(now).disturbed = now.disturbed
PROOF
  BY Onwards, IdleOK DEF SameBut

(* What the pass needs of its apps.                                        *)
LEMMA AppsOnce ==
  ASSUME NEW now, PassOK(now), ClickTypes, OneEach(Click!Ours("boards"))
  PROVE  /\ OneEach(WantedBoards(now.apps))
         /\ OneEach(WantedAlerts(now.apps, Click!Ours("boards"), now.hook))
PROOF
  <1>1. now.apps \in SUBSET AppDocs /\ OneEach(now.apps) /\ now.hook \in Nat
    BY DEF PassOK, PassTypes
  <1>2. Click!Ours("boards") \in SUBSET Boards
    BY OursOf DEF Docs, Click!Kinds
  <1> QED BY <1>1, <1>2, AppNames, AlertNames

LEMMA CalmSends ==
  ASSUME DashTypes, NEW p \in Click!Passes, Calm(p), MendsNow(p), NEW r \in pass[p].todo, Requests(p, r)
  PROVE  /\ PassOK(Click!Learnt(pass[p], r, Click!Numbered(r).id))
         /\ LearntNow(pass[p], Click!Learnt(pass[p], r, Click!Numbered(r).id), r, Click!Numbered(r).id)
         /\ Mending(Click!Learnt(pass[p], r, Click!Numbered(r).id),
                    Click!Ours("hooks")', Click!Ours("boards")', Click!Ours("alerts")', record')
PROOF
  <1> DEFINE now == pass[p]
             H == Click!Ours("hooks")
             B == Click!Ours("boards")
             A == Click!Ours("alerts")
             H2 == Click!Ours("hooks")'
             B2 == Click!Ours("boards")'
             A2 == Click!Ours("alerts")'
             id == Click!Numbered(r).id
             next == Click!Learnt(pass[p], r, id)
  <1>1. ClickTypes /\ PassOK(now) /\ now.pc \in Sends /\ now.pc # "idle" /\ Mending(now, H, B, A, record)
    BY DEF DashTypes, Requests, MendsNow, Calm
  <1>2. r \in Asks
    BY RequestPass
  <1>6. PassOK(next) /\ LearntNow(now, next, r, id)
    BY <1>1, <1>2, NumberedId, LearntOK
  <1>7. r.on = StageKind(now.pc) /\ Sendable(r)
    BY <1>1, MendsKind, MendsSendable
  <1>8. /\ Sent(Click!Ours(r.on), Click!Ours(r.on)', r.on, r, id)
        /\ \A k \in Click!Kinds : k # r.on => Click!Ours(k)' = Click!Ours(k)
    <2>1. Click!Possible(r) /\ Click!Applied(r)
      BY DEF Requests
    <2> QED BY <1>1, <1>2, <1>7, <2>1, SentOurs
  <1>9. OneId(H) /\ OneId(B) /\ OneId(A)
    BY <1>1, OursOnce
  <1>10. record' = record
    BY DEF Requests
  <1>11. "hooks" \in Click!Kinds /\ "boards" \in Click!Kinds /\ "alerts" \in Click!Kinds
    BY DEF Click!Kinds
  <1>12. CASE now.pc = "hook"
    <2>1. r.on = "hooks"
      BY <1>7, <1>12 DEF StageKind
    <2>2. Sent(H, H2, "hooks", r, id) /\ B2 = B /\ A2 = A
      BY <1>8, <1>11, <2>1
    <2>3. r.op # "delete"
      BY <1>1, <2>1 DEF PassOK
    <2> HIDE DEF now, H, B, A, H2, B2, A2, id, next
    <2>4. r \in now.todo
      BY DEF now
    <2>5. Mending(next, H2, B, A, record)
      BY <1>1, <1>6, <1>9, <1>12, <2>2, <2>3, <2>4, SendsHook
    <2>6. Mending(next, H2, B2, A2, record')
      BY <1>10, <2>2, <2>5
    <2> QED BY <1>6, <2>6 DEF now, H2, B2, A2, next, id
  <1>13. CASE now.pc \in {"board", "prune"}
    <2>1. r.on = "boards"
      BY <1>7, <1>13 DEF StageKind
    <2>2. Sent(B, B2, "boards", r, id) /\ H2 = H /\ A2 = A
      BY <1>8, <1>11, <2>1
    <2>3. OneEach(WantedBoards(now.apps))
      <3>1. OneEach(B)
        BY <1>1, <1>13 DEF Mending, Underway
      <3> QED BY <1>1, <3>1, AppsOnce
    <2> HIDE DEF now, H, B, A, H2, B2, A2, id, next
    <2>4. r \in now.todo
      BY DEF now
    <2>5. Mending(next, H, B2, A, record)
      BY <1>1, <1>6, <1>9, <1>13, <2>2, <2>3, <2>4, SendsBoard
    <2>6. Mending(next, H2, B2, A2, record')
      BY <1>10, <2>2, <2>5
    <2> QED BY <1>6, <2>6 DEF now, H2, B2, A2, next, id
  <1>14. CASE now.pc = "alert"
    <2>1. r.on = "alerts"
      BY <1>7, <1>14 DEF StageKind
    <2>2. Sent(A, A2, "alerts", r, id) /\ H2 = H /\ B2 = B
      BY <1>8, <1>11, <2>1
    <2>3. OneEach(WantedAlerts(now.apps, B, now.hook))
      <3>1. OneEach(B)
        BY <1>1, <1>14 DEF Mending, Done, Underway
      <3> QED BY <1>1, <3>1, AppsOnce
    <2> HIDE DEF now, H, B, A, H2, B2, A2, id, next
    <2>4. r \in now.todo
      BY DEF now
    <2>5. Mending(next, H, B, A2, record)
      BY <1>1, <1>6, <1>9, <1>14, <2>2, <2>3, <2>4, SendsAlert
    <2>6. Mending(next, H2, B2, A2, record')
      BY <1>10, <2>2, <2>5
    <2> QED BY <1>6, <2>6 DEF now, H2, B2, A2, next, id
  <1> QED BY <1>1, <1>12, <1>13, <1>14 DEF Sends

LEMMA CalmRequests ==
  ASSUME DashTypes, NEW p \in Click!Passes, Calm(p), MendsNow(p), NEW r \in pass[p].todo, Requests(p, r), Calm(p)'
  PROVE  MendsNow(p)'
PROOF
  <1> DEFINE now == pass[p]
             id == Click!Numbered(r).id
             next == Click!Learnt(pass[p], r, id)
             H2 == Click!Ours("hooks")'
             B2 == Click!Ours("boards")'
             A2 == Click!Ours("alerts")'
  <1>2. \/ pass'[p] = Click!Idle
        \/ \E n \in {0, id} :
             /\ n \in Nat /\ pass'[p] = Click!Onward(Click!Learnt(now, r, n))
             /\ PassOK(Click!Learnt(now, r, n)) /\ LearntNow(now, Click!Learnt(now, r, n), r, n)
             /\ Click!Learnt(now, r, n).pc # "idle"
    BY RequestPass
  <1>3. pass'[p].pc # "idle" /\ ~pass'[p].disturbed /\ ~now.disturbed
    BY DEF Calm
  <1>4. PICK n \in {0, id} :
          /\ n \in Nat /\ pass'[p] = Click!Onward(Click!Learnt(now, r, n))
          /\ PassOK(Click!Learnt(now, r, n)) /\ LearntNow(now, Click!Learnt(now, r, n), r, n)
          /\ Click!Learnt(now, r, n).pc # "idle"
    BY <1>2, <1>3, IdleOK
  <1>5. n = id
    <2>1. Click!Onward(Click!Learnt(now, r, n)).disturbed = Click!Learnt(now, r, n).disturbed
      BY <1>3, <1>4, OnwardSame
    <2>2. ~(now.disturbed \/ n = 0)
      BY <1>3, <1>4, <2>1 DEF LearntNow
    <2> QED BY <2>2
  <1>6. /\ pass'[p] = Click!Onward(next) /\ PassOK(next) /\ next.pc # "idle" /\ Click!Onward(next).pc # "idle"
    BY <1>3, <1>4, <1>5
  <1>7. Mending(next, H2, B2, A2, record')
    BY CalmSends
  <1> HIDE DEF now, H2, B2, A2, id, next
  <1>8. Mending(Click!Onward(next), H2, B2, A2, record')
    BY <1>6, <1>7, OnwardMends
  <1> QED BY <1>6, <1>8 DEF MendsNow, H2, B2, A2

(* The dashboards the alerts are made for are all there are.               *)
LEMMA AllListed ==
  ASSUME NEW B, OneEach(B), NEW boards \in SUBSET B, {b.name : b \in boards} = {b.name : b \in B}
  PROVE  boards = B
PROOF
  <1>1. ASSUME NEW b \in B
        PROVE  b \in boards
    <2>1. b.name \in {x.name : x \in boards}
      OBVIOUS
    <2>2. PICK x \in boards : x.name = b.name
      BY <2>1
    <2> QED BY <2>2 DEF OneEach
  <1> QED BY <1>1

LEMMA CalmListed ==
  ASSUME DashTypes, NEW p \in Click!Passes, Calm(p), MendsNow(p), NEW on \in Click!Kinds, NEW W, Lists(p, on, W),
         \/ on = "hooks" /\ W = WantedHooks
         \/ on = "boards" /\ W = WantedBoards(pass[p].apps)
         \/ /\ on = "alerts" /\ OneEach(Click!Ours("boards"))
            /\ W = WantedAlerts(pass[p].apps, Click!Ours("boards"), pass[p].hook)
  PROVE  \E next : /\ PassOK(next) /\ next.pc = StageOf(on) /\ next.apps = pass[p].apps
                   /\ pass'[p] = Click!Onward(next)
                   /\ Mending(next, Click!Ours("hooks")', Click!Ours("boards")', Click!Ours("alerts")', record')
PROOF
  <1> DEFINE now == pass[p]
             H == Click!Ours("hooks")
             B == Click!Ours("boards")
             A == Click!Ours("alerts")
  <1>1. ClickTypes /\ PassOK(now) /\ now.pc = StageBefore(on) /\ now.pc # "idle" /\ Mending(now, H, B, A, record)
    BY DEF DashTypes, Lists, MendsNow, Calm
  <1>2. PICK steps, next : \E hook \in Nat :
          /\ Plans(on, W, Click!Ours(on), now.prune, steps) /\ Hooked(p, on, hook)
          /\ PassOK(next) /\ ListedNow(now, next, StageOf(on), on, steps, hook)
          /\ pass'[p] = Click!Onward(next)
    BY ListPass
  <1>3. PICK hook \in Nat :
          /\ Plans(on, W, Click!Ours(on), now.prune, steps) /\ Hooked(p, on, hook)
          /\ PassOK(next) /\ ListedNow(now, next, StageOf(on), on, steps, hook)
          /\ pass'[p] = Click!Onward(next)
    BY <1>2
  <1>4. OneId(H) /\ OneId(B) /\ OneId(A)
    BY <1>1, OursOnce
  <1>5. click' = click /\ record' = record
    BY DEF Lists
  <1>6. Click!Ours("hooks")' = H /\ Click!Ours("boards")' = B /\ Click!Ours("alerts")' = A
    BY <1>5 DEF Click!Ours, Click!Tagged
  <1>8. Mending(next, H, B, A, record)
    <2>1. CASE on = "hooks" /\ W = WantedHooks
      <3>1. now.pc = "webhooks" /\ StageOf(on) = "hook"
        BY <1>1, <2>1 DEF StageBefore, StageOf
      <3>2. Plans("hooks", WantedHooks, H, now.prune, steps) /\ HookNamed(hook, H) /\ ListedNow(now, next, "hook", "hooks", steps, hook)
        BY <1>3, <2>1, <3>1 DEF Hooked
      <3> HIDE DEF now, H, B, A
      <3> QED BY <1>1, <1>4, <3>1, <3>2, ListsHooks
    <2>2. CASE on = "boards" /\ W = WantedBoards(now.apps)
      <3>1. now.pc = "dashboards" /\ StageOf(on) = "board"
        BY <1>1, <2>2 DEF StageBefore, StageOf
      <3>2. Plans("boards", WantedBoards(now.apps), B, now.prune, steps) /\ hook = now.hook
        BY <1>3, <2>2 DEF Hooked
      <3>3. ListedNow(now, next, "board", "boards", steps, now.hook)
        BY <1>3, <2>2, <3>1, <3>2
      <3>4. OneEach(WantedBoards(now.apps))
        BY <1>1, <3>2, AppsOnce DEF Plans
      <3> HIDE DEF now, H, B, A
      <3> QED BY <1>1, <1>4, <3>1, <3>2, <3>3, <3>4, ListsBoards
    <2>3. CASE on = "alerts" /\ OneEach(B) /\ W = WantedAlerts(now.apps, B, now.hook)
      <3>1. now.pc = "alerts" /\ StageOf(on) = "alert"
        BY <1>1, <2>3 DEF StageBefore, StageOf
      <3>2. Plans("alerts", WantedAlerts(now.apps, B, now.hook), A, now.prune, steps) /\ hook = now.hook
        BY <1>3, <2>3 DEF Hooked
      <3>3. ListedNow(now, next, "alert", "alerts", steps, now.hook)
        BY <1>3, <2>3, <3>1, <3>2
      <3>4. OneEach(WantedAlerts(now.apps, B, now.hook))
        BY <1>1, <2>3, AppsOnce
      <3> HIDE DEF now, H, B, A
      <3> QED BY <1>1, <1>4, <3>1, <3>2, <3>3, <3>4, ListsAlerts
    <2> QED BY <2>1, <2>2, <2>3
  <1>9. next.pc = StageOf(on) /\ next.apps = now.apps
    BY <1>3 DEF ListedNow
  <1> HIDE DEF H, B, A
  <1>10. Mending(next, Click!Ours("hooks")', Click!Ours("boards")', Click!Ours("alerts")', record')
    BY <1>5, <1>6, <1>8
  <1> QED BY <1>3, <1>9, <1>10

LEMMA CalmLists ==
  ASSUME DashTypes, NEW p \in Click!Passes, Calm(p), MendsNow(p), Calm(p)', NEW on \in Click!Kinds, NEW W, Lists(p, on, W),
         \/ on = "hooks" /\ W = WantedHooks
         \/ on = "boards" /\ W = WantedBoards(pass[p].apps)
         \/ /\ on = "alerts" /\ OneEach(Click!Ours("boards"))
            /\ W = WantedAlerts(pass[p].apps, Click!Ours("boards"), pass[p].hook)
  PROVE  MendsNow(p)'
PROOF
  <1> DEFINE H2 == Click!Ours("hooks")'
             B2 == Click!Ours("boards")'
             A2 == Click!Ours("alerts")'
  <1>1. PICK next : /\ PassOK(next) /\ next.pc = StageOf(on) /\ pass'[p] = Click!Onward(next)
                    /\ Mending(next, H2, B2, A2, record')
    BY CalmListed
  <1>2. Click!Onward(next).pc # "idle" /\ next.pc # "idle"
    BY <1>1 DEF Calm, StageOf
  <1> HIDE DEF H2, B2, A2
  <1>3. Mending(Click!Onward(next), H2, B2, A2, record')
    BY <1>1, <1>2, OnwardMends
  <1> QED BY <1>1, <1>3 DEF MendsNow, H2, B2, A2

LEMMA CalmRecords ==
  ASSUME DashTypes, NEW p \in Click!Passes, Calm(p), MendsNow(p), Calm(p)', RecordsIds(p)
  PROVE  MendsNow(p)'
PROOF
  <1> DEFINE now == pass[p]
             H == Click!Ours("hooks")
             B == Click!Ours("boards")
             A == Click!Ours("alerts")
  <1>1. ClickTypes /\ PassOK(now) /\ now.pc = "record" /\ Mending(now, H, B, A, record)
    BY DEF DashTypes, RecordsIds, MendsNow
  <1>2. PICK next : PassOK(next) /\ next.pc = "prune" /\ SameBut(now, next) /\ pass'[p] = Click!Onward(next)
    BY RecordPass
  <1>3. Click!Recordable(now.ids) = now.ids
    <2>1. now.ids = IdsOf(WantedBoards(now.apps), B)
      BY <1>1 DEF Mending
    <2>2. \A x \in B : x.id >= 1
      BY <1>1, OursOf DEF ClickTypes, Click!Kinds
    <2>3. \A x \in B : x.id # 0
      BY <2>2
    <2> HIDE DEF B
    <2>4. \A x \in now.ids : x[2] # 0
      BY <2>1, <2>3 DEF IdsOf
    <2> QED BY <2>4 DEF Click!Recordable
  <1>4. now.apps # {} => record' = now.ids
    BY <1>1, <1>3 DEF RecordsIds, Click!Writing
  <1>5. click' = click
    BY DEF RecordsIds
  <1>6. Click!Ours("hooks")' = H /\ Click!Ours("boards")' = B /\ Click!Ours("alerts")' = A
    BY <1>5 DEF Click!Ours, Click!Tagged
  <1>7. Click!Onward(next).pc # "idle" /\ next.pc # "idle"
    BY <1>2 DEF Calm
  <1> HIDE DEF now, H, B, A
  <1>8. Mending(next, H, B, A, record')
    BY <1>1, <1>2, <1>4, RecordMends
  <1>9. Mending(Click!Onward(next), H, B, A, record')
    BY <1>2, <1>7, <1>8, OnwardMends
  <1> QED BY <1>2, <1>6, <1>9 DEF MendsNow

LEMMA CalmStarts ==
  ASSUME DashTypes, NEW p \in Click!Passes, Calm(p)', NEW q \in Click!Passes, StartsPass(q)
  PROVE  MendsNow(p)'
PROOF
  <1>1. PassesOK
    BY DEF DashTypes, PassesOK
  <1>2. /\ PassesOK'
        /\ pass'[q].pc = "webhooks" /\ pass'[q].ids = {}
        /\ \A o \in Click!Passes : o # q => SameWork(pass[o], pass'[o])
        /\ Click!Overlaps(q) => \A o \in Click!Passes : pass'[o].disturbed
        /\ ~Click!Overlaps(q) => ~pass'[q].beside
    BY <1>1, PassStarts
  <1>3. ~Click!Overlaps(q)
    BY <1>2 DEF Calm
  <1>4. p = q
    BY <1>2, <1>3 DEF Calm, Click!Overlaps, SameWork
  <1>5. pass'[p] \in PassTypes
    BY <1>2 DEF PassesOK
  <1>6. pass'[p].beside = FALSE
    BY <1>2, <1>3, <1>4, <1>5 DEF PassTypes
  <1> QED BY <1>2, <1>4, <1>6 DEF MendsNow, Mending

(* What others do disturbs the pass.                                       *)
LEMMA CalmOthers ==
  ASSUME DashTypes, CalmMends, OtherStep
  PROVE  CalmMends'
PROOF
  <1>1. CASE Stands
    <2>1. pass' = pass /\ click' = click /\ record' = record
      BY <1>1 DEF Stands
    <2>2. \A k : Click!Ours(k)' = Click!Ours(k)
      BY <2>1 DEF Click!Ours, Click!Tagged
    <2>3. \A p \in Click!Passes : (Calm(p)' <=> Calm(p)) /\ (MendsNow(p)' <=> MendsNow(p))
      BY <2>1, <2>2 DEF Calm, MendsNow
    <2> QED BY <2>3 DEF CalmMends
  <1>2. CASE Click!Disturbed
    <2>1. PassesOK
      BY DEF DashTypes, PassesOK
    <2>2. \A q \in Click!Passes : SameWork(pass[q], pass'[q]) /\ (pass[q].pc # "idle" => pass'[q].disturbed)
      BY <1>2, <2>1, DisturbedPasses
    <2>3. \A q \in Click!Passes : ~Calm(q)'
      BY <2>2 DEF Calm, SameWork
    <2> QED BY <2>3 DEF CalmMends
  <1>3. Stands \/ Click!Disturbed
    BY DEF OtherStep, LateRecord, LateRequest, PersonActs, Outside
  <1> QED BY <1>1, <1>2, <1>3

LEMMA CalmWorks ==
  ASSUME DashTypes, NEW p \in Click!Passes, Calm(p), MendsNow(p), Calm(p)', PassStep(p)
  PROVE  MendsNow(p)'
PROOF
  <1>1. CASE StartsPass(p)
    BY <1>1, CalmStarts
  <1>2. CASE GivesUp(p)
    <2>1. pass'[p] = Click!Idle
      BY <1>2, GiveUpPass
    <2> QED BY <2>1, IdleOK DEF Calm
  <1>3. CASE RecordsIds(p)
    BY <1>3, CalmRecords
  <1>4. ASSUME NEW r \in pass[p].todo, Requests(p, r)
        PROVE  MendsNow(p)'
    BY <1>4, CalmRequests
  <1>5. CASE Lists(p, "hooks", WantedHooks)
    <2>1. "hooks" \in Click!Kinds
      BY DEF Click!Kinds
    <2> QED BY <1>5, <2>1, CalmLists
  <1>6. CASE Lists(p, "boards", WantedBoards(pass[p].apps))
    <2>1. "boards" \in Click!Kinds
      BY DEF Click!Kinds
    <2> QED BY <1>6, <2>1, CalmLists
  <1>7. ASSUME NEW boards \in SUBSET Click!Ours("boards"),
               {b.name : b \in boards} = {b.name : b \in Click!Ours("boards")},
               Lists(p, "alerts", WantedAlerts(pass[p].apps, boards, pass[p].hook))
        PROVE  MendsNow(p)'
    <2>1. "alerts" \in Click!Kinds
      BY DEF Click!Kinds
    <2>2. pass[p].pc = "alerts"
      BY <1>7 DEF Lists, StageBefore
    <2>3. OneEach(Click!Ours("boards"))
      BY <2>2 DEF MendsNow, Mending, Done, Underway
    <2> DEFINE B == Click!Ours("boards")
    <2> HIDE DEF B
    <2>4. OneEach(B) /\ boards \in SUBSET B /\ {b.name : b \in boards} = {b.name : b \in B}
      BY <1>7, <2>3 DEF B
    <2>5. boards = B
      BY <2>4, AllListed
    <2>6. Lists(p, "alerts", WantedAlerts(pass[p].apps, Click!Ours("boards"), pass[p].hook))
      BY <1>7, <2>5 DEF B
    <2> QED BY <2>1, <2>3, <2>6, CalmLists
  <1> QED BY <1>1, <1>2, <1>3, <1>4, <1>5, <1>6, <1>7 DEF PassStep

LEMMA PassMoves ==
  ASSUME DashTypes, NEW q \in Click!Passes, PassStep(q), ~StartsPass(q)
  PROVE  pass[q].pc # "idle" /\ \A p \in Click!Passes : p # q => pass'[p] = pass[p]
PROOF
  <1>1. CASE GivesUp(q)
    BY <1>1, GiveUpPass DEF GivesUp
  <1>2. CASE RecordsIds(q)
    BY <1>2, RecordPass DEF RecordsIds
  <1>3. ASSUME NEW r \in pass[q].todo, Requests(q, r)
        PROVE  pass[q].pc # "idle" /\ \A p \in Click!Passes : p # q => pass'[p] = pass[p]
    <2>1. pass[q].pc # "idle"
      BY <1>3 DEF Requests, Sends
    <2> QED BY <1>3, <2>1, RequestPass
  <1>4. ASSUME NEW on \in Click!Kinds, NEW W, Lists(q, on, W)
        PROVE  pass[q].pc # "idle" /\ \A p \in Click!Passes : p # q => pass'[p] = pass[p]
    <2>1. pass[q].pc # "idle"
      BY <1>4 DEF Lists, StageBefore
    <2> QED BY <1>4, <2>1, ListPass
  <1>5. "hooks" \in Click!Kinds /\ "boards" \in Click!Kinds /\ "alerts" \in Click!Kinds
    BY DEF Click!Kinds
  <1> QED BY <1>1, <1>2, <1>3, <1>4, <1>5 DEF PassStep

(* A pass once disturbed stays so until it ends.                           *)
LEMMA StaysDisturbed ==
  ASSUME DashTypes, NEW p \in Click!Passes, PassStep(p), ~StartsPass(p), pass[p].disturbed
  PROVE  pass'[p].disturbed \/ pass'[p].pc = "idle"
PROOF
  <1>0. \A next : PassOK(next) /\ next.pc # "idle" /\ next.disturbed /\ pass'[p] = Click!Onward(next) =>
          pass'[p].disturbed \/ pass'[p].pc = "idle"
    BY OnwardSame
  <1>1. CASE GivesUp(p)
    BY <1>1, GiveUpPass, IdleOK
  <1>2. CASE RecordsIds(p)
    <2>1. PICK next : PassOK(next) /\ next.pc = "prune" /\ SameBut(pass[p], next) /\ pass'[p] = Click!Onward(next)
      BY <1>2, RecordPass
    <2> QED BY <1>0, <2>1 DEF SameBut
  <1>3. ASSUME NEW r \in pass[p].todo, Requests(p, r)
        PROVE  pass'[p].disturbed \/ pass'[p].pc = "idle"
    <2>1. \/ pass'[p] = Click!Idle
          \/ \E id : /\ pass'[p] = Click!Onward(Click!Learnt(pass[p], r, id))
                     /\ PassOK(Click!Learnt(pass[p], r, id)) /\ LearntNow(pass[p], Click!Learnt(pass[p], r, id), r, id)
                     /\ Click!Learnt(pass[p], r, id).pc # "idle"
      BY <1>3, RequestPass
    <2>2. CASE pass'[p] = Click!Idle
      BY <2>2, IdleOK
    <2>3. ASSUME NEW id, pass'[p] = Click!Onward(Click!Learnt(pass[p], r, id)),
                 PassOK(Click!Learnt(pass[p], r, id)), LearntNow(pass[p], Click!Learnt(pass[p], r, id), r, id),
                 Click!Learnt(pass[p], r, id).pc # "idle"
          PROVE  pass'[p].disturbed \/ pass'[p].pc = "idle"
      <3>1. Click!Learnt(pass[p], r, id).disturbed
        BY <2>3 DEF LearntNow
      <3> QED BY <1>0, <2>3, <3>1
    <2> QED BY <2>1, <2>2, <2>3
  <1>4. ASSUME NEW on \in Click!Kinds, NEW W, Lists(p, on, W)
        PROVE  pass'[p].disturbed \/ pass'[p].pc = "idle"
    <2>1. PICK steps, next : \E hook \in Nat :
            /\ PassOK(next) /\ ListedNow(pass[p], next, StageOf(on), on, steps, hook)
            /\ pass'[p] = Click!Onward(next)
      BY <1>4, ListPass
    <2>2. next.disturbed /\ next.pc # "idle"
      BY <2>1 DEF ListedNow, StageOf
    <2> QED BY <1>0, <2>1, <2>2
  <1>5. "hooks" \in Click!Kinds /\ "boards" \in Click!Kinds /\ "alerts" \in Click!Kinds
    BY DEF Click!Kinds
  <1> QED BY <1>1, <1>2, <1>3, <1>4, <1>5 DEF PassStep

(* Whatever a step is, a pass that nothing disturbed mends.                *)
LEMMA CalmStep ==
  ASSUME DashTypes, RecordInv, CalmMends, [Click!Next]_(Click!vars)
  PROVE  CalmMends'
PROOF
  <1>1. CASE OtherStep
    BY <1>1, CalmOthers
  <1>2. ASSUME NEW q \in Click!Passes, PassStep(q), NEW p \in Click!Passes, Calm(p)'
        PROVE  MendsNow(p)'
    <2>1. CASE StartsPass(q)
      BY <1>2, <2>1, CalmStarts
    <2>2. CASE ~StartsPass(q)
      <3>1. pass[q].pc # "idle" /\ \A o \in Click!Passes : o # q => pass'[o] = pass[o]
        BY <1>2, <2>2, PassMoves
      <3>2. CASE p # q
        <4>1. Calm(p)
          BY <1>2, <3>1, <3>2 DEF Calm
        <4>2. pass[p].beside = FALSE /\ pass[p].pc # "idle"
          BY <4>1 DEF CalmMends, MendsNow, Mending, Calm
        <4>3. Alone(p)
          BY DEF RecordInv
        <4> QED BY <3>1, <3>2, <4>2, <4>3 DEF Alone
      <3>3. CASE p = q
        <4>1. Calm(p)
          <5>1. pass[p].disturbed => pass'[p].disturbed \/ pass'[p].pc = "idle"
            BY <1>2, <2>2, <3>3, StaysDisturbed
          <5> QED BY <1>2, <3>1, <3>3, <5>1 DEF Calm
        <4>2. MendsNow(p)
          BY <4>1 DEF CalmMends
        <4> QED BY <1>2, <3>3, <4>1, <4>2, CalmWorks
      <3> QED BY <3>2, <3>3
    <2> QED BY <2>1, <2>2
  <1> QED BY <1>1, <1>2, NextShape DEF CalmMends

(* What ClickStack and the record hold is what the apps call for.          *)
BoardFor(B, app) == CHOOSE b \in B : b.name = app.name
NotifyOf(H) == CHOOSE h \in H : h.name = Click!Hooks[2]
Wantedly(H, B, A, rec, apps) ==
  /\ {[h EXCEPT !.id = 0] : h \in H} = {Click!Hook(Click!Hooks[1]), Click!Hook(Click!Hooks[2])}
  /\ apps # {} =>
       /\ \A app \in apps : \E b \in B : b.name = app.name /\ Click!Same(b, Click!Definition(app))
       /\ rec = {<<app.name, BoardFor(B, app).id>> : app \in apps}
       /\ {b.name : b \in B} \subseteq {app.name : app \in apps} \cup {Other}
       /\ {[a EXCEPT !.id = 0] : a \in A} =
            UNION {Click!WantedAlerts(app, BoardFor(B, app), NotifyOf(H).id) : app \in apps}

LEMMA DoneLike ==
  ASSUME NEW on, on # "boards", NEW W, NEW ours, NEW prune, Done(on, W, ours, prune), on = "hooks" \/ prune
  PROVE  {[x EXCEPT !.id = 0] : x \in ours} = W
PROOF
  <1>1. ASSUME NEW w \in W
        PROVE  \E x \in ours : x.name = w.name /\ [x EXCEPT !.id = 0] = w
    <2>1. Writes({}) = {}
      BY DEF Writes
    <2> QED BY <2>1 DEF Done, Underway, Like
  <1>2. ASSUME NEW x \in ours
        PROVE  [x EXCEPT !.id = 0] \in W
    <2>1. x.name \in NamesOf(W)
      BY DEF Done, Underway, Spared
    <2>2. PICK w \in W : w.name = x.name
      BY <2>1 DEF NamesOf
    <2>3. PICK y \in ours : y.name = w.name /\ [y EXCEPT !.id = 0] = w
      BY <1>1
    <2>4. OneEach(ours)
      BY DEF Done, Underway
    <2>5. y = x
      BY <2>2, <2>3, <2>4 DEF OneEach
    <2> QED BY <2>3, <2>5
  <1>3. \A w \in W : \E x \in ours : [x EXCEPT !.id = 0] = w
    BY <1>1
  <1> QED BY <1>2, <1>3

LEMMA PassLeaves ==
  ASSUME NEW now, PassOK(now), now.pc = "alert", now.todo = {},
         NEW H, NEW B, NEW A, NEW rec, Mending(now, H, B, A, rec)
  PROVE  Wantedly(H, B, A, rec, now.apps)
PROOF
  <1> DEFINE W == WantedBoards(now.apps)
             V == WantedAlerts(now.apps, B, now.hook)
  <1>1. /\ Done("hooks", WantedHooks, H, now.prune) /\ HookNamed(now.hook, H)
        /\ Done("boards", W, B, now.prune) /\ Done("alerts", V, A, now.prune)
        /\ now.apps # {} => rec = IdsOf(W, B)
    BY DEF Mending, Done
  <1>2. /\ now.apps # {} => now.prune
        /\ NamesOf(W) = {app.name : app \in now.apps}
        /\ \A app \in now.apps : Click!Definition(app).name = app.name
    BY AppNames DEF PassOK, PassTypes
  <1>3. Click!Hooks[1] = "ntfy: platform" /\ Click!Hooks[2] = "swhurl notify"
    BY DEF Click!Hooks
  <1>4. {[h EXCEPT !.id = 0] : h \in H} = {Click!Hook(Click!Hooks[1]), Click!Hook(Click!Hooks[2])}
    <2>1. {[h EXCEPT !.id = 0] : h \in H} = WantedHooks
      BY <1>1, DoneLike
    <2> QED BY <1>3, <2>1 DEF WantedHooks
  <1>5. NotifyOf(H).id = now.hook
    <2>1. \E h \in H : h.name = "swhurl notify"
      <3>1. "swhurl notify" \in NamesOf(WantedHooks)
        BY HookNames
      <3>2. PICK w \in WantedHooks : w.name = "swhurl notify"
        BY <3>1 DEF NamesOf
      <3>3. \E h \in H : h.name = w.name
        BY <1>1 DEF Done, Underway, Writes
      <3> QED BY <3>2, <3>3
    <2>2. NotifyOf(H) \in H /\ NotifyOf(H).name = "swhurl notify"
      BY <1>3, <2>1 DEF NotifyOf
    <2> QED BY <1>1, <2>2 DEF HookNamed
  <1>6. ASSUME NEW app \in now.apps
        PROVE  \E b \in B : b.name = app.name /\ Click!Same(b, Click!Definition(app))
    <2>1. Click!Definition(app) \in W
      BY DEF WantedBoards
    <2> HIDE DEF W
    <2>2. PICK b \in B : b.name = Click!Definition(app).name /\ Like("boards", b, Click!Definition(app))
      BY <1>1, <2>1 DEF Done, Underway, Writes
    <2> QED BY <1>2, <2>2 DEF Like, Click!Same
  <1>7. OneEach(B)
    BY <1>1 DEF Done, Underway
  <1>8. ASSUME NEW app \in now.apps
        PROVE  /\ BoardFor(B, app) \in B /\ BoardFor(B, app).name = app.name
               /\ \A b \in B : b.name = app.name => b = BoardFor(B, app)
    <2>1. \E b \in B : b.name = app.name
      BY <1>6
    <2>2. BoardFor(B, app) \in B /\ BoardFor(B, app).name = app.name
      BY <2>1 DEF BoardFor
    <2> QED BY <1>7, <2>2 DEF OneEach
  <1>9. IdsOf(W, B) = {<<app.name, BoardFor(B, app).id>> : app \in now.apps}
    <2> HIDE DEF W
    <2>1. ASSUME NEW x \in B, x.name \in NamesOf(W)
          PROVE  \E app \in now.apps : <<x.name, x.id>> = <<app.name, BoardFor(B, app).id>>
      <3>1. PICK app \in now.apps : app.name = x.name
        BY <1>2, <2>1
      <3> QED BY <1>8, <3>1
    <2>2. ASSUME NEW app \in now.apps
          PROVE  \E x \in B : x.name \in NamesOf(W) /\ <<x.name, x.id>> = <<app.name, BoardFor(B, app).id>>
      BY <1>2, <1>8
    <2> QED BY <2>1, <2>2 DEF IdsOf
  <1>10. V = UNION {Click!WantedAlerts(app, BoardFor(B, app), now.hook) : app \in now.apps}
    <2>1. ASSUME NEW app \in now.apps
          PROVE  {b \in B : b.name = app.name} = {BoardFor(B, app)}
      BY <1>8
    <2>2. \A app \in now.apps :
            UNION {Click!WantedAlerts(app, b, now.hook) : b \in {b \in B : b.name = app.name}} =
              Click!WantedAlerts(app, BoardFor(B, app), now.hook)
      <3>1. ASSUME NEW app \in now.apps
            PROVE  UNION {Click!WantedAlerts(app, b, now.hook) : b \in {b \in B : b.name = app.name}} =
                     Click!WantedAlerts(app, BoardFor(B, app), now.hook)
        <4>1. \A f : UNION {f} = f
          OBVIOUS
        <4>2. {Click!WantedAlerts(app, b, now.hook) : b \in {BoardFor(B, app)}} = {Click!WantedAlerts(app, BoardFor(B, app), now.hook)}
          OBVIOUS
        <4> QED BY <2>1, <4>1, <4>2
      <3> QED BY <3>1
    <2> QED BY <2>2 DEF WantedAlerts
  <1>11. now.apps # {} => {[a EXCEPT !.id = 0] : a \in A} = V
    BY <1>1, <1>2, DoneLike
  <1>12. now.apps # {} => {b.name : b \in B} \subseteq {app.name : app \in now.apps} \cup {Other}
    <2> HIDE DEF W
    <2> QED BY <1>1, <1>2 DEF Done, Underway, Spared
  <1> HIDE DEF W, V
  <1>13. now.apps # {} => {[a EXCEPT !.id = 0] : a \in A} = UNION {Click!WantedAlerts(app, BoardFor(B, app), NotifyOf(H).id) : app \in now.apps}
    BY <1>5, <1>10, <1>11
  <1>14. now.apps # {} => rec = {<<app.name, BoardFor(B, app).id>> : app \in now.apps}
    BY <1>1, <1>9
  <1> QED BY <1>4, <1>6, <1>12, <1>13, <1>14 DEF Wantedly

(* A plan is refused for what it refuses only.                             *)
LEMMA RefusedHas ==
  ASSUME NEW steps, steps = Click!Refused
  PROVE  \E r \in steps : r.op = "refused"
PROOF
  BY DEF Click!Refused, Click!Request

LEMMA HooksRefused ==
  ASSUME NEW live, Click!PlanWebhooks(live) = Click!Refused
  PROVE  Click!Twins(live) \/ \E h \in live : h.body = "foreign"
PROOF
  <1> DEFINE Of(n) == {h \in live : h.name = Click!Hooks[n]}
             One(n) == CHOOSE h \in Of(n) : TRUE
             Do(n) ==
               IF Of(n) = {} THEN Click!Request("create", "hooks", 0, Click!Hook(Click!Hooks[n]))
               ELSE IF One(n).body = "wanted" THEN Click!Kept("hooks", One(n))
               ELSE Click!Request("update", "hooks", One(n).id, Click!Hook(Click!Hooks[n]))
             steps == {Do(n) : n \in DOMAIN Click!Hooks}
  <1> SUFFICES ASSUME ~Click!Twins(live), ~\E h \in live : h.body = "foreign"
               PROVE  FALSE
    OBVIOUS
  <1>1. Click!PlanWebhooks(live) = steps
    BY DEF Click!PlanWebhooks
  <1>2. \A n : Do(n).op # "refused"
    BY DEF Click!Request, Click!Kept
  <1> HIDE DEF Do
  <1>3. \A r \in steps : r.op # "refused"
    BY <1>2
  <1> HIDE DEF steps
  <1> QED BY <1>1, <1>3, RefusedHas

LEMMA BoardsRefused ==
  ASSUME NEW apps, NEW live, NEW prune, Click!PlanDashboards(apps, live, prune) = Click!Refused
  PROVE  Click!Twins(Click!Tagged(live))
PROOF
  <1> DEFINE Of(app) == {b \in Click!Tagged(live) : b.name = app.name}
             One(app) == CHOOSE b \in Of(app) : TRUE
             Do(app) ==
               IF Of(app) = {} THEN Click!Request("create", "boards", 0, Click!Definition(app))
               ELSE IF Click!Same(One(app), Click!Definition(app)) THEN Click!Kept("boards", One(app))
               ELSE Click!Request("update", "boards", One(app).id, Click!Definition(app))
             deleted == IF prune THEN {b \in Click!Stale(apps, live) : b.name # Other} ELSE {}
             steps == {Do(app) : app \in apps}
             gones == {Click!Request("delete", "boards", b.id, b) : b \in deleted}
  <1> SUFFICES ASSUME ~Click!Twins(Click!Tagged(live))
               PROVE  FALSE
    OBVIOUS
  <1>1. Click!PlanDashboards(apps, live, prune) = steps \cup gones
    BY DEF Click!PlanDashboards
  <1>2. \A app : Do(app).op # "refused"
    BY DEF Click!Request, Click!Kept
  <1>3. \A b : Click!Request("delete", "boards", b.id, b).op # "refused"
    BY DEF Click!Request
  <1> HIDE DEF Do, deleted
  <1>4. \A r \in steps \cup gones : r.op # "refused"
    BY <1>2, <1>3
  <1> HIDE DEF steps, gones
  <1> QED BY <1>1, <1>4, RefusedHas

LEMMA AlertsRefused ==
  ASSUME NEW apps, NEW boards, NEW live, NEW hook, NEW prune,
         Click!PlanAlerts(apps, boards, live, hook, prune) = Click!Refused
  PROVE  Click!Twins(live) \/ \E app \in apps : \E b \in boards : b.name = app.name /\ b.body.kind = "bare"
PROOF
  <1> DEFINE W == WantedAlerts(apps, boards, hook)
             Of(w) == {a \in live : a.name = w.name}
             One(w) == CHOOSE a \in Of(w) : TRUE
             Do(w) ==
               IF Of(w) = {} THEN Click!Request("create", "alerts", 0, w)
               ELSE IF Click!SameAlert(One(w), w) THEN Click!Kept("alerts", One(w))
               ELSE Click!Request("update", "alerts", One(w).id, w)
             deleted == IF prune THEN {a \in live : \A w \in W : w.name # a.name} ELSE {}
             steps == {Do(w) : w \in W}
             gones == {Click!Request("delete", "alerts", a.id, a) : a \in deleted}
  <1> SUFFICES ASSUME ~Click!Twins(live), ~\E app \in apps : \E b \in boards : b.name = app.name /\ b.body.kind = "bare"
               PROVE  FALSE
    OBVIOUS
  <1>1. Click!PlanAlerts(apps, boards, live, hook, prune) = steps \cup gones
    BY DEF Click!PlanAlerts, WantedAlerts
  <1>2. \A w : Do(w).op # "refused"
    BY DEF Click!Request, Click!Kept
  <1>3. \A b : Click!Request("delete", "alerts", b.id, b).op # "refused"
    BY DEF Click!Request
  <1> HIDE DEF Do, deleted, W
  <1>4. \A r \in steps \cup gones : r.op # "refused"
    BY <1>2, <1>3
  <1> HIDE DEF steps, gones
  <1> QED BY <1>1, <1>4, RefusedHas

(* A pass that nothing disturbs asks only what can be done.                *)
LEMMA MendsPossible ==
  ASSUME ClickTypes, NEW now, now.pc \in Sends, NEW rec,
         Mending(now, Click!Ours("hooks"), Click!Ours("boards"), Click!Ours("alerts"), rec), NEW r \in now.todo
  PROVE  Click!Possible(r)
PROOF
  <1>1. r.op \in Ops /\ (r.op # "create" => \E x \in Click!Ours(r.on) : x.id = r.id) /\ r.on \in Click!Kinds
    <2>1. CASE now.pc = "hook"
      BY <2>1 DEF Mending, Underway, Click!Kinds, Ops
    <2>2. CASE now.pc \in {"board", "prune"}
      BY <2>2 DEF Mending, Underway, Click!Kinds, Ops
    <2>3. CASE now.pc = "alert"
      BY <2>3 DEF Mending, Underway, Click!Kinds, Ops
    <2> QED BY <2>1, <2>2, <2>3 DEF Sends
  <1> QED BY <1>1, OursOf DEF Click!Possible

-----------------------------------------------------------------------------
(* How a pass ends.                                                        *)
LEMMA LastPhase ==
  ASSUME NEW next, PassOK(next), next.pc # "idle", Click!Onward(next).pc = "idle"
  PROVE  next.pc = "alert" /\ next.todo = {}
PROOF
  BY Onwards

(* What NeedsPerson says, of what is there before the step.                *)
Stuck == 
  \/ Click!Twins(Click!Ours("boards")) \/ Click!Twins(click["alerts"]) \/ Click!Twins(click["hooks"])
  \/ \E h \in click["hooks"] : h.body = "foreign"

LEMMA StuckStays ==
  ASSUME Stuck, click' = click
  PROVE  Click!NeedsPerson'
PROOF
  BY DEF Stuck, Click!NeedsPerson, Click!Ours, Click!Tagged, Click!Twins

LEMMA LeftAsWanted ==
  ASSUME NEW apps,
         Wantedly(Click!Ours("hooks")', Click!Ours("boards")', Click!Ours("alerts")', record', apps)
  PROVE  Click!AsWanted(apps)'
PROOF
  <1> DEFINE B == Click!Ours("boards")'
  <1>1. Click!Ours("hooks")' = click'["hooks"] /\ Click!Ours("alerts")' = click'["alerts"]
    BY DEF Click!Ours
  <1>2. Wantedly(click'["hooks"], B, click'["alerts"], record', apps)
    BY <1>1
  <1>3. Click!AsWanted(apps)' <=> Wantedly(click'["hooks"], B, click'["alerts"], record', apps)
    BY Zenon DEF Wantedly, BoardFor, NotifyOf, Click!AsWanted
  <1> QED BY <1>2, <1>3

LEMMA ListedEnds ==
  ASSUME DashTypes, NEW p \in Click!Passes, Calm(p), MendsNow(p), NEW on \in Click!Kinds, NEW W, Lists(p, on, W),
         \/ on = "hooks" /\ W = WantedHooks
         \/ on = "boards" /\ W = WantedBoards(pass[p].apps)
         \/ /\ on = "alerts" /\ OneEach(Click!Ours("boards"))
            /\ W = WantedAlerts(pass[p].apps, Click!Ours("boards"), pass[p].hook),
         pass'[p].pc = "idle", NEW apps, apps = pass[p].apps
  PROVE  Click!AsWanted(apps)'
PROOF
  <1> DEFINE H2 == Click!Ours("hooks")'
             B2 == Click!Ours("boards")'
             A2 == Click!Ours("alerts")'
  <1>1. PICK next : /\ PassOK(next) /\ next.pc = StageOf(on) /\ next.apps = apps
                    /\ pass'[p] = Click!Onward(next)
                    /\ Mending(next, H2, B2, A2, record')
    BY CalmListed
  <1>2. next.pc # "idle"
    BY <1>1 DEF StageOf
  <1>3. next.pc = "alert" /\ next.todo = {}
    BY <1>1, <1>2, LastPhase
  <1> HIDE DEF H2, B2, A2
  <1>4. Wantedly(H2, B2, A2, record', apps)
    BY <1>1, <1>3, PassLeaves
  <1> QED BY <1>4, LeftAsWanted DEF H2, B2, A2

LEMMA HooksEnd ==
  ASSUME DashTypes, NEW p \in Click!Passes, Calm(p), MendsNow(p), Click!ListWebhooks(p),
         pass'[p].pc = "idle", NEW apps, apps = pass[p].apps
  PROVE  Click!NeedsPerson' \/ Click!AsWanted(apps)'
PROOF
  <1>1. CASE Click!PlanWebhooks(click["hooks"]) = Click!Refused /\ GivesUp(p)
    <2>1. Stuck
      BY <1>1, HooksRefused DEF Stuck
    <2> QED BY <1>1, <2>1, StuckStays DEF GivesUp
  <1>2. CASE Lists(p, "hooks", WantedHooks)
    <2>1. "hooks" \in Click!Kinds
      BY DEF Click!Kinds
    <2> QED BY <1>2, <2>1, ListedEnds
  <1> QED BY <1>1, <1>2, ListHooksShape

LEMMA BoardsEnd ==
  ASSUME DashTypes, NEW p \in Click!Passes, Calm(p), MendsNow(p), Click!ListDashboards(p),
         pass'[p].pc = "idle", NEW apps, apps = pass[p].apps
  PROVE  Click!NeedsPerson' \/ Click!AsWanted(apps)'
PROOF
  <1>0. "boards" \in Click!Kinds /\ ClickTypes
    BY DEF Click!Kinds, DashTypes
  <1>1. CASE Click!PlanDashboards(pass[p].apps, click["boards"], pass[p].prune) = Click!Refused /\ GivesUp(p)
    <2>1. Click!Twins(Click!Tagged(click["boards"]))
      BY <1>1, BoardsRefused
    <2>2. Stuck
      BY <1>0, <2>1, OursOf DEF Stuck
    <2> QED BY <1>1, <2>2, StuckStays DEF GivesUp
  <1>2. CASE Lists(p, "boards", WantedBoards(pass[p].apps))
    BY <1>0, <1>2, ListedEnds
  <1> QED BY <1>1, <1>2, ListBoardsShape

(* No dashboard an app has now is bare: the pass has just seen to them.    *)
LEMMA NoneBare ==
  ASSUME NEW now, PassOK(now), NEW B, Done("boards", WantedBoards(now.apps), B, now.prune),
         NEW app \in now.apps, NEW b \in B, b.name = app.name
  PROVE  b.body.kind # "bare"
PROOF
  <1>1. now.apps \in SUBSET AppDocs
    BY DEF PassOK, PassTypes
  <1>2. Click!Definition(app) \in WantedBoards(now.apps) /\ Click!Definition(app).name = app.name
    BY DEF WantedBoards, Click!Definition
  <1>3. PICK x \in B : x.name = app.name /\ Like("boards", x, Click!Definition(app))
    BY <1>2 DEF Done, Underway, Writes
  <1>4. OneEach(B)
    BY DEF Done, Underway
  <1>5. x = b
    BY <1>3, <1>4 DEF OneEach
  <1>6. b.body = Click!Definition(app).body
    BY <1>3, <1>5 DEF Like
  <1>7. app.kind \in {"web", "worker"} /\ Click!Definition(app).body.kind = app.kind
    BY <1>1 DEF AppDocs, Click!Definition
  <1> QED BY <1>6, <1>7

LEMMA AlertsEnd ==
  ASSUME DashTypes, NEW p \in Click!Passes, Calm(p), MendsNow(p), Click!ListAlerts(p),
         pass'[p].pc = "idle", NEW apps, apps = pass[p].apps
  PROVE  Click!NeedsPerson' \/ Click!AsWanted(apps)'
PROOF
  <1> DEFINE now == pass[p]
             B == Click!Ours("boards")
  <1>0. "alerts" \in Click!Kinds /\ PassOK(now) /\ now.pc = "alerts"
    BY DEF Click!Kinds, DashTypes, Click!ListAlerts, Click!Plan
  <1>1. Done("boards", WantedBoards(now.apps), B, now.prune)
    BY <1>0 DEF MendsNow, Mending
  <1>2. OneEach(B)
    BY <1>1 DEF Done, Underway
  <1>3. PICK boards \in SUBSET B :
          /\ {b.name : b \in boards} = {b.name : b \in B}
          /\ \/ /\ Click!PlanAlerts(now.apps, boards, click["alerts"], now.hook, now.prune) = Click!Refused
                /\ GivesUp(p)
             \/ Lists(p, "alerts", WantedAlerts(now.apps, boards, now.hook))
    BY ListAlertsShape
  <1>4. boards = B
    <2> HIDE DEF B
    <2> QED BY <1>2, <1>3, AllListed
  <1>5. CASE Click!PlanAlerts(now.apps, boards, click["alerts"], now.hook, now.prune) = Click!Refused /\ GivesUp(p)
    <2>1. \A app \in now.apps : \A b \in boards : b.name = app.name => b.body.kind # "bare"
      <3> HIDE DEF now, B
      <3> QED BY <1>0, <1>1, <1>4, NoneBare
    <2>2. Click!Twins(click["alerts"])
      BY <1>5, <2>1, AlertsRefused
    <2>3. Stuck
      BY <2>2 DEF Stuck
    <2> QED BY <1>5, <2>3, StuckStays DEF GivesUp
  <1>6. CASE Lists(p, "alerts", WantedAlerts(now.apps, boards, now.hook))
    <2>1. Lists(p, "alerts", WantedAlerts(pass[p].apps, Click!Ours("boards"), pass[p].hook))
      BY <1>4, <1>6
    <2> QED BY <1>0, <1>2, <2>1, ListedEnds
  <1> QED BY <1>3, <1>5, <1>6

LEMMA SendEnds ==
  ASSUME DashTypes, NEW p \in Click!Passes, Calm(p), MendsNow(p), Click!Send(p),
         pass'[p].pc = "idle", NEW apps, apps = pass[p].apps
  PROVE  Click!AsWanted(apps)'
PROOF
  <1> DEFINE now == pass[p]
             H2 == Click!Ours("hooks")'
             B2 == Click!Ours("boards")'
             A2 == Click!Ours("alerts")'
  <1>1. PICK r \in Click!Due(now) :
          /\ IF Click!Possible(r) THEN Click!Applied(r) /\ Click!Deleted(p, r) /\ Click!Learn(p, r, Click!Numbered(r).id)
             ELSE Click!Stopped(p) /\ UNCHANGED <<click, made, gone>>
          /\ UNCHANGED <<git, cluster, record, late, excuses, events>>
    BY DEF Click!Send
  <1>2. r \in now.todo /\ (now.pc = "board" => r.op # "delete") /\ now.pc \in Sends
    BY DEF Click!Due, Click!Sending, Sends
  <1>3. Click!Possible(r)
    <2>1. ClickTypes
      BY DEF DashTypes
    <2> QED BY <1>2, <2>1, MendsPossible DEF MendsNow
  <1>4. pass' = [pass EXCEPT ![p] = Click!Onward(Click!Learnt(now, r, Click!Numbered(r).id))]
    BY <1>1, <1>3 DEF Click!Learn, Click!Learnt
  <1>5. Requests(p, r)
    BY <1>1, <1>2, <1>3, <1>4 DEF Requests
  <1>6. p \in DOMAIN pass
    BY DEF DashTypes
  <1> DEFINE next == Click!Learnt(now, r, Click!Numbered(r).id)
  <1>7. pass'[p] = Click!Onward(next)
    <2> HIDE DEF next
    <2> QED BY <1>4, <1>6 DEF next
  <1>8. PassOK(next) /\ LearntNow(now, next, r, Click!Numbered(r).id) /\ Mending(next, H2, B2, A2, record')
    BY <1>2, <1>5, CalmSends
  <1> HIDE DEF H2, B2, A2, next
  <1>9. next.pc # "idle" /\ next.apps = apps
    BY <1>2, <1>8 DEF LearntNow, Sends
  <1>10. next.pc = "alert" /\ next.todo = {}
    BY <1>7, <1>8, <1>9, LastPhase
  <1>11. Wantedly(H2, B2, A2, record', apps)
    BY <1>8, <1>9, <1>10, PassLeaves
  <1> QED BY <1>11, LeftAsWanted DEF H2, B2, A2

LEMMA RecordGoesOn ==
  ASSUME DashTypes, NEW p \in Click!Passes, Click!Record(p)
  PROVE  pass'[p].pc # "idle"
PROOF
  <1>1. PICK next : PassOK(next) /\ next.pc = "prune" /\ pass'[p] = Click!Onward(next)
    BY RecordShape, RecordPass
  <1> QED BY <1>1, LastPhase

LEMMA WorkEnds ==
  ASSUME DashTypes, CalmMends, NEW p \in Click!Passes, Calm(p), Click!Works(p),
         pass'[p].pc = "idle", NEW apps, apps = pass[p].apps
  PROVE  Click!NeedsPerson' \/ Click!AsWanted(apps)'
PROOF
  <1>1. MendsNow(p)
    BY DEF CalmMends
  <1> QED BY <1>1, HooksEnd, BoardsEnd, AlertsEnd, SendEnds, RecordGoesOn DEF Click!Works

(* A pass that ends while nothing else happens ends by its own work.       *)
LEMMA EndsByWork ==
  ASSUME DashTypes, events \in Nat, [Click!Next]_(Click!vars), events' = events,
         NEW p \in Click!Passes, pass[p].pc # "idle", pass'[p].pc = "idle"
  PROVE  Click!Works(p)
PROOF
  <1>1. ~Click!Event
    BY DEF Click!Event
  <1>2. PassesOK
    BY DEF DashTypes, PassesOK
  <1>3. ~Click!Disturbed
    BY <1>2, DisturbedPasses DEF SameWork
  <1>4. ~UNCHANGED Click!vars
    BY DEF Click!vars
  <1>5. ASSUME NEW q \in Click!Passes, Click!Begin(q)
        PROVE  FALSE
    <2>1. StartsPass(q)
      BY <1>5, BeginShape
    <2>2. p # q
      BY <2>1 DEF StartsPass
    <2> QED BY <1>2, <2>1, <2>2, PassStarts DEF SameWork
  <1>6. ASSUME NEW q \in Click!Passes, Click!Works(q), q # p
        PROVE  FALSE
    <2>1. PassStep(q)
      BY <1>6, WorkShape
    <2>2. ~StartsPass(q)
      BY <1>6, WorkShape DEF StartsPass
    <2> QED BY <1>6, <2>1, <2>2, PassMoves
  <1>7. \A q \in Click!Passes : ~Click!Fails(q) /\ ~Click!AnswerHasNoId(q) /\ ~Click!Lost(q) /\ ~Click!RecordLost(q)
    BY <1>1 DEF Click!Fails, Click!AnswerHasNoId, Click!Lost, Click!RecordLost
  <1>8. ~Click!Late /\ ~Click!Person /\ ~Click!GitMoves /\ ~Click!Flux /\ ~Click!Rebuilt
    BY <1>3 DEF Click!Late, Click!Person, Click!GitMoves, Click!Flux, Click!Rebuilt
  <1> QED BY <1>4, <1>5, <1>6, <1>7, <1>8 DEF Click!Next

LEMMA EventsCounted ==
  ASSUME events \in Nat, [Click!Next]_(Click!vars)
  PROVE  events' \in Nat
PROOF
  <1>1. Click!Event => events' \in Nat
    BY DEF Click!Event
  <1>2. CASE UNCHANGED Click!vars
    BY <1>2 DEF Click!vars
  <1>3. ASSUME NEW p \in Click!Passes, Click!Begin(p) \/ Click!Fails(p) \/ Click!AnswerHasNoId(p) \/ Click!Lost(p) \/ Click!RecordLost(p)
        PROVE  events' \in Nat
    BY <1>1, <1>3 DEF Click!Begin, Click!Fails, Click!AnswerHasNoId, Click!Lost, Click!RecordLost
  <1>4. ASSUME NEW p \in Click!Passes, Click!Works(p)
        PROVE  events' \in Nat
    BY <1>4 DEF Click!Works, Click!ListWebhooks, Click!ListDashboards, Click!ListAlerts, Click!Plan, Click!Send, Click!Record
  <1>5. CASE Click!Late \/ Click!Person \/ Click!GitMoves \/ Click!Flux \/ Click!Rebuilt
    BY <1>1, <1>5 DEF Click!Late, Click!Person, Click!GitMoves, Click!Flux, Click!Rebuilt
  <1> QED BY <1>2, <1>3, <1>4, <1>5 DEF Click!Next

(* One pass that nothing disturbs repairs whatever earlier passes, lost    *)
(* requests and people left behind, or stops for a person.                 *)
THEOREM PassRepairs == DashboardSpec => OnePassRepairs
PROOF
  <1> DEFINE Inv == DashTypes /\ RecordInv /\ CalmMends /\ events \in Nat
             Ended(p, apps) == pass[p].pc # "idle" /\ ~pass[p].disturbed /\ events' = events /\ pass'[p].pc = "idle"
             Repaired == \A p \in Click!Passes : \A apps \in {pass[p].apps} :
                           Ended(p, apps) => Click!NeedsPerson' \/ Click!AsWanted(apps)'
  <1>1. Click!Init => Inv
    <2>1. Click!Init => CalmMends
      <3>1. Click!Init => \A p \in Click!Passes : pass[p].pc = "idle"
        BY IdleOK DEF Click!Init
      <3> QED BY <3>1 DEF CalmMends, Calm
    <2>2. Click!Init => events \in Nat
      BY DEF Click!Init
    <2> QED BY <2>1, <2>2, TypesInit, RecordInit
  <1>2. Inv /\ [Click!Next]_(Click!vars) => Inv'
    <2> SUFFICES ASSUME Inv, [Click!Next]_(Click!vars)
                 PROVE  Inv'
      OBVIOUS
    <2>1. DashTypes' /\ RecordInv' /\ CalmMends'
      BY TypesStep, RecordStep, CalmStep
    <2>2. events' \in Nat
      BY EventsCounted
    <2> QED BY <2>1, <2>2
  <1>3. Inv /\ [Click!Next]_(Click!vars) => Repaired
    <2> SUFFICES ASSUME Inv, [Click!Next]_(Click!vars), NEW p \in Click!Passes, NEW apps \in {pass[p].apps}, Ended(p, apps)
                 PROVE  Click!NeedsPerson' \/ Click!AsWanted(apps)'
      OBVIOUS
    <2>1. Click!Works(p)
      BY EndsByWork
    <2>2. Calm(p) /\ apps = pass[p].apps
      BY DEF Calm
    <2> QED BY <2>1, <2>2, WorkEnds
  <1>4. Repaired => [\A p \in Click!Passes : \A apps \in {pass[p].apps} :
                       pass[p].pc # "idle" /\ ~pass[p].disturbed /\ events' = events /\ pass'[p].pc = "idle"
                       => Click!NeedsPerson' \/ Click!AsWanted(apps)']_(Click!vars)
    BY DEF Repaired
  <1> HIDE DEF Inv, Repaired
  <1> QED BY <1>1, <1>2, <1>3, <1>4, PTL DEF DashboardSpec, Click!Spec, OnePassRepairs, Click!OnePassRepairs

=============================================================================
