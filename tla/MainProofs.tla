----------------------------- MODULE MainProofs -----------------------------
(***************************************************************************)
(* Proofs about main.  A tree is sound when every instance's records are   *)
(* all there or all gone with its unit, every unit has its type, and the   *)
(* proxy's list states distinct ports.  Sound records render to a sound    *)
(* tree that renders to itself (RenderSettles, RenderSound); a console     *)
(* command leaves sound records (the ...Follows lemmas), so a pull request *)
(* proposes a sound tree (ProposedStands), and so does a delivery that     *)
(* passes its checks (DeliveredStands).  A merge is sound because git      *)
(* refuses the two sides that would mix (MergedStands).  The invariant     *)
(* IInv says this of main, of every open pull request beside the main it   *)
(* was opened on and the main there is now, and of the bots' runs.         *)
(***************************************************************************)
EXTENDS Main, Numbers

IsTree(T) == T = [p \in Paths |-> T[p]]

(* Two trees with the same records. *)
Agree(S, T) == \A p \in RecordPaths : S[p] = T[p]

LEMMA InstanceShape ==
  ASSUME NEW i \in Instances
  PROVE  /\ i[1] \in Apps /\ i[2] \in {"prod", "staging"} /\ i = <<i[1], i[2]>>
PROOF
  <1>1. PICK n \in DOMAIN Order : i = Order[n]
    BY DEF Instances, ToSet
  <1>2. Order[n] \in Apps \X {"prod", "staging"}
    BY OrderIsInstances
  <1> QED BY <1>1, <1>2

LEMMA RecordNames ==
  /\ \A a \in Apps : <<"app", a>> \in RecordPaths
  /\ \A t \in Teams : <<"team", t>> \in RecordPaths
  /\ \A i \in Instances : \A x \in {"release", "select", "calls", "allows", "subs"} : <<x, i>> \in RecordPaths
PROOF
  BY DEF RecordPaths, Lines

LEMMA FileNames ==
  /\ RecordPaths \subseteq Paths
  /\ \A i \in Instances : \A x \in {"unit", "policy", "pairs", "received", "port"} : <<x, i>> \in Paths \ RecordPaths
  /\ \A x \in {"users", "proxy", "revision"} : <<x, "platform">> \in Paths \ RecordPaths
PROOF
  BY DEF RecordPaths, Paths, Lines, Folder, Shared, Whole

LEMMA RecordsOnly ==
  ASSUME NEW p \in RecordPaths
  PROVE  p[1] \notin {"unit", "policy", "pairs", "received", "port", "users", "proxy", "revision"}
PROOF
  BY DEF RecordPaths, Lines

(* What a path that is no record is.                                       *)
LEMMA FilesOnly ==
  ASSUME NEW p \in Paths \ RecordPaths
  PROVE  \/ \E i \in Instances : \E x \in {"unit", "policy", "pairs", "received", "port"} : p = <<x, i>>
         \/ \E x \in {"users", "proxy", "revision"} : p = <<x, "platform">>
PROOF
  BY DEF Paths, Folder, Shared, Whole

LEMMA PlatformAt ==
  ASSUME NEW T
  PROVE  /\ IsTree(Platform(T)) /\ \A p \in RecordPaths : Platform(T)[p] = T[p]
         /\ \A i \in Instances :
              /\ Platform(T)[<<"pairs", i>>] = IF i \in Present(T) THEN Pairs(T, i) ELSE Nothing
              /\ Platform(T)[<<"received", i>>] = IF i \in Present(T) THEN Received(T, i) ELSE Nothing
              /\ Platform(T)[<<"port", i>>] = Allocation(T, i)
              /\ Platform(T)[<<"unit", i>>] = T[<<"unit", i>>]
              /\ Platform(T)[<<"policy", i>>] = T[<<"policy", i>>]
         /\ Platform(T)[<<"proxy", "platform">>] = Allocated(T)
         /\ Platform(T)[<<"users", "platform">>] = Users(T)
PROOF
  <1>1. IsTree(Platform(T))
    BY DEF IsTree, Platform
  <1>2. ASSUME NEW p \in RecordPaths
        PROVE  Platform(T)[p] = T[p]
    BY FileNames, RecordsOnly DEF Platform
  <1>3. ASSUME NEW i \in Instances
        PROVE  /\ Platform(T)[<<"pairs", i>>] = IF i \in Present(T) THEN Pairs(T, i) ELSE Nothing
               /\ Platform(T)[<<"received", i>>] = IF i \in Present(T) THEN Received(T, i) ELSE Nothing
               /\ Platform(T)[<<"port", i>>] = Allocation(T, i)
               /\ Platform(T)[<<"unit", i>>] = T[<<"unit", i>>]
               /\ Platform(T)[<<"policy", i>>] = T[<<"policy", i>>]
    BY FileNames DEF Platform
  <1>4. /\ Platform(T)[<<"proxy", "platform">>] = Allocated(T)
        /\ Platform(T)[<<"users", "platform">>] = Users(T)
    BY FileNames DEF Platform
  <1> QED BY <1>1, <1>2, <1>3, <1>4

LEMMA CompiledAt ==
  ASSUME NEW T, NEW which
  PROVE  /\ IsTree(Compiled(T, which))
         /\ \A p \in Paths : p[1] \notin {"unit", "policy"} => Compiled(T, which)[p] = T[p]
         /\ \A i \in Instances :
              /\ i \in which => /\ Compiled(T, which)[<<"unit", i>>] = Unit(T, i)
                                /\ Compiled(T, which)[<<"policy", i>>] = Policy(T, i)
              /\ i \notin which => /\ Compiled(T, which)[<<"unit", i>>] = T[<<"unit", i>>]
                                   /\ Compiled(T, which)[<<"policy", i>>] = T[<<"policy", i>>]
PROOF
  <1>1. IsTree(Compiled(T, which))
    BY DEF IsTree, Compiled
  <1>2. ASSUME NEW p \in Paths, p[1] \notin {"unit", "policy"}
        PROVE  Compiled(T, which)[p] = T[p]
    BY <1>2 DEF Compiled, Folder
  <1>3. ASSUME NEW i \in Instances
        PROVE  /\ i \in which => /\ Compiled(T, which)[<<"unit", i>>] = Unit(T, i)
                                 /\ Compiled(T, which)[<<"policy", i>>] = Policy(T, i)
               /\ i \notin which => /\ Compiled(T, which)[<<"unit", i>>] = T[<<"unit", i>>]
                                    /\ Compiled(T, which)[<<"policy", i>>] = T[<<"policy", i>>]
    BY FileNames DEF Compiled, Folder
  <1> QED BY <1>1, <1>2, <1>3

LEMMA SameRecords ==
  ASSUME NEW S, NEW T, Agree(S, T)
  PROVE  /\ Present(S) = Present(T)
         /\ \A i \in Instances : Received(S, i) = Received(T, i)
         /\ \A i \in Instances : Pairs(S, i) = Pairs(T, i)
         /\ NeedsEgress(S) = NeedsEgress(T)
         /\ Users(S) = Users(T)
         /\ Resolves(S) <=> Resolves(T)
         /\ Readable(S) <=> Readable(T)
         /\ TeamsOK(S) <=> TeamsOK(T)
PROOF
  <1>1. \A i \in Instances : \A x \in {"release", "select", "calls", "allows", "subs"} : S[<<x, i>>] = T[<<x, i>>]
    BY RecordNames DEF Agree
  <1>2. \A a \in Apps : S[<<"app", a>>] = T[<<"app", a>>]
    BY RecordNames DEF Agree
  <1>3. \A t \in Teams : S[<<"team", t>>] = T[<<"team", t>>]
    BY RecordNames DEF Agree
  <1>4. Present(S) = Present(T)
    BY <1>1 DEF Present
  <1>5. Present(S) \subseteq Instances
    BY DEF Present
  <1>6. \A i \in Instances : \A a : Found(S, i, a) <=> Found(T, i, a)
    BY <1>4 DEF Found
  <1>7. \A i \in Instances : \A a : Found(S, i, a) => Release(S, i, a) = Release(T, i, a)
    BY <1>1, <1>5 DEF Found, Release
  <1>8. \A i \in Instances : Received(S, i) = Received(T, i)
    BY <1>1, <1>6 DEF Received
  <1>9. \A i, j \in Instances : Consents(S, j, i) <=> Consents(T, j, i)
    BY <1>1, <1>2, InstanceShape DEF Consents
  <1>10. \A i \in Instances : \A a : Reason(S, i, a) = Reason(T, i, a)
    <2> SUFFICES ASSUME NEW i \in Instances, NEW a
                 PROVE  Reason(S, i, a) = Reason(T, i, a)
      OBVIOUS
    <2>1. CASE ~Found(S, i, a)
      BY <2>1, <1>6 DEF Reason
    <2>2. CASE Found(S, i, a)
      <3>1. Beside(i, a) \in Instances
        BY <2>2, <1>5 DEF Found
      <3>2. Found(T, i, a) /\ Release(S, i, a) = Release(T, i, a)
            /\ (Consents(S, Beside(i, a), i) <=> Consents(T, Beside(i, a), i))
        BY <2>2, <3>1, <1>6, <1>7, <1>9
      <3>3. QED
        BY <2>2, <3>2 DEF Reason
    <2> QED BY <2>1, <2>2
  <1>11. \A i \in Instances : Pairs(S, i) = Pairs(T, i)
    <2> SUFFICES ASSUME NEW i \in Instances
                 PROVE  Pairs(S, i) = Pairs(T, i)
      OBVIOUS
    <2>1. ASSUME NEW a
          PROVE  [state |-> Reason(S, i, a), port |-> IF Reason(S, i, a) = "connected" THEN Release(S, i, a).port ELSE 0]
                 = [state |-> Reason(T, i, a), port |-> IF Reason(T, i, a) = "connected" THEN Release(T, i, a).port ELSE 0]
      <3>1. Reason(S, i, a) = Reason(T, i, a)
        BY <1>10
      <3>2. Reason(S, i, a) = "connected" => Found(S, i, a)
        BY DEF Reason
      <3> QED BY <3>1, <3>2, <1>7
    <2> QED BY <2>1, <1>1 DEF Pairs
  <1>12. NeedsEgress(S) = NeedsEgress(T)
    BY <1>1, <1>4, <1>5 DEF NeedsEgress
  <1>13. Users(S) = Users(T)
    BY <1>1, <1>4, <1>5, <1>8 DEF Users
  <1>14. Resolves(S) <=> Resolves(T)
    BY <1>1, <1>4, <1>5, <1>6, <1>7 DEF Resolves, SubscriptionOK
  <1>15. Readable(S) <=> Readable(T)
    BY <1>1, <1>2, <1>4, <1>5, InstanceShape DEF Readable
  <1>16. TeamsOK(S) <=> TeamsOK(T)
    <2>1. Registered(S) = Registered(T)
      BY <1>3 DEF Registered
    <2> QED BY <2>1, <1>1, <1>2, <1>4, <1>5, InstanceShape DEF TeamsOK
  <1> QED BY <1>4, <1>8, <1>11, <1>12, <1>13, <1>14, <1>15, <1>16

-----------------------------------------------------------------------------
(* Proxy ports.                                                            *)

PortsTyped(T) == \A i \in Instances : T[<<"port", i>>] \in PortType \cup {Nothing}

LEMMA InstancesAreFew ==
  /\ IsFiniteSet(Instances) /\ Len(Order) \in Nat
  /\ \A S \in SUBSET Instances : IsFiniteSet(S) /\ Cardinality(S) \in Nat /\ Cardinality(S) <= Len(Order)
PROOF
  <1>1. Len(Order) \in Nat /\ DOMAIN Order = 1 .. Len(Order)
    BY OrderIsInstances
  <1>2. IsFiniteSet(1 .. Len(Order)) /\ Cardinality(1 .. Len(Order)) = Len(Order)
    <2> DEFINE n == Len(Order)
    <2>1. n \in Nat /\ 1 \in Int
      BY <1>1
    <2> HIDE DEF n
    <2>2. IsFiniteSet(1 .. n) /\ Cardinality(1 .. n) = IF 1 > n THEN 0 ELSE n - 1 + 1
      BY <2>1, FS_Interval
    <2>3. Cardinality(1 .. n) = n
      BY <2>1, <2>2
    <2> QED BY <2>2, <2>3 DEF n
  <1> DEFINE f == [n \in 1 .. Len(Order) |-> Order[n]]
  <1>3. f \in Surjection(1 .. Len(Order), Instances)
    BY <1>1 DEF Surjection, Instances, ToSet
  <1>4. IsFiniteSet(Instances) /\ Cardinality(Instances) <= Len(Order)
    <2> HIDE DEF f
    <2> QED BY <1>2, <1>3, FS_Surjection
  <1>5. ASSUME NEW S \in SUBSET Instances
        PROVE  IsFiniteSet(S) /\ Cardinality(S) \in Nat /\ Cardinality(S) <= Len(Order)
    <2>1. IsFiniteSet(S) /\ Cardinality(S) <= Cardinality(Instances)
      BY <1>4, FS_Subset
    <2>2. Cardinality(S) \in Nat /\ Cardinality(Instances) \in Nat
      BY <2>1, <1>4, FS_CardinalityType
    <2> QED BY <2>1, <2>2, <1>1, <1>4
  <1> QED BY <1>1, <1>4, <1>5

(* An instance that needs a port finds one.                                *)
LEMMA PortFound ==
  ASSUME NEW T, PortsTyped(T), NEW i \in New(T)
  PROVE  NewPort(T, i) \in FreePorts(T) /\ NewPort(T, i) \in Nat
PROOF
  <1> DEFINE L == Len(Order)
             I == 1 .. 2 * L + 1
  <1>1. L \in Nat
    BY InstancesAreFew
  <1>2. Held(T) \subseteq Instances /\ New(T) \subseteq Instances
    BY DEF Held, New, NeedsEgress, Present
  <1>3. IsFiniteSet(Held(T)) /\ Cardinality(Held(T)) \in Nat /\ Cardinality(Held(T)) <= L
    BY <1>2, InstancesAreFew
  <1>4. IsFiniteSet(Ports(T)) /\ Cardinality(Ports(T)) \in Nat /\ Cardinality(Ports(T)) <= L
    <2> DEFINE f == [j \in Held(T) |-> T[<<"port", j>>].port]
    <2>1. f \in Surjection(Held(T), Ports(T))
      BY DEF Surjection, Ports
    <2>2. IsFiniteSet(Ports(T)) /\ Cardinality(Ports(T)) <= Cardinality(Held(T))
      <3> HIDE DEF f
      <3> QED BY <1>3, <2>1, FS_Surjection
    <2>3. Cardinality(Ports(T)) \in Nat
      BY <2>2, FS_CardinalityType
    <2> QED BY <1>1, <1>3, <2>2, <2>3
  <1>5. IsFiniteSet(I) /\ Cardinality(I) = 2 * L + 1
    BY <1>1, FS_Interval
  <1>6. FreePorts(T) = I \ Ports(T)
    <2>1. FirstPort .. FirstPort + 2 * Len(Order) = I
      BY <1>1 DEF FirstPort
    <2> QED BY <2>1 DEF FreePorts
  <1>7. /\ IsFiniteSet(FreePorts(T)) /\ Cardinality(FreePorts(T)) \in Nat
        /\ Cardinality(FreePorts(T)) >= L + 1 /\ FreePorts(T) \in SUBSET Nat
    <2> HIDE DEF L, I
    <2>1. IsFiniteSet(I \ Ports(T)) /\ Cardinality(I \ Ports(T)) = Cardinality(I) - Cardinality(I \cap Ports(T))
      BY <1>5, FS_Difference
    <2>2. IsFiniteSet(I \cap Ports(T)) /\ Cardinality(I \cap Ports(T)) <= Cardinality(Ports(T))
      BY <1>4, FS_Intersection
    <2>3. Cardinality(I \cap Ports(T)) \in Nat
      BY <2>2, FS_CardinalityType
    <2>4. I \subseteq Nat
      BY <1>1 DEF I
    <2>5. Cardinality(I \ Ports(T)) >= L + 1
      BY <1>1, <1>4, <1>5, <2>1, <2>2, <2>3
    <2> QED BY <1>6, <2>1, <2>4, <2>5, FS_CardinalityType
  <1>8. Rank(T, i) \in Nat /\ Rank(T, i) <= L
    <2>1. {j \in New(T) : Position(j) < Position(i)} \in SUBSET Instances
      BY <1>2
    <2> QED BY <2>1, InstancesAreFew DEF Rank
  <1>9. \E p \in FreePorts(T) : Cardinality({q \in FreePorts(T) : q < p}) = Rank(T, i)
    <2> HIDE DEF L, I
    <2>1. Rank(T, i) < Cardinality(FreePorts(T))
      BY <1>1, <1>7, <1>8
    <2> QED BY <1>7, <1>8, <2>1, Ranked
  <1>10. NewPort(T, i) \in FreePorts(T)
    BY <1>9 DEF NewPort
  <1> QED BY <1>7, <1>10

(* An allocation keeps every port that was given, and gives what is needed. *)
LEMMA AllocationKeeps ==
  ASSUME NEW T, PortsTyped(T), NEW i \in Instances
  PROVE  /\ Allocation(T, i) \in PortType \cup {Nothing}
         /\ T[<<"port", i>>] # Nothing => /\ Allocation(T, i) \in PortType
                                          /\ Allocation(T, i).port = T[<<"port", i>>].port
         /\ i \in NeedsEgress(T) => Allocation(T, i) \in PortType /\ Allocation(T, i).granted
PROOF
  <1>1. CASE i \in New(T)
    <2>1. NewPort(T, i) \in Nat
      BY <1>1, PortFound
    <2>2. Allocation(T, i) = [port |-> NewPort(T, i), granted |-> TRUE]
      BY <1>1 DEF Allocation
    <2>3. T[<<"port", i>>] = Nothing
      BY <1>1 DEF New, Held
    <2> QED BY <2>1, <2>2, <2>3 DEF PortType
  <1>2. CASE i \notin New(T) /\ i \in Held(T) /\ i \in Present(T)
    <2>1. T[<<"port", i>>] \in PortType
      BY <1>2 DEF PortsTyped, Held
    <2>2. Allocation(T, i) = [port |-> T[<<"port", i>>].port, granted |-> i \in NeedsEgress(T)]
      BY <1>2 DEF Allocation
    <2>3. Allocation(T, i) \in PortType /\ Allocation(T, i).port = T[<<"port", i>>].port
      <3>1. T[<<"port", i>>].port \in Nat
        BY <2>1 DEF PortType
      <3>2. (i \in NeedsEgress(T)) \in BOOLEAN
        OBVIOUS
      <3> QED BY <2>2, <3>1, <3>2 DEF PortType
    <2>4. i \in NeedsEgress(T) => Allocation(T, i).granted
      <3>1. Allocation(T, i).granted = (i \in NeedsEgress(T))
        BY <2>2
      <3> QED BY <3>1
    <2> QED BY <2>3, <2>4
  <1>3. CASE i \notin New(T) /\ ~(i \in Held(T) /\ i \in Present(T))
    <2>1. Allocation(T, i) = T[<<"port", i>>]
      BY <1>3 DEF Allocation
    <2>2. i \notin NeedsEgress(T)
      BY <1>3 DEF New, NeedsEgress
    <2> QED BY <2>1, <2>2 DEF PortsTyped
  <1> QED BY <1>1, <1>2, <1>3

(* Allocating again changes nothing.                                       *)
LEMMA AllocationSettles ==
  ASSUME NEW S, NEW T, PortsTyped(T), Agree(S, T),
         \A i \in Instances : S[<<"port", i>>] = Allocation(T, i), NEW i \in Instances
  PROVE  Allocation(S, i) = Allocation(T, i)
PROOF
  <1>1. Present(S) = Present(T) /\ NeedsEgress(S) = NeedsEgress(T)
    BY SameRecords
  <1>2. \A j \in NeedsEgress(S) : j \in Instances /\ S[<<"port", j>>] # Nothing
    <2>1. \A j \in NeedsEgress(T) : j \in Instances /\ Allocation(T, j) \in PortType
      BY AllocationKeeps DEF NeedsEgress, Present
    <2> QED BY <1>1, <2>1, NothingIsNoContent
  <1>3. New(S) = {}
    BY <1>2 DEF New, Held
  <1>4. CASE i \in Held(S) /\ i \in Present(S)
    <2>1. Allocation(S, i) = [port |-> S[<<"port", i>>].port, granted |-> i \in NeedsEgress(S)]
      BY <1>3, <1>4 DEF Allocation
    <2>2. S[<<"port", i>>] = Allocation(T, i)
      OBVIOUS
    <2>3. CASE i \in New(T)
      <3>1. Allocation(T, i) = [port |-> NewPort(T, i), granted |-> TRUE]
        BY <2>3 DEF Allocation
      <3>2. (i \in NeedsEgress(S)) = TRUE
        BY <2>3, <1>1 DEF New
      <3>3. Allocation(S, i) = [port |-> S[<<"port", i>>].port, granted |-> TRUE]
        BY <2>1, <3>2
      <3>4. S[<<"port", i>>].port = NewPort(T, i)
        BY <2>2, <3>1
      <3> QED BY <3>1, <3>3, <3>4
    <2>4. CASE i \notin New(T) /\ i \in Held(T)
      <3>1. Allocation(T, i) = [port |-> T[<<"port", i>>].port, granted |-> i \in NeedsEgress(T)]
        BY <2>4, <1>1, <1>4 DEF Allocation
      <3> QED BY <2>1, <2>2, <3>1, <1>1
    <2>5. CASE i \notin New(T) /\ i \notin Held(T)
      <3>1. Allocation(T, i) = Nothing
        BY <2>5 DEF Allocation, Held
      <3> QED BY <3>1, <2>2, <1>4 DEF Held
    <2> QED BY <2>3, <2>4, <2>5
  <1>5. CASE ~(i \in Held(S) /\ i \in Present(S))
    BY <1>3, <1>5 DEF Allocation
  <1> QED BY <1>4, <1>5

-----------------------------------------------------------------------------
(* Rendering.                                                              *)

(* Two trees whose records and whose documents about the instances agree.  *)
DocumentsAgree(S, T) ==
  Agree(S, T) /\ \A i \in Instances : \A x \in {"pairs", "received", "port"} : S[<<x, i>>] = T[<<x, i>>]

LEMMA SameFolders ==
  ASSUME NEW S, NEW T, DocumentsAgree(S, T), NEW i \in Instances
  PROVE  /\ Unit(S, i) = Unit(T, i) /\ Policy(S, i) = Policy(T, i)
         /\ CompileOK(S, i) <=> CompileOK(T, i)
PROOF
  <1>1. \A x \in {"release", "select", "calls", "allows", "subs"} : S[<<x, i>>] = T[<<x, i>>]
    BY RecordNames DEF DocumentsAgree, Agree
  <1>2. S[<<"app", i[1]>>] = T[<<"app", i[1]>>]
    BY RecordNames, InstanceShape DEF DocumentsAgree, Agree
  <1>3. \A j \in Instances : S[<<"pairs", j>>] = T[<<"pairs", j>>]
    BY DEF DocumentsAgree
  <1>4. \A j \in Instances : Reaches(S, j) = Reaches(T, j)
    BY <1>3 DEF Reaches
  <1>5. Callers(S, i) = Callers(T, i)
    BY <1>4 DEF Callers
  <1>6. S[<<"received", i>>] = T[<<"received", i>>] /\ S[<<"port", i>>] = T[<<"port", i>>]
    BY DEF DocumentsAgree
  <1>7. Egress(S, i) = Egress(T, i)
    BY <1>6 DEF Egress
  <1>8. Unit(S, i) = Unit(T, i)
    BY <1>1, <1>2, <1>4, <1>6, <1>7 DEF Unit
  <1>9. Policy(S, i) = Policy(T, i)
    BY <1>1, <1>4, <1>5, <1>7 DEF Policy
  <1>10. CompileOK(S, i) <=> CompileOK(T, i)
    BY <1>1, <1>2, <1>5, <1>7 DEF CompileOK
  <1> QED BY <1>8, <1>9, <1>10

LEMMA RenderTreeIs ==
  ASSUME NEW T
  PROVE  RenderTree(T) = Compiled(Platform(T), Present(T))
PROOF
  BY DEF RenderTree

LEMMA RenderedIs ==
  ASSUME NEW T
  PROVE  Rendered(T) <=> Compiled(Platform(T), Present(T)) = T
PROOF
  BY DEF Rendered

(* What a render writes.                                                   *)
LEMMA RenderTreeAt ==
  ASSUME NEW T
  PROVE  /\ IsTree(RenderTree(T)) /\ Agree(RenderTree(T), T)
         /\ \A i \in Instances :
              /\ \A x \in {"pairs", "received", "port"} : RenderTree(T)[<<x, i>>] = Platform(T)[<<x, i>>]
              /\ RenderTree(T)[<<"unit", i>>] = IF i \in Present(T) THEN Unit(Platform(T), i) ELSE T[<<"unit", i>>]
              /\ RenderTree(T)[<<"policy", i>>] = IF i \in Present(T) THEN Policy(Platform(T), i) ELSE T[<<"policy", i>>]
         /\ RenderTree(T)[<<"proxy", "platform">>] = Allocated(T)
         /\ RenderTree(T)[<<"users", "platform">>] = Users(T)
         /\ RenderTree(T)[<<"revision", "platform">>] = T[<<"revision", "platform">>]
PROOF
  <1> DEFINE U == Platform(T)
  <1>1. RenderTree(T) = Compiled(U, Present(T))
    BY RenderTreeIs
  <1>2. IsTree(RenderTree(T))
    BY <1>1, CompiledAt
  <1>3. \A p \in Paths : p[1] \notin {"unit", "policy"} => RenderTree(T)[p] = U[p]
    BY <1>1, CompiledAt
  <1>4. Agree(RenderTree(T), T)
    BY <1>3, PlatformAt, RecordsOnly, FileNames DEF Agree
  <1>5. ASSUME NEW i \in Instances
        PROVE  /\ \A x \in {"pairs", "received", "port"} : RenderTree(T)[<<x, i>>] = Platform(T)[<<x, i>>]
               /\ RenderTree(T)[<<"unit", i>>] = IF i \in Present(T) THEN Unit(Platform(T), i) ELSE T[<<"unit", i>>]
               /\ RenderTree(T)[<<"policy", i>>] = IF i \in Present(T) THEN Policy(Platform(T), i) ELSE T[<<"policy", i>>]
    <2>1. \A x \in {"pairs", "received", "port"} : RenderTree(T)[<<x, i>>] = U[<<x, i>>]
      BY <1>3, FileNames
    <2>2. /\ RenderTree(T)[<<"unit", i>>] = IF i \in Present(T) THEN Unit(U, i) ELSE U[<<"unit", i>>]
          /\ RenderTree(T)[<<"policy", i>>] = IF i \in Present(T) THEN Policy(U, i) ELSE U[<<"policy", i>>]
      BY <1>1, CompiledAt
    <2> QED BY <2>1, <2>2, PlatformAt
  <1>6. /\ RenderTree(T)[<<"proxy", "platform">>] = Allocated(T)
        /\ RenderTree(T)[<<"users", "platform">>] = Users(T)
    BY <1>3, FileNames, PlatformAt
  <1>7. RenderTree(T)[<<"revision", "platform">>] = T[<<"revision", "platform">>]
    <2>1. U[<<"revision", "platform">>] = T[<<"revision", "platform">>]
      BY FileNames DEF Platform
    <2> QED BY <2>1, <1>3, FileNames
  <1> QED BY <1>2, <1>4, <1>5, <1>6, <1>7

(* The same of the tree that records its commit.                           *)
LEMMA RenderAtAt ==
  ASSUME NEW T, NEW n
  PROVE  /\ IsTree(RenderAt(T, n))
         /\ \A p \in Paths : p # <<"revision", "platform">> => RenderAt(T, n)[p] = RenderTree(T)[p]
PROOF
  BY DEF RenderAt, Put, IsTree

(* Rendering again changes nothing.                                        *)
LEMMA RenderSettles ==
  ASSUME NEW T, NEW n, PortsTyped(T)
  PROVE  /\ Rendered(RenderAt(T, n)) /\ Agree(RenderAt(T, n), T)
         /\ DocumentsAgree(Platform(RenderAt(T, n)), Platform(T))
         /\ Allocated(RenderAt(T, n)) = Allocated(T)
PROOF
  <1> DEFINE R == RenderAt(T, n)
             U == Platform(T)
             V == Platform(R)
             Q == RenderTree(R)
  <1>1. \A p \in Paths : p # <<"revision", "platform">> => R[p] = RenderTree(T)[p]
    BY RenderAtAt
  <1>2. Agree(R, T)
    BY <1>1, RenderTreeAt, RecordsOnly, FileNames DEF Agree
  <1>3. \A i \in Instances : \A x \in {"pairs", "received", "port"} : R[<<x, i>>] = U[<<x, i>>]
    <2> SUFFICES ASSUME NEW i \in Instances, NEW x \in {"pairs", "received", "port"}
                 PROVE  R[<<x, i>>] = U[<<x, i>>]
      OBVIOUS
    <2>1. <<x, i>> \in Paths /\ <<x, i>> # <<"revision", "platform">>
      BY FileNames
    <2> QED BY <2>1, <1>1, RenderTreeAt
  <1>4. \A i \in Instances : R[<<"port", i>>] = Allocation(T, i)
    BY <1>3, PlatformAt
  <1>5. \A i \in Instances : Allocation(R, i) = Allocation(T, i)
    <2> HIDE DEF R
    <2> QED BY <1>2, <1>4, AllocationSettles
  <1>6. Present(R) = Present(T) /\ Users(R) = Users(T)
    <2> HIDE DEF R
    <2> QED BY <1>2, SameRecords
  <1>7. DocumentsAgree(V, U)
    <2> HIDE DEF R
    <2>1. Agree(V, U)
      BY <1>2, PlatformAt DEF Agree
    <2>2. ASSUME NEW i \in Instances
          PROVE  \A x \in {"pairs", "received", "port"} : V[<<x, i>>] = U[<<x, i>>]
      <3>1. Pairs(R, i) = Pairs(T, i) /\ Received(R, i) = Received(T, i)
        BY <1>2, SameRecords
      <3>2. V[<<"pairs", i>>] = (IF i \in Present(R) THEN Pairs(R, i) ELSE Nothing)
            /\ V[<<"received", i>>] = (IF i \in Present(R) THEN Received(R, i) ELSE Nothing)
            /\ V[<<"port", i>>] = Allocation(R, i)
        BY PlatformAt
      <3>3. U[<<"pairs", i>>] = (IF i \in Present(T) THEN Pairs(T, i) ELSE Nothing)
            /\ U[<<"received", i>>] = (IF i \in Present(T) THEN Received(T, i) ELSE Nothing)
            /\ U[<<"port", i>>] = Allocation(T, i)
        BY PlatformAt
      <3> HIDE DEF U, V
      <3>4. V[<<"pairs", i>>] = U[<<"pairs", i>>]
        BY <3>1, <3>2, <3>3, <1>6
      <3>5. V[<<"received", i>>] = U[<<"received", i>>]
        BY <3>1, <3>2, <3>3, <1>6
      <3>6. V[<<"port", i>>] = U[<<"port", i>>]
        BY <3>2, <3>3, <1>5
      <3> QED BY <3>4, <3>5, <3>6
    <2> QED BY <2>1, <2>2 DEF DocumentsAgree
  <1>8. ASSUME NEW p \in Paths
        PROVE  Q[p] = R[p]
    <2>1. CASE p \in RecordPaths
      <3> HIDE DEF R
      <3> QED BY <2>1, RenderTreeAt DEF Agree
    <2>2. CASE \E i \in Instances : \E x \in {"pairs", "received", "port"} : p = <<x, i>>
      <3>1. PICK i \in Instances, x \in {"pairs", "received", "port"} : p = <<x, i>>
        BY <2>2
      <3>2. Q[p] = V[p] /\ V[p] = U[p] /\ R[p] = U[p]
        <4>1. R[p] = U[p]
          BY <3>1, <1>3
        <4> HIDE DEF R
        <4> QED BY <3>1, <4>1, <1>7, RenderTreeAt DEF DocumentsAgree
      <3> QED BY <3>2
    <2>3. CASE \E i \in Instances : \E x \in {"unit", "policy"} : p = <<x, i>>
      <3>1. PICK i \in Instances, x \in {"unit", "policy"} : p = <<x, i>>
        BY <2>3
      <3>2. R[p] = RenderTree(T)[p]
        BY <3>1, <1>1
      <3>3. /\ RenderTree(T)[<<"unit", i>>] = (IF i \in Present(T) THEN Unit(U, i) ELSE T[<<"unit", i>>])
            /\ RenderTree(T)[<<"policy", i>>] = (IF i \in Present(T) THEN Policy(U, i) ELSE T[<<"policy", i>>])
        BY RenderTreeAt
      <3>4. /\ Q[<<"unit", i>>] = (IF i \in Present(R) THEN Unit(V, i) ELSE R[<<"unit", i>>])
            /\ Q[<<"policy", i>>] = (IF i \in Present(R) THEN Policy(V, i) ELSE R[<<"policy", i>>])
        <4> HIDE DEF R
        <4> QED BY RenderTreeAt
      <3>5. Unit(V, i) = Unit(U, i) /\ Policy(V, i) = Policy(U, i)
        <4> HIDE DEF U, V
        <4> QED BY <1>7, SameFolders
      <3>6. R[<<"unit", i>>] = RenderTree(T)[<<"unit", i>>] /\ R[<<"policy", i>>] = RenderTree(T)[<<"policy", i>>]
        BY <1>1, FileNames
      <3> HIDE DEF R, Q, U, V
      <3>7. CASE i \in Present(T)
        BY <3>1, <3>3, <3>4, <3>5, <3>6, <3>7, <1>6
      <3>8. CASE i \notin Present(T)
        BY <3>1, <3>3, <3>4, <3>5, <3>6, <3>8, <1>6
      <3> QED BY <3>7, <3>8
    <2>4. CASE p = <<"proxy", "platform">>
      <3>1. R[p] = Allocated(T)
        BY <2>4, <1>1, RenderTreeAt
      <3> HIDE DEF R
      <3>2. Allocated(R) = Allocated(T)
        BY <1>5 DEF Allocated
      <3> QED BY <2>4, <3>1, <3>2, RenderTreeAt
    <2>5. CASE p = <<"users", "platform">>
      <3>1. R[p] = Users(T)
        BY <2>5, <1>1, RenderTreeAt
      <3> HIDE DEF R
      <3> QED BY <2>5, <3>1, <1>6, RenderTreeAt
    <2>6. CASE p = <<"revision", "platform">>
      <3> HIDE DEF R
      <3> QED BY <2>6, RenderTreeAt
    <2> QED BY <2>1, <2>2, <2>3, <2>4, <2>5, <2>6, FilesOnly
  <1>9. Q = R
    <2>1. IsTree(R)
      BY RenderAtAt
    <2>2. IsTree(Q)
      <3> HIDE DEF R
      <3> QED BY RenderTreeAt
    <2> HIDE DEF R, Q
    <2> QED BY <1>8, <2>1, <2>2 DEF IsTree
  <1>10. Rendered(R)
    <2>1. Q = Compiled(V, Present(R))
      <3> HIDE DEF R
      <3> QED BY RenderTreeIs
    <2>2. Rendered(R) <=> Compiled(V, Present(R)) = R
      <3> HIDE DEF R
      <3> QED BY RenderedIs
    <2> HIDE DEF R, Q, V
    <2> QED BY <1>9, <2>1, <2>2
  <1>11. Allocated(R) = Allocated(T)
    <2> HIDE DEF R
    <2> QED BY <1>5 DEF Allocated
  <1> QED BY <1>2, <1>7, <1>10, <1>11

(* What a rendered tree says of its network.                               *)
LEMMA RenderedSays ==
  ASSUME NEW T, Rendered(T)
  PROVE  /\ IsTree(T)
         /\ \A i \in Instances : T[<<"port", i>>] = Allocation(T, i)
         /\ T[<<"proxy", "platform">>] = Allocated(T)
         /\ T[<<"users", "platform">>] = Users(T)
         /\ \A i \in Present(T) : T[<<"unit", i>>] = Unit(Platform(T), i)
PROOF
  <1>1. RenderTree(T) = T
    BY RenderTreeIs, RenderedIs
  <1>2. Present(T) \subseteq Instances
    BY DEF Present
  <1>3. IsTree(T) /\ T[<<"proxy", "platform">>] = Allocated(T) /\ T[<<"users", "platform">>] = Users(T)
    <2>1. /\ IsTree(RenderTree(T)) /\ RenderTree(T)[<<"proxy", "platform">>] = Allocated(T)
          /\ RenderTree(T)[<<"users", "platform">>] = Users(T)
      BY RenderTreeAt
    <2> QED BY <1>1, <2>1
  <1>4. ASSUME NEW i \in Instances
        PROVE  /\ T[<<"port", i>>] = Allocation(T, i)
               /\ i \in Present(T) => T[<<"unit", i>>] = Unit(Platform(T), i)
    <2>1. /\ RenderTree(T)[<<"port", i>>] = Platform(T)[<<"port", i>>]
          /\ RenderTree(T)[<<"unit", i>>] = (IF i \in Present(T) THEN Unit(Platform(T), i) ELSE T[<<"unit", i>>])
      BY RenderTreeAt
    <2>2. Platform(T)[<<"port", i>>] = Allocation(T, i)
      BY PlatformAt
    <2> QED BY <1>1, <2>1, <2>2
  <1> QED BY <1>2, <1>3, <1>4

(* What a caller's folder may reach is what the records connect.           *)
LEMMA ReachesConnected ==
  ASSUME NEW T, NEW i \in Present(T), NEW r \in Reaches(Platform(T), i)
  PROVE  /\ r[1] \in T[<<"calls", i>>] /\ Reason(T, i, r[1]) = "connected"
         /\ r = <<r[1], Release(T, i, r[1]).port>>
PROOF
  <1>1. i \in Instances
    BY DEF Present
  <1>2. Platform(T)[<<"pairs", i>>] = Pairs(T, i)
    BY <1>1, PlatformAt
  <1>3. PICK a \in DOMAIN Pairs(T, i) : Pairs(T, i)[a].state = "connected" /\ r = <<a, Pairs(T, i)[a].port>>
    BY <1>2 DEF Reaches
  <1>4. a \in T[<<"calls", i>>]
    BY <1>3 DEF Pairs
  <1>5. /\ Pairs(T, i)[a].state = Reason(T, i, a)
        /\ Pairs(T, i)[a].port = IF Reason(T, i, a) = "connected" THEN Release(T, i, a).port ELSE 0
    BY <1>4 DEF Pairs
  <1> QED BY <1>3, <1>4, <1>5

-----------------------------------------------------------------------------
(* Sound trees.                                                            *)

ImagesOf(a) == {m \in Images : m.app = a}

(* An instance's records are all there, or all gone with its folder.       *)
InstanceSound(T, i) ==
  /\ T[<<"release", i>>] = T[<<"select", i>>]
  /\ T[<<"select", i>>] \in ImagesOf(i[1]) \cup {Nothing}
  /\ T[<<"select", i>>] # Nothing => /\ T[<<"calls", i>>] \in SUBSET Apps
                                     /\ T[<<"subs", i>>] \in SUBSET (Apps \X STRING)
  /\ T[<<"select", i>>] = Nothing => /\ T[<<"calls", i>>] = Nothing /\ T[<<"subs", i>>] = Nothing
                                     /\ T[<<"unit", i>>] = Nothing

RecordsSound(T) ==
  /\ IsTree(T) /\ PortsTyped(T)
  /\ \A a \in Apps : T[<<"app", a>>] \in Teams \cup {Nothing}
  /\ \A i \in Instances : InstanceSound(T, i)

UnitsTyped(T) == \A i \in Present(T) : T[<<"unit", i>>] \in UnitType
ProxyStates(T) == T[<<"proxy", "platform">>] = [i \in Instances |-> T[<<"port", i>>]]
PortsApart(T) == DistinctPorts([i \in Instances |-> T[<<"port", i>>]])

Sound(T) == RecordsSound(T) /\ UnitsTyped(T) /\ ProxyStates(T) /\ PortsApart(T)

(* No instance gives up its port between two trees.                        *)
KeepsPorts(S, T) ==
  \A i \in Instances : S[<<"port", i>>] # Nothing =>
    T[<<"port", i>>] # Nothing /\ T[<<"port", i>>].port = S[<<"port", i>>].port

LEMMA PresentSound ==
  ASSUME NEW T, RecordsSound(T), NEW i \in Present(T)
  PROVE  /\ i \in Instances /\ T[<<"release", i>>] = T[<<"select", i>>]
         /\ T[<<"select", i>>] \in Images /\ T[<<"select", i>>].app = i[1]
         /\ T[<<"calls", i>>] \in SUBSET Apps /\ T[<<"subs", i>>] \in SUBSET (Apps \X STRING)
PROOF
  <1>1. i \in Instances /\ T[<<"select", i>>] # Nothing
    BY DEF Present
  <1>2. InstanceSound(T, i)
    BY <1>1 DEF RecordsSound
  <1> QED BY <1>1, <1>2 DEF InstanceSound, ImagesOf

LEMMA UnitTyped ==
  ASSUME NEW T, RecordsSound(T), Renderable(T), NEW i \in Present(T)
  PROVE  Unit(Platform(T), i) \in UnitType
PROOF
  <1> DEFINE U == Platform(T)
  <1>1. i \in Instances /\ i[1] \in Apps
    BY PresentSound, InstanceShape
  <1>2. U[<<"select", i>>] \in Images
    BY <1>1, PresentSound, PlatformAt, RecordNames
  <1>3. U[<<"app", i[1]>>] \in Teams
    <2>1. T[<<"app", i[1]>>] # Nothing
      BY DEF Renderable, Readable
    <2>2. U[<<"app", i[1]>>] = T[<<"app", i[1]>>]
      BY <1>1, PlatformAt, RecordNames
    <2> QED BY <1>1, <2>1, <2>2 DEF RecordsSound
  <1>4. Reaches(U, i) \in SUBSET (Apps \X Nat)
    <2> SUFFICES ASSUME NEW r \in Reaches(U, i)
                 PROVE  r \in Apps \X Nat
      OBVIOUS
    <2>1. /\ r[1] \in T[<<"calls", i>>] /\ Reason(T, i, r[1]) = "connected"
          /\ r = <<r[1], Release(T, i, r[1]).port>>
      BY ReachesConnected
    <2>2. r[1] \in Apps
      BY <2>1, PresentSound
    <2>3. Beside(i, r[1]) \in Present(T)
      BY <2>1 DEF Reason, Found
    <2>4. Release(T, i, r[1]) \in Images
      BY <2>3, PresentSound DEF Release
    <2>5. Release(T, i, r[1]).port \in Nat
      BY <2>4, ImagesAreImages
    <2> QED BY <2>1, <2>2, <2>5
  <1>5. U[<<"received", i>>] \in SUBSET (Apps \X STRING)
    <2>1. U[<<"received", i>>] = Received(T, i)
      BY <1>1, PlatformAt
    <2>2. Received(T, i) \subseteq T[<<"subs", i>>]
      BY DEF Received
    <2> QED BY <2>1, <2>2, PresentSound
  <1>6. Egress(U, i) \in Nat
    <2>1. U[<<"port", i>>] = Allocation(T, i)
      BY <1>1, PlatformAt
    <2>2. Allocation(T, i) \in PortType \cup {Nothing}
      BY <1>1, AllocationKeeps DEF RecordsSound
    <2> QED BY <2>1, <2>2 DEF Egress, PortType
  <1> HIDE DEF U
  <1>7. Unit(U, i) = [image |-> U[<<"select", i>>], team |-> U[<<"app", i[1]>>], reaches |-> Reaches(U, i),
                      receives |-> U[<<"received", i>>], egress |-> Egress(U, i)]
    BY DEF Unit
  <1>8. Unit(U, i) \in UnitType
    BY <1>2, <1>3, <1>4, <1>5, <1>6, <1>7 DEF UnitType
  <1> QED BY <1>8 DEF U

(* A tree that passes its checks is sound when its records are.            *)
LEMMA CheckedSound ==
  ASSUME NEW T, RecordsSound(T), Checked(T)
  PROVE  Sound(T)
PROOF
  <1>1. Renderable(T) /\ Rendered(T)
    BY DEF Checked
  <1>2. UnitsTyped(T)
    BY <1>1, RenderedSays, UnitTyped DEF UnitsTyped
  <1>3. Allocated(T) = [i \in Instances |-> T[<<"port", i>>]]
    BY <1>1, RenderedSays DEF Allocated
  <1>4. ProxyStates(T)
    BY <1>1, <1>3, RenderedSays DEF ProxyStates
  <1>5. PortsApart(T)
    BY <1>1, <1>3 DEF PortsApart, Renderable
  <1> QED BY <1>2, <1>4, <1>5 DEF Sound

(* A render keeps sound records sound, and the ports there were.           *)
LEMMA RenderKeeps ==
  ASSUME NEW T, NEW n, RecordsSound(T)
  PROVE  RecordsSound(RenderAt(T, n)) /\ KeepsPorts(T, RenderAt(T, n))
PROOF
  <1> DEFINE R == RenderAt(T, n)
  <1>1. PortsTyped(T)
    BY DEF RecordsSound
  <1>2. Agree(R, T)
    BY <1>1, RenderSettles
  <1>3. IsTree(R) /\ \A p \in Paths : p # <<"revision", "platform">> => R[p] = RenderTree(T)[p]
    BY RenderAtAt
  <1> HIDE DEF R
  <1>7. ASSUME NEW i \in Instances
        PROVE  R[<<"port", i>>] = Allocation(T, i)
    <2>1. RenderTree(T)[<<"port", i>>] = Platform(T)[<<"port", i>>]
      BY RenderTreeAt
    <2>2. Platform(T)[<<"port", i>>] = Allocation(T, i)
      BY PlatformAt
    <2> QED BY <1>3, <2>1, <2>2, FileNames
  <1>8. PortsTyped(R) /\ KeepsPorts(T, R)
    BY <1>1, <1>7, AllocationKeeps, NothingIsNoContent DEF PortsTyped, KeepsPorts
  <1>9. ASSUME NEW i \in Instances
        PROVE  InstanceSound(R, i)
    <2>1. InstanceSound(T, i)
      BY DEF RecordsSound
    <2>2. \A x \in {"release", "select", "calls", "subs"} : R[<<x, i>>] = T[<<x, i>>]
      BY <1>2, RecordNames DEF Agree
    <2>3. i \notin Present(T) => R[<<"unit", i>>] = T[<<"unit", i>>]
      <3>1. RenderTree(T)[<<"unit", i>>] = (IF i \in Present(T) THEN Unit(Platform(T), i) ELSE T[<<"unit", i>>])
        BY RenderTreeAt
      <3> QED BY <1>3, <3>1, FileNames
    <2> QED BY <2>1, <2>2, <2>3 DEF InstanceSound, Present
  <1>10. \A a \in Apps : R[<<"app", a>>] \in Teams \cup {Nothing}
    BY <1>2, RecordNames DEF Agree, RecordsSound
  <1>11. RecordsSound(R)
    BY <1>3, <1>8, <1>9, <1>10 DEF RecordsSound
  <1> QED BY <1>8, <1>11 DEF R

(* It passes the checks, and what it makes of sound records is a sound tree. *)
LEMMA RenderSound ==
  ASSUME NEW T, NEW n, RecordsSound(T), Renderable(T)
  PROVE  /\ Checked(RenderAt(T, n)) /\ Sound(RenderAt(T, n))
         /\ Agree(RenderAt(T, n), T) /\ KeepsPorts(T, RenderAt(T, n))
PROOF
  <1> DEFINE R == RenderAt(T, n)
  <1>1. Rendered(R) /\ Agree(R, T) /\ DocumentsAgree(Platform(R), Platform(T)) /\ Allocated(R) = Allocated(T)
    BY RenderSettles DEF RecordsSound
  <1>2. RecordsSound(R) /\ KeepsPorts(T, R)
    BY RenderKeeps
  <1> HIDE DEF R
  <1>3. Present(R) = Present(T) /\ (Resolves(R) <=> Resolves(T)) /\ (Readable(R) <=> Readable(T))
        /\ (TeamsOK(R) <=> TeamsOK(T))
    BY <1>1, SameRecords
  <1>4. \A i \in Present(R) : CompileOK(Platform(R), i)
    <2> SUFFICES ASSUME NEW i \in Present(T)
                 PROVE  CompileOK(Platform(R), i)
      BY <1>3
    <2>1. CompileOK(Platform(T), i)
      BY DEF Renderable
    <2>2. i \in Instances
      BY DEF Present
    <2> QED BY <1>1, <2>1, <2>2, SameFolders
  <1>5. Checked(R)
    BY <1>1, <1>3, <1>4 DEF Checked, Renderable
  <1>6. Sound(R)
    BY <1>2, <1>5, CheckedSound
  <1> QED BY <1>1, <1>2, <1>5, <1>6 DEF R

-----------------------------------------------------------------------------
(* The commands.                                                           *)

(* The images a tree T selects, beside a main M, were published (P); what   *)
(* production selects has run in staging (R); and while main has an app in  *)
(* production, its instances stay of the kind it began with.                *)
SelectsSound(T, M, P, R) ==
  \A i \in Present(T) :
    /\ T[<<"select", i>>] \in P
    /\ i[2] = "prod" => T[<<"select", i>>] \in R
    /\ <<i[1], "prod">> \in Present(M) => Accept(T[<<"select", i>>], FirstImage(i[1]))

(* No app comes to production in U that was not there in T.                *)
NoNewProd(T, U) == \A i \in Present(U) : i[2] = "prod" => i \in Present(T)

(* The tree U that commands make of T: its records are sound and its ports *)
(* T's, and it puts nothing into production that T has not there.          *)
Follows(T, U, P, R) ==
  /\ RecordsSound(U) /\ SelectsSound(U, T, P, R) /\ NoNewProd(T, U)
  /\ \A i \in Instances : U[<<"port", i>>] = T[<<"port", i>>]

LEMMA CompiledFollows ==
  ASSUME NEW T, NEW U, NEW P, NEW R, Follows(T, U, P, R), NEW which, which \subseteq Present(U)
  PROVE  Follows(T, Compiled(U, which), P, R)
PROOF
  <1> DEFINE C == Compiled(U, which)
  <1>1. IsTree(C) /\ \A p \in Paths : p[1] \notin {"unit", "policy"} => C[p] = U[p]
    BY CompiledAt
  <1>2. ASSUME NEW i \in Instances
        PROVE  i \notin which => C[<<"unit", i>>] = U[<<"unit", i>>]
    BY CompiledAt
  <1> HIDE DEF C
  <1>3. \A i \in Instances : \A x \in {"release", "select", "calls", "subs", "port"} : C[<<x, i>>] = U[<<x, i>>]
    BY <1>1, RecordNames, FileNames
  <1>4. \A a \in Apps : C[<<"app", a>>] = U[<<"app", a>>]
    BY <1>1, RecordNames, FileNames
  <1>5. Present(C) = Present(U)
    BY <1>3 DEF Present
  <1>6. ASSUME NEW i \in Instances
        PROVE  InstanceSound(C, i)
    <2>1. InstanceSound(U, i)
      BY DEF Follows, RecordsSound
    <2>2. \A x \in {"release", "select", "calls", "subs"} : C[<<x, i>>] = U[<<x, i>>]
      BY <1>3
    <2>3. C[<<"select", i>>] = Nothing => C[<<"unit", i>>] = U[<<"unit", i>>]
      BY <1>2, <1>3 DEF Present
    <2> QED BY <2>1, <2>2, <2>3 DEF InstanceSound
  <1>7. RecordsSound(C)
    BY <1>1, <1>3, <1>4, <1>6 DEF Follows, RecordsSound, PortsTyped
  <1>8. SelectsSound(C, T, P, R) /\ NoNewProd(T, C)
    <2>1. \A i \in Present(C) : i \in Present(U) /\ C[<<"select", i>>] = U[<<"select", i>>]
      BY <1>3, <1>5 DEF Present
    <2> QED BY <2>1 DEF Follows, SelectsSound, NoNewProd
  <1>9. \A i \in Instances : C[<<"port", i>>] = T[<<"port", i>>]
    BY <1>3 DEF Follows
  <1> QED BY <1>7, <1>8, <1>9 DEF Follows, C

(* A tree whose instances are, each, those of another tree.                 *)
LEMMA LikeFollows ==
  ASSUME NEW T, NEW S, NEW U, NEW P, NEW R, Follows(T, S, P, R), IsTree(U),
         \A i \in Instances : \A x \in {"release", "select", "unit", "port"} : U[<<x, i>>] = S[<<x, i>>],
         \A i \in Present(S) : U[<<"calls", i>>] \in SUBSET Apps /\ U[<<"subs", i>>] \in SUBSET (Apps \X STRING),
         \A i \in Instances \ Present(S) : U[<<"calls", i>>] = S[<<"calls", i>>] /\ U[<<"subs", i>>] = S[<<"subs", i>>],
         \A a \in Apps : U[<<"app", a>>] \in Teams \cup {Nothing}
  PROVE  Follows(T, U, P, R) /\ Present(U) = Present(S)
PROOF
  <1>1. Present(U) = Present(S)
    BY DEF Present
  <1>2. ASSUME NEW i \in Instances
        PROVE  InstanceSound(U, i)
    <2>1. InstanceSound(S, i)
      BY DEF Follows, RecordsSound
    <2>2. \A x \in {"release", "select", "unit"} : U[<<x, i>>] = S[<<x, i>>]
      OBVIOUS
    <2>3. CASE i \in Present(S)
      <3>1. U[<<"select", i>>] # Nothing
        BY <2>2, <2>3 DEF Present
      <3>2. U[<<"calls", i>>] \in SUBSET Apps /\ U[<<"subs", i>>] \in SUBSET (Apps \X STRING)
        BY <2>3
      <3> QED BY <2>1, <2>2, <3>1, <3>2 DEF InstanceSound
    <2>4. CASE i \notin Present(S)
      <3>1. S[<<"select", i>>] = Nothing
        BY <2>4 DEF Present
      <3>2. U[<<"calls", i>>] = S[<<"calls", i>>] /\ U[<<"subs", i>>] = S[<<"subs", i>>]
        BY <2>4
      <3> QED BY <2>1, <2>2, <3>1, <3>2 DEF InstanceSound
    <2> QED BY <2>3, <2>4
  <1>3. PortsTyped(U) /\ \A i \in Instances : U[<<"port", i>>] = T[<<"port", i>>]
    BY DEF Follows, RecordsSound, PortsTyped
  <1>4. RecordsSound(U)
    BY <1>2, <1>3 DEF RecordsSound
  <1>5. SelectsSound(U, T, P, R) /\ NoNewProd(T, U)
    <2>1. \A i \in Present(U) : i \in Present(S) /\ U[<<"select", i>>] = S[<<"select", i>>]
      BY <1>1 DEF Present
    <2> QED BY <2>1 DEF Follows, SelectsSound, NoNewProd
  <1> QED BY <1>1, <1>3, <1>4, <1>5 DEF Follows

(* A change that puts nothing into an instance's records but a setting.    *)
LEMMA EditFollows ==
  ASSUME NEW T, NEW S, NEW P, NEW R, Follows(T, S, P, R),
         NEW i \in Instances, NEW line \in {"calls", "allows", "subs"}, NEW to,
         line = "calls" => to \in SUBSET Apps, line = "subs" => to \in SUBSET (Apps \X STRING),
         Edit(S, i, line, to) # Nothing
  PROVE  Follows(T, Edit(S, i, line, to), P, R)
PROOF
  <1> DEFINE U == Put(S, [p \in {<<line, i>>} |-> to])
  <1>1. IsTree(U) /\ \A p \in Paths : U[p] = IF p \in {<<line, i>>} THEN to ELSE S[p]
    BY DEF IsTree, Put
  <1>2. i \in Present(S) /\ Edit(S, i, line, to) = Compiled(U, {i})
    BY DEF Edit, Guarded, ReadableAt
  <1> HIDE DEF U
  <1>3. \A j \in Instances : \A x \in {"release", "select", "unit", "port"} : U[<<x, j>>] = S[<<x, j>>]
    BY <1>1, RecordNames, FileNames
  <1>4. \A a \in Apps : U[<<"app", a>>] \in Teams \cup {Nothing}
    <2>1. \A a \in Apps : U[<<"app", a>>] = S[<<"app", a>>]
      BY <1>1, RecordNames, FileNames
    <2> QED BY <2>1 DEF Follows, RecordsSound
  <1>5. \A j \in Instances : /\ U[<<"calls", j>>] = IF line = "calls" /\ j = i THEN to ELSE S[<<"calls", j>>]
                             /\ U[<<"subs", j>>] = IF line = "subs" /\ j = i THEN to ELSE S[<<"subs", j>>]
    BY <1>1, RecordNames, FileNames
  <1>6. ASSUME NEW j \in Present(S)
        PROVE  U[<<"calls", j>>] \in SUBSET Apps /\ U[<<"subs", j>>] \in SUBSET (Apps \X STRING)
    <2>1. j \in Instances /\ S[<<"calls", j>>] \in SUBSET Apps /\ S[<<"subs", j>>] \in SUBSET (Apps \X STRING)
      BY PresentSound DEF Follows
    <2> QED BY <1>5, <2>1
  <1>7. \A j \in Instances \ Present(S) : U[<<"calls", j>>] = S[<<"calls", j>>] /\ U[<<"subs", j>>] = S[<<"subs", j>>]
    BY <1>2, <1>5
  <1>8. Follows(T, U, P, R) /\ Present(U) = Present(S)
    BY <1>1, <1>3, <1>4, <1>6, <1>7, LikeFollows
  <1>9. Follows(T, Compiled(U, {i}), P, R)
    BY <1>2, <1>8, CompiledFollows
  <1> QED BY <1>2, <1>9

LEMMA SetTeamFollows ==
  ASSUME NEW T, NEW P, NEW R, Follows(T, T, P, R), NEW a \in Apps, NEW team \in Teams, SetTeam(T, a, team) # Nothing
  PROVE  Follows(T, SetTeam(T, a, team), P, R)
PROOF
  <1> DEFINE U == Put(T, [p \in {<<"app", a>>} |-> team])
  <1>1. IsTree(U) /\ \A p \in Paths : U[p] = IF p \in {<<"app", a>>} THEN team ELSE T[p]
    BY DEF IsTree, Put
  <1>2. SetTeam(T, a, team) = Compiled(U, Environments(T, a))
    BY DEF SetTeam, Guarded
  <1> HIDE DEF U
  <1>3. \A j \in Instances : \A x \in {"release", "select", "calls", "subs", "unit", "port"} : U[<<x, j>>] = T[<<x, j>>]
    BY <1>1, RecordNames, FileNames
  <1>4. \A b \in Apps : U[<<"app", b>>] \in Teams \cup {Nothing}
    <2>1. \A b \in Apps : U[<<"app", b>>] = IF b = a THEN team ELSE T[<<"app", b>>]
      BY <1>1, RecordNames, FileNames
    <2> QED BY <2>1 DEF Follows, RecordsSound
  <1>5. ASSUME NEW j \in Present(T)
        PROVE  U[<<"calls", j>>] \in SUBSET Apps /\ U[<<"subs", j>>] \in SUBSET (Apps \X STRING)
    <2>1. j \in Instances /\ T[<<"calls", j>>] \in SUBSET Apps /\ T[<<"subs", j>>] \in SUBSET (Apps \X STRING)
      BY PresentSound DEF Follows
    <2> QED BY <1>3, <2>1
  <1>6. Follows(T, U, P, R) /\ Present(U) = Present(T)
    BY <1>1, <1>3, <1>4, <1>5, LikeFollows, ZenonT(60)
  <1>7. Environments(T, a) \subseteq Present(U)
    BY <1>6 DEF Environments
  <1>8. Follows(T, Compiled(U, Environments(T, a)), P, R)
    BY <1>6, <1>7, CompiledFollows
  <1> QED BY <1>2, <1>8

(* A tree that differs in its registered teams alone.                       *)
LEMMA TeamsFollow ==
  ASSUME NEW T, NEW P, NEW R, Follows(T, T, P, R), NEW team \in Teams, NEW to
  PROVE  Follows(T, Put(T, [p \in {<<"team", team>>} |-> to]), P, R)
PROOF
  <1> DEFINE U == Put(T, [p \in {<<"team", team>>} |-> to])
  <1>1. IsTree(U) /\ \A p \in Paths : U[p] = IF p \in {<<"team", team>>} THEN to ELSE T[p]
    BY DEF IsTree, Put
  <1> HIDE DEF U
  <1>2. \A j \in Instances : \A x \in {"release", "select", "calls", "subs", "unit", "port"} : U[<<x, j>>] = T[<<x, j>>]
    BY <1>1, RecordNames, FileNames
  <1>3. \A b \in Apps : U[<<"app", b>>] \in Teams \cup {Nothing}
    <2>1. \A b \in Apps : U[<<"app", b>>] = T[<<"app", b>>]
      BY <1>1, RecordNames, FileNames
    <2> QED BY <2>1 DEF Follows, RecordsSound
  <1>4. ASSUME NEW j \in Present(T)
        PROVE  U[<<"calls", j>>] \in SUBSET Apps /\ U[<<"subs", j>>] \in SUBSET (Apps \X STRING)
    <2>1. j \in Instances /\ T[<<"calls", j>>] \in SUBSET Apps /\ T[<<"subs", j>>] \in SUBSET (Apps \X STRING)
      BY PresentSound DEF Follows
    <2> QED BY <1>2, <2>1
  <1>5. Follows(T, U, P, R)
    <2>1. \A j \in Instances : \A x \in {"release", "select", "unit", "port"} : U[<<x, j>>] = T[<<x, j>>]
      BY <1>2
    <2>2. \A j \in Instances \ Present(T) : U[<<"calls", j>>] = T[<<"calls", j>>] /\ U[<<"subs", j>>] = T[<<"subs", j>>]
      BY <1>2
    <2> QED BY <1>1, <1>3, <1>4, <2>1, <2>2, LikeFollows
  <1> QED BY <1>5 DEF U

LEMMA RemoveFollows ==
  ASSUME NEW T, NEW P, NEW R, Follows(T, T, P, R), NEW i \in Instances, RemoveInstance(T, i) # Nothing
  PROVE  Follows(T, RemoveInstance(T, i), P, R)
PROOF
  <1> DEFINE U == Removed(T, Gone(T, i))
  <1>1. IsTree(U) /\ \A p \in Paths : U[p] = IF p \in Gone(T, i) THEN Nothing ELSE T[p]
    BY DEF IsTree, Put, Removed
  <1>2. RemoveInstance(T, i) = U
    BY DEF RemoveInstance, Guarded
  <1> HIDE DEF U
  <1>3. \A x \in {"release", "select", "calls", "subs", "unit"} : U[<<x, i>>] = Nothing
    <2>1. \A x \in {"release", "select", "calls", "subs", "unit"} : <<x, i>> \in Gone(T, i)
      BY DEF Gone, Lines, Folder
    <2> QED BY <1>1, <2>1, RecordNames, FileNames
  <1>4. \A j \in Instances \ {i} : \A x \in {"release", "select", "calls", "subs", "unit"} : U[<<x, j>>] = T[<<x, j>>]
    <2>1. \A j \in Instances \ {i} : \A x \in {"release", "select", "calls", "subs", "unit"} : <<x, j>> \notin Gone(T, i)
      BY DEF Gone
    <2> QED BY <1>1, <2>1, RecordNames, FileNames
  <1>5. \A j \in Instances : U[<<"port", j>>] = T[<<"port", j>>]
    <2>1. \A j \in Instances : <<"port", j>> \notin Gone(T, i)
      BY DEF Gone, Lines, Folder
    <2> QED BY <1>1, <2>1, FileNames
  <1>6. \A b \in Apps : U[<<"app", b>>] \in Teams \cup {Nothing}
    <2>1. \A b \in Apps : U[<<"app", b>>] = Nothing \/ U[<<"app", b>>] = T[<<"app", b>>]
      BY <1>1, RecordNames, FileNames
    <2> QED BY <2>1 DEF Follows, RecordsSound
  <1>7. ASSUME NEW j \in Instances
        PROVE  InstanceSound(U, j)
    <2>1. InstanceSound(T, j)
      BY DEF Follows, RecordsSound
    <2>2. CASE j = i
      BY <1>3, <2>2 DEF InstanceSound
    <2>3. CASE j # i
      <3>1. \A x \in {"release", "select", "calls", "subs", "unit"} : U[<<x, j>>] = T[<<x, j>>]
        BY <1>4, <2>3
      <3> QED BY <2>1, <3>1 DEF InstanceSound
    <2> QED BY <2>2, <2>3
  <1>8. PortsTyped(U)
    BY <1>5 DEF PortsTyped, Follows, RecordsSound
  <1>9. RecordsSound(U)
    BY <1>1, <1>6, <1>7, <1>8 DEF RecordsSound
  <1>10. \A j \in Present(U) : j \in Present(T) /\ U[<<"select", j>>] = T[<<"select", j>>]
    BY <1>3, <1>4 DEF Present
  <1>11. SelectsSound(U, T, P, R) /\ NoNewProd(T, U)
    BY <1>10 DEF SelectsSound, NoNewProd, Follows
  <1> QED BY <1>2, <1>5, <1>9, <1>11 DEF Follows

(* A tree that has another image at one instance, which was not there or   *)
(* keeps its settings.                                                     *)
LEMMA SelectedFollows ==
  ASSUME NEW T, NEW U, NEW P, NEW R, Follows(T, T, P, R), IsTree(U), NEW i \in Instances,
         NEW image \in ImagesOf(i[1]), image \in P, i[2] = "prod" => image \in R /\ i \in Present(T),
         <<i[1], "prod">> \in Present(T) => Accept(image, FirstImage(i[1])),
         U[<<"release", i>>] = image, U[<<"select", i>>] = image,
         U[<<"calls", i>>] \in SUBSET Apps, U[<<"subs", i>>] \in SUBSET (Apps \X STRING),
         \A j \in Instances \ {i} : \A x \in {"release", "select", "calls", "subs", "unit"} : U[<<x, j>>] = T[<<x, j>>],
         \A j \in Instances : U[<<"port", j>>] = T[<<"port", j>>],
         \A a \in Apps : U[<<"app", a>>] \in Teams \cup {Nothing}
  PROVE  Follows(T, U, P, R) /\ i \in Present(U)
PROOF
  <1>1. image \in Images /\ image # Nothing
    BY NothingIsNoContent DEF ImagesOf
  <1>2. i \in Present(U)
    BY <1>1 DEF Present
  <1>3. ASSUME NEW j \in Instances
        PROVE  InstanceSound(U, j)
    <2>1. InstanceSound(T, j)
      BY DEF Follows, RecordsSound
    <2>2. CASE j = i
      BY <1>1, <2>2 DEF InstanceSound
    <2>3. CASE j # i
      <3>1. \A x \in {"release", "select", "calls", "subs", "unit"} : U[<<x, j>>] = T[<<x, j>>]
        BY <2>3
      <3> QED BY <2>1, <3>1 DEF InstanceSound
    <2> QED BY <2>2, <2>3
  <1>4. PortsTyped(U)
    BY DEF PortsTyped, Follows, RecordsSound
  <1>5. RecordsSound(U)
    BY <1>3, <1>4 DEF RecordsSound
  <1>6. \A j \in Present(U) : j # i => j \in Present(T) /\ U[<<"select", j>>] = T[<<"select", j>>]
    BY DEF Present
  <1>7. NoNewProd(T, U)
    BY <1>6 DEF NoNewProd
  <1>8. SelectsSound(U, T, P, R)
    <2> SUFFICES ASSUME NEW j \in Present(U)
                 PROVE  /\ U[<<"select", j>>] \in P
                        /\ j[2] = "prod" => U[<<"select", j>>] \in R
                        /\ <<j[1], "prod">> \in Present(T) => Accept(U[<<"select", j>>], FirstImage(j[1]))
      BY DEF SelectsSound
    <2>1. CASE j = i
      BY <2>1
    <2>2. CASE j # i
      BY <1>6, <2>2 DEF Follows, SelectsSound
    <2> QED BY <2>1, <2>2
  <1> QED BY <1>2, <1>5, <1>7, <1>8 DEF Follows

LEMMA PromoteFollows ==
  ASSUME NEW T, NEW P, NEW R, Follows(T, T, P, R), SelectedInStaging(T) \subseteq R,
         NEW a \in Apps, Promote(T, a) # Nothing
  PROVE  Follows(T, Promote(T, a), P, R)
PROOF
  <1> DEFINE from == <<a, "staging">>
             to == <<a, "prod">>
             image == T[<<"release", from>>]
             U == Put(T, [p \in {"release", "select"} \X {to} |-> image])
  <1>1. IsTree(U) /\ \A p \in Paths : U[p] = IF p \in {"release", "select"} \X {to} THEN image ELSE T[p]
    BY DEF IsTree, Put
  <1>2. /\ BothReadable(T, a)
        /\ Promote(T, a) = T \/ Promote(T, a) = Compiled(U, {to})
    BY DEF Promote, Guarded
  <1>3. from \in Present(T) /\ to \in Present(T) /\ from \in Instances /\ to \in Instances
    BY <1>2 DEF BothReadable, ReadableAt
  <1>4. image = T[<<"select", from>>] /\ image \in ImagesOf(a) /\ image \in P
    <2>1. image = T[<<"select", from>>] /\ T[<<"select", from>>] \in Images /\ T[<<"select", from>>].app = from[1]
      BY <1>3, PresentSound DEF Follows
    <2>2. T[<<"select", from>>] \in P
      BY <1>3 DEF Follows, SelectsSound
    <2> QED BY <2>1, <2>2 DEF ImagesOf
  <1>5. image \in R
    BY <1>3, <1>4 DEF SelectedInStaging, Staging
  <1>6. Accept(image, FirstImage(a))
    <2>1. <<from[1], "prod">> \in Present(T)
      BY <1>3
    <2>2. Accept(T[<<"select", from>>], FirstImage(from[1]))
      BY <1>3, <2>1 DEF Follows, SelectsSound
    <2> QED BY <1>4, <2>2
  <1>7. T[<<"calls", to>>] \in SUBSET Apps /\ T[<<"subs", to>>] \in SUBSET (Apps \X STRING)
    BY <1>3, PresentSound DEF Follows
  <1> HIDE DEF U, image
  <1>8. U[<<"release", to>>] = image /\ U[<<"select", to>>] = image
    BY <1>1, <1>3, RecordNames, FileNames
  <1>9. \A x \in {"calls", "subs"} : U[<<x, to>>] = T[<<x, to>>]
    BY <1>1, <1>3, RecordNames, FileNames
  <1>10. \A j \in Instances \ {to} : \A x \in {"release", "select", "calls", "subs", "unit"} : U[<<x, j>>] = T[<<x, j>>]
    BY <1>1, RecordNames, FileNames
  <1>11. \A j \in Instances : U[<<"port", j>>] = T[<<"port", j>>]
    BY <1>1, FileNames
  <1>12. \A b \in Apps : U[<<"app", b>>] \in Teams \cup {Nothing}
    <2>1. \A b \in Apps : U[<<"app", b>>] = T[<<"app", b>>]
      BY <1>1, RecordNames, FileNames
    <2> QED BY <2>1 DEF Follows, RecordsSound
  <1>13. to[1] = a /\ to[2] = "prod"
    OBVIOUS
  <1> HIDE DEF to, from
  <1>14. Follows(T, U, P, R) /\ to \in Present(U)
    <2>1. U[<<"calls", to>>] \in SUBSET Apps /\ U[<<"subs", to>>] \in SUBSET (Apps \X STRING)
      BY <1>7, <1>9
    <2>2. image \in ImagesOf(to[1])
      BY <1>4, <1>13
    <2>3. <<to[1], "prod">> \in Present(T) => Accept(image, FirstImage(to[1]))
      BY <1>6, <1>13
    <2> QED BY <1>1, <1>3, <1>4, <1>5, <1>8, <1>10, <1>11, <1>12, <2>1, <2>2, <2>3, SelectedFollows
  <1>15. Follows(T, Compiled(U, {to}), P, R)
    <2>1. {to} \subseteq Present(U)
      BY <1>14
    <2> QED BY <1>14, <2>1, CompiledFollows
  <1> QED BY <1>2, <1>15

LEMMA CreateFollows ==
  ASSUME NEW T, NEW P, NEW R, Follows(T, T, P, R), NEW a \in Apps, <<a, "staging">> \in Instances,
         NEW team \in Teams, NEW image \in ImagesOf(a), image \in P, Create(T, a, image, team) # Nothing
  PROVE  Follows(T, Create(T, a, image, team), P, R)
PROOF
  <1> DEFINE i == <<a, "staging">>
             U == Create(T, a, image, team)
             S == {<<"app", a>>} \cup (({"release"} \cup Lines) \X {i})
             contents == [p \in S |->
                   CASE p[1] = "app" -> team
                     [] p[1] \in {"release", "select"} -> image
                     [] p[1] \in {"calls", "allows", "subs"} -> {}]
  <1>1. AppAbsent(T, a) /\ U = Put(T, contents)
    BY DEF Create, Guarded
  <1>2. IsTree(U) /\ \A p \in Paths : U[p] = IF p \in S THEN contents[p] ELSE T[p]
    BY <1>1 DEF IsTree, Put
  <1>3. /\ contents[<<"app", a>>] = team
        /\ contents[<<"release", i>>] = image /\ contents[<<"select", i>>] = image
        /\ contents[<<"calls", i>>] = {} /\ contents[<<"subs", i>>] = {}
    <2>1. <<"app", a>> \in S /\ \A x \in {"release", "select", "calls", "subs"} : <<x, i>> \in S
      BY DEF Lines
    <2> QED BY <2>1
  <1> HIDE DEF U, contents
  <1>4. /\ U[<<"release", i>>] = image /\ U[<<"select", i>>] = image
        /\ U[<<"calls", i>>] = {} /\ U[<<"subs", i>>] = {}
    <2>1. \A x \in {"release", "select", "calls", "subs"} : <<x, i>> \in S /\ <<x, i>> \in Paths
      BY RecordNames, FileNames DEF Lines
    <2> QED BY <1>2, <1>3, <2>1
  <1>5. \A j \in Instances \ {i} : \A x \in {"release", "select", "calls", "subs", "unit"} : U[<<x, j>>] = T[<<x, j>>]
    <2>1. \A j \in Instances \ {i} : \A x \in {"release", "select", "calls", "subs", "unit"} :
             <<x, j>> \notin S /\ <<x, j>> \in Paths
      BY RecordNames, FileNames
    <2> QED BY <1>2, <2>1
  <1>6. \A j \in Instances : U[<<"port", j>>] = T[<<"port", j>>]
    <2>1. \A j \in Instances : <<"port", j>> \notin S /\ <<"port", j>> \in Paths
      BY FileNames DEF Lines
    <2> QED BY <1>2, <2>1
  <1>7. \A b \in Apps : U[<<"app", b>>] \in Teams \cup {Nothing}
    <2> SUFFICES ASSUME NEW b \in Apps
                 PROVE  U[<<"app", b>>] \in Teams \cup {Nothing}
      OBVIOUS
    <2>1. <<"app", b>> \in Paths /\ (<<"app", b>> \in S => b = a)
      BY RecordNames, FileNames DEF Lines
    <2>2. U[<<"app", b>>] = team \/ U[<<"app", b>>] = T[<<"app", b>>]
      BY <1>2, <1>3, <2>1
    <2> QED BY <2>2 DEF Follows, RecordsSound
  <1>8. <<a, "prod">> \notin Present(T)
    <2> SUFFICES ASSUME <<a, "prod">> \in Present(T)
                 PROVE  FALSE
      OBVIOUS
    <2>1. T[<<"release", <<a, "prod">>>>] \in Images
      BY PresentSound DEF Follows
    <2>2. <<a, "prod">> \in Instances
      BY DEF Present
    <2>3. T[<<"release", <<a, "prod">>>>] = Nothing
      BY <1>1, <2>2 DEF AppAbsent
    <2> QED BY <2>1, <2>3, NothingIsNoContent
  <1>9. i[1] = a /\ i[2] # "prod" /\ i \in Instances
    OBVIOUS
  <1> HIDE DEF i
  <1>10. Follows(T, U, P, R)
    <2>1. U[<<"calls", i>>] \in SUBSET Apps /\ U[<<"subs", i>>] \in SUBSET (Apps \X STRING)
      BY <1>4
    <2>2. image \in ImagesOf(i[1])
      BY <1>9
    <2>3. <<i[1], "prod">> \notin Present(T)
      BY <1>8, <1>9
    <2> QED BY <1>2, <1>4, <1>5, <1>6, <1>7, <1>9, <2>1, <2>2, <2>3, SelectedFollows
  <1> QED BY <1>10 DEF U

(* What has been published: each app's images in order, and one the newest. *)
PublishedSound(P) ==
  /\ P \subseteq Images
  /\ \A a \in Apps : \E m \in P : m.app = a /\ \A o \in P : o.app = a => o.run <= m.run
  /\ \A m, o \in P : m.app = o.app /\ m.run = o.run => m = o

LEMMA NewestIs ==
  ASSUME NEW P, PublishedSound(P), NEW a \in Apps
  PROVE  /\ Newest(P, a) \in P /\ Newest(P, a) \in ImagesOf(a)
         /\ \A o \in P : o.app = a => o.run <= Newest(P, a).run
PROOF
  <1>1. \E m \in P : m.app = a /\ \A o \in P : o.app = a => o.run <= m.run
    BY DEF PublishedSound
  <1>2. /\ Newest(P, a) \in P /\ Newest(P, a).app = a
        /\ \A o \in P : o.app = a => o.run <= Newest(P, a).run
    BY <1>1 DEF Newest
  <1> QED BY <1>2 DEF PublishedSound, ImagesOf

LEMMA ChosenFollows ==
  ASSUME NEW T, NEW S, NEW P, NEW R, S # Nothing => Follows(T, S, P, R),
         NEW i \in Instances, NEW line \in {"calls", "subs"}, NEW to,
         line = "calls" => to \in SUBSET Apps, line = "subs" => to \in SUBSET (Apps \X STRING),
         Chosen(S, i, line, to) # Nothing
  PROVE  Follows(T, Chosen(S, i, line, to), P, R)
PROOF
  <1>1. S # Nothing
    BY DEF Chosen
  <1>2. CASE to = {}
    BY <1>1, <1>2 DEF Chosen
  <1>3. CASE to # {}
    <2>1. Chosen(S, i, line, to) = Edit(S, i, line, to)
      BY <1>1, <1>3 DEF Chosen
    <2>2. line \in {"calls", "allows", "subs"}
      OBVIOUS
    <2> QED BY <1>1, <2>1, <2>2, EditFollows
  <1> QED BY <1>2, <1>3

(* What a request's commands leave, whatever it asks for.                  *)
LEMMA ChangedFollows ==
  ASSUME NEW T, NEW P, NEW R, Follows(T, T, P, R), PublishedSound(P), SelectedInStaging(T) \subseteq R,
         NEW q \in Requests, Changed(T, P, q) # Nothing
  PROVE  Follows(T, Changed(T, P, q), P, R)
PROOF
  <1>1. CASE /\ q.do = "new" /\ <<q.app, "staging">> \in Instances /\ q.team \in Teams
             /\ q.calls \in SUBSET Apps /\ q.subs \in SUBSET (Apps \X STRING)
    <2> DEFINE i == <<q.app, "staging">>
               C == Create(T, q.app, Newest(P, q.app), q.team)
               D == Chosen(C, i, "calls", q.calls)
    <2>1. q.app \in Apps
      BY <1>1, InstanceShape
    <2>2. Newest(P, q.app) \in P /\ Newest(P, q.app) \in ImagesOf(q.app)
      BY <2>1, NewestIs
    <2>3. Changed(T, P, q) = CreateChosen(T, Newest(P, q.app), q)
      BY <1>1 DEF Changed
    <2>4. CreateChosen(T, Newest(P, q.app), q) = Chosen(D, i, "subs", q.subs)
      BY DEF CreateChosen
    <2>5. C # Nothing => Follows(T, C, P, R)
      BY <1>1, <2>1, <2>2, CreateFollows
    <2>6. i \in Instances
      BY <1>1
    <2> HIDE DEF C, i
    <2>7. D # Nothing => Follows(T, D, P, R)
      BY <1>1, <2>5, <2>6, ChosenFollows
    <2> HIDE DEF D
    <2>8. Chosen(D, i, "subs", q.subs) # Nothing => Follows(T, Chosen(D, i, "subs", q.subs), P, R)
      BY <1>1, <2>6, <2>7, ChosenFollows
    <2> QED BY <2>3, <2>4, <2>8
  <1>2. CASE q.do = "edit" /\ q.inst \in Instances /\ q.line = "calls" /\ q.to \in SUBSET Apps
    <2>1. Changed(T, P, q) = Edit(T, q.inst, "calls", q.to)
      BY <1>2 DEF Changed
    <2> QED BY <1>2, <2>1, EditFollows
  <1>3. CASE q.do = "edit" /\ q.inst \in Instances /\ q.line = "allows"
    <2>1. Changed(T, P, q) = Edit(T, q.inst, "allows", q.to)
      BY <1>3 DEF Changed
    <2> QED BY <1>3, <2>1, EditFollows
  <1>4. CASE q.do = "edit" /\ q.inst \in Instances /\ q.line = "subs" /\ q.to \in SUBSET (Apps \X STRING)
    <2>1. Changed(T, P, q) = Edit(T, q.inst, "subs", q.to)
      BY <1>4 DEF Changed
    <2> QED BY <1>4, <2>1, EditFollows
  <1>5. CASE q.do = "remove" /\ q.inst \in Instances
    <2>1. Changed(T, P, q) = RemoveInstance(T, q.inst)
      BY <1>5 DEF Changed
    <2> QED BY <1>5, <2>1, RemoveFollows
  <1>6. CASE q.do = "promote" /\ q.app \in Apps
    <2>1. Changed(T, P, q) = Promote(T, q.app)
      BY <1>6 DEF Changed
    <2> QED BY <1>6, <2>1, PromoteFollows
  <1>7. CASE q.do = "team" /\ q.app \in Apps /\ q.team \in Teams
    <2>1. Changed(T, P, q) = SetTeam(T, q.app, q.team)
      BY <1>7 DEF Changed
    <2> QED BY <1>7, <2>1, SetTeamFollows
  <1>8. CASE q.do = "team-add" /\ q.team \in Teams
    <2>1. Changed(T, P, q) = AddTeam(T, q.team)
      BY <1>8 DEF Changed
    <2>2. AddTeam(T, q.team) = Put(T, [p \in {<<"team", q.team>>} |-> TRUE])
      BY <2>1 DEF AddTeam, Guarded
    <2> DEFINE team == q.team
    <2>3. team \in Teams
      BY <1>8
    <2> HIDE DEF team
    <2>4. Follows(T, Put(T, [p \in {<<"team", team>>} |-> TRUE]), P, R)
      BY <2>3, TeamsFollow
    <2> QED BY <2>1, <2>2, <2>4 DEF team
  <1>9. CASE q.do = "team-remove" /\ q.team \in Teams
    <2>1. Changed(T, P, q) = RemoveTeam(T, q.team)
      BY <1>9 DEF Changed
    <2>2. RemoveTeam(T, q.team) = Put(T, [p \in {<<"team", q.team>>} |-> Nothing])
      BY <2>1 DEF RemoveTeam, Guarded
    <2> DEFINE team == q.team
    <2>3. team \in Teams
      BY <1>9
    <2> HIDE DEF team
    <2>4. Follows(T, Put(T, [p \in {<<"team", team>>} |-> Nothing]), P, R)
      BY <2>3, TeamsFollow
    <2> QED BY <2>1, <2>2, <2>4 DEF team
  <1> QED BY <1>1, <1>2, <1>3, <1>4, <1>5, <1>6, <1>7, <1>8, <1>9, RequestsAreRequests

-----------------------------------------------------------------------------
(* Pull requests.                                                          *)

Standing(T, M, P, R) == Sound(T) /\ SelectsSound(T, M, P, R)

LEMMA OwnedIs ==
  ASSUME NEW q
  PROVE  /\ Registry(q) => \A p \in Owned(q) : p[1] = "team"
         /\ ~Registry(q) => /\ \A i \in Instances : \A x \in {"release", "select", "calls", "subs", "unit"} :
                                 <<x, i>> \in Owned(q) <=> i \in Carries(q)
                            /\ \A i \in Instances : <<"port", i>> \in Owned(q)
                            /\ <<"proxy", "platform">> \in Owned(q)
PROOF
  <1>1. CASE Registry(q)
    BY <1>1 DEF Owned
  <1>2. CASE ~Registry(q)
    <2>1. Owned(q) = ({"app"} \X AppOf(q)) \cup (({"release"} \cup Lines \cup Folder) \X Carries(q))
                       \cup (Shared \X Instances) \cup Whole
      BY <1>2 DEF Owned
    <2>2. \A i \in Instances : \A x \in {"release", "select", "calls", "subs", "unit"} :
            <<x, i>> \in Owned(q) <=> i \in Carries(q)
      BY <2>1 DEF Lines, Folder, Shared, Whole
    <2>3. \A i \in Instances : <<"port", i>> \in Owned(q)
      BY <2>1 DEF Shared
    <2>4. <<"proxy", "platform">> \in Owned(q)
      BY <2>1 DEF Whole
    <2> QED BY <1>2, <2>2, <2>3, <2>4
  <1> QED BY <1>1, <1>2

(* A pull request opened on a sound main is sound; what it does not own is main's. *)
LEMMA ProposedStands ==
  ASSUME NEW T, NEW U, NEW P, NEW R, NEW q, NEW n, Standing(T, T, P, R), U # Nothing => Follows(T, U, P, R),
         NEW tree, tree = Proposed(T, U, q, n), tree # Nothing
  PROVE  /\ Standing(tree, T, P, R) /\ NoNewProd(T, tree) /\ KeepsPorts(T, tree)
         /\ \A p \in Paths : p \notin Owned(q) => tree[p] = T[p]
PROOF
  <1> DEFINE R1 == IF U = Nothing \/ Registry(q) THEN U ELSE Guarded(Renderable(U), RenderAt(U, n))
             P1 == [p \in Paths |-> IF p \in Owned(q) THEN R1[p] ELSE T[p]]
  <1>1. tree = P1 /\ R1 # Nothing
    BY DEF Proposed
  <1>2. U # Nothing /\ Follows(T, U, P, R)
    BY <1>1
  <1>3. IsTree(tree) /\ \A p \in Paths : tree[p] = (IF p \in Owned(q) THEN R1[p] ELSE T[p])
    BY <1>1 DEF IsTree
  <1>4. Registry(q) => R1 = U
    OBVIOUS
  <1>5. ~Registry(q) => R1 = RenderAt(U, n) /\ Renderable(U)
    BY <1>1, <1>2 DEF Guarded
  <1> HIDE DEF R1
  <1>6. CASE Registry(q)
    <2>1. \A p \in Paths : p[1] # "team" => tree[p] = T[p]
      BY <1>3, <1>6, OwnedIs
    <2>2. \A i \in Instances : \A x \in {"release", "select", "calls", "subs", "unit", "port"} : tree[<<x, i>>] = T[<<x, i>>]
      BY <2>1, RecordNames, FileNames
    <2>3. \A a \in Apps : tree[<<"app", a>>] = T[<<"app", a>>]
      BY <2>1, RecordNames, FileNames
    <2>4. tree[<<"proxy", "platform">>] = T[<<"proxy", "platform">>]
      BY <2>1, FileNames
    <2>5. RecordsSound(T) /\ UnitsTyped(T) /\ ProxyStates(T) /\ PortsApart(T)
      BY DEF Standing, Sound
    <2>6. \A i \in Present(tree) : i \in Present(T) /\ i \in Instances
      BY <2>2 DEF Present
    <2>7. RecordsSound(tree)
      <3>1. ASSUME NEW i \in Instances
            PROVE  InstanceSound(tree, i)
        <4>1. InstanceSound(T, i)
          BY <2>5 DEF RecordsSound
        <4>2. \A x \in {"release", "select", "calls", "subs", "unit"} : tree[<<x, i>>] = T[<<x, i>>]
          BY <2>2
        <4> QED BY <4>1, <4>2 DEF InstanceSound
      <3>2. PortsTyped(tree)
        BY <2>2, <2>5 DEF RecordsSound, PortsTyped
      <3>3. \A a \in Apps : tree[<<"app", a>>] \in Teams \cup {Nothing}
        BY <2>3, <2>5 DEF RecordsSound
      <3> QED BY <1>3, <3>1, <3>2, <3>3 DEF RecordsSound
    <2>8. UnitsTyped(tree)
      BY <2>2, <2>5, <2>6 DEF UnitsTyped
    <2>9. [i \in Instances |-> tree[<<"port", i>>]] = [i \in Instances |-> T[<<"port", i>>]]
      BY <2>2
    <2>10. ProxyStates(tree) /\ PortsApart(tree)
      BY <2>4, <2>5, <2>9 DEF ProxyStates, PortsApart
    <2>11. SelectsSound(tree, T, P, R)
      <3>1. \A i \in Present(tree) : tree[<<"select", i>>] = T[<<"select", i>>]
        BY <2>2, <2>6
      <3> QED BY <2>6, <3>1 DEF Standing, SelectsSound
    <2>12. NoNewProd(T, tree) /\ KeepsPorts(T, tree)
      BY <2>2, <2>6 DEF NoNewProd, KeepsPorts
    <2> QED BY <1>3, <2>7, <2>8, <2>10, <2>11, <2>12 DEF Standing, Sound
  <1>7. CASE ~Registry(q)
    <2>1. RecordsSound(U) /\ SelectsSound(U, T, P, R) /\ NoNewProd(T, U)
          /\ \A i \in Instances : U[<<"port", i>>] = T[<<"port", i>>]
      BY <1>2 DEF Follows
    <2>2. Sound(R1) /\ Agree(R1, U) /\ KeepsPorts(U, R1)
      BY <1>5, <1>7, <2>1, RenderSound
    <2>3. /\ RecordsSound(R1) /\ UnitsTyped(R1) /\ ProxyStates(R1) /\ PortsApart(R1)
          /\ RecordsSound(T) /\ UnitsTyped(T)
      BY <2>2 DEF Sound, Standing
    <2>4. Present(R1) = Present(U)
      BY <2>2, SameRecords
    <2>5. \A i \in Present(U) : R1[<<"select", i>>] = U[<<"select", i>>]
      BY <2>2, RecordNames DEF Agree, Present
    <2>6. SelectsSound(R1, T, P, R) /\ NoNewProd(T, R1)
      BY <2>1, <2>4, <2>5 DEF SelectsSound, NoNewProd
    <2>7. ASSUME NEW i \in Instances
          PROVE  \/ \A x \in {"release", "select", "calls", "subs", "unit"} : tree[<<x, i>>] = R1[<<x, i>>]
                 \/ \A x \in {"release", "select", "calls", "subs", "unit"} : tree[<<x, i>>] = T[<<x, i>>]
      <3>1. CASE i \in Carries(q)
        <4>1. \A x \in {"release", "select", "calls", "subs", "unit"} : <<x, i>> \in Owned(q)
          BY <1>7, <3>1, OwnedIs
        <4> QED BY <1>3, <4>1, RecordNames, FileNames
      <3>2. CASE i \notin Carries(q)
        <4>1. \A x \in {"release", "select", "calls", "subs", "unit"} : <<x, i>> \notin Owned(q)
          BY <1>7, <3>2, OwnedIs
        <4> QED BY <1>3, <4>1, RecordNames, FileNames
      <3> QED BY <3>1, <3>2
    <2>8. \A i \in Instances : tree[<<"port", i>>] = R1[<<"port", i>>]
      BY <1>3, <1>7, OwnedIs, FileNames
    <2>9. tree[<<"proxy", "platform">>] = R1[<<"proxy", "platform">>]
      BY <1>3, <1>7, OwnedIs, FileNames
    <2>10. ASSUME NEW i \in Instances
           PROVE  InstanceSound(tree, i)
      <3>1. InstanceSound(R1, i) /\ InstanceSound(T, i)
        BY <2>3 DEF RecordsSound
      <3>2. CASE \A x \in {"release", "select", "calls", "subs", "unit"} : tree[<<x, i>>] = R1[<<x, i>>]
        BY <3>1, <3>2 DEF InstanceSound
      <3>3. CASE \A x \in {"release", "select", "calls", "subs", "unit"} : tree[<<x, i>>] = T[<<x, i>>]
        BY <3>1, <3>3 DEF InstanceSound
      <3> QED BY <2>7, <3>2, <3>3
    <2>11. PortsTyped(tree)
      BY <2>3, <2>8 DEF PortsTyped, RecordsSound
    <2>12. \A a \in Apps : tree[<<"app", a>>] \in Teams \cup {Nothing}
      <3>1. \A a \in Apps : tree[<<"app", a>>] = R1[<<"app", a>>] \/ tree[<<"app", a>>] = T[<<"app", a>>]
        BY <1>3, RecordNames, FileNames
      <3> QED BY <2>3, <3>1 DEF RecordsSound
    <2>13. RecordsSound(tree)
      BY <1>3, <2>10, <2>11, <2>12 DEF RecordsSound
    <2>14. ASSUME NEW i \in Present(tree)
           PROVE  \/ i \in Present(R1) /\ tree[<<"select", i>>] = R1[<<"select", i>>] /\ tree[<<"unit", i>>] = R1[<<"unit", i>>]
                  \/ i \in Present(T) /\ tree[<<"select", i>>] = T[<<"select", i>>] /\ tree[<<"unit", i>>] = T[<<"unit", i>>]
      BY <2>7 DEF Present
    <2>15. UnitsTyped(tree)
      BY <2>3, <2>14 DEF UnitsTyped
    <2>16. SelectsSound(tree, T, P, R) /\ NoNewProd(T, tree)
      <3>1. SelectsSound(T, T, P, R)
        BY DEF Standing
      <3>2. SelectsSound(tree, T, P, R)
        BY <2>6, <2>14, <3>1 DEF SelectsSound
      <3>3. NoNewProd(T, tree)
        BY <2>6, <2>14 DEF NoNewProd
      <3> QED BY <3>2, <3>3
    <2>17. [i \in Instances |-> tree[<<"port", i>>]] = [i \in Instances |-> R1[<<"port", i>>]]
      BY <2>8
    <2>18. ProxyStates(tree) /\ PortsApart(tree)
      BY <2>3, <2>9, <2>17 DEF ProxyStates, PortsApart
    <2>19. KeepsPorts(T, tree)
      BY <2>1, <2>2, <2>8 DEF KeepsPorts
    <2> QED BY <1>3, <2>13, <2>15, <2>16, <2>18, <2>19 DEF Standing, Sound
  <1> QED BY <1>6, <1>7

-----------------------------------------------------------------------------
(* A merge.                                                                *)

LEMMA MergedAt ==
  ASSUME NEW pr, ~Conflict(pr), NEW p \in Paths
  PROVE  /\ pr.tree[p] = pr.base[p] => Merged(pr)[p] = main[p]
         /\ pr.tree[p] # pr.base[p] => Merged(pr)[p] = pr.tree[p] /\ main[p] \in {pr.base[p], pr.tree[p]}
PROOF
  BY DEF Merged, Conflict, Touches, Moved

(* A line of an instance's record is there with the record, and like S.    *)
LineSound(T, i, line, S) ==
  /\ T[<<"select", i>>] # Nothing => T[<<line, i>>] \in S
  /\ T[<<"select", i>>] = Nothing => T[<<line, i>>] = Nothing

(* No merge leaves half a record: what one side removes the other has not changed. *)
LEMMA MergedLine ==
  ASSUME NEW pr, ~Conflict(pr), NEW i \in Instances, NEW line \in Lines, NEW S,
         LineSound(pr.base, i, line, S), LineSound(pr.tree, i, line, S), LineSound(main, i, line, S)
  PROVE  LineSound(Merged(pr), i, line, S)
PROOF
  <1> DEFINE s == <<"select", i>>
             l == <<line, i>>
             M == Merged(pr)
  <1>1. s \in Paths /\ l \in Paths /\ "select" \in Lines
    BY FileNames DEF RecordPaths, Lines
  <1>2. /\ pr.tree[s] = pr.base[s] => M[s] = main[s]
        /\ pr.tree[s] # pr.base[s] => M[s] = pr.tree[s] /\ main[s] \in {pr.base[s], pr.tree[s]}
    BY <1>1, MergedAt
  <1>3. /\ pr.tree[l] = pr.base[l] => M[l] = main[l]
        /\ pr.tree[l] # pr.base[l] => M[l] = pr.tree[l] /\ main[l] \in {pr.base[l], pr.tree[l]}
    BY <1>1, MergedAt
  <1>4. \A x, y \in {s, l} : pr.tree[x] # pr.base[x] /\ main[y] # pr.base[y] =>
          ~((main[s] = Nothing) # (pr.tree[s] = Nothing))
    BY <1>1 DEF Conflict, Touches, Moved
  <1>5. /\ pr.base[s] # Nothing => pr.base[l] \in S
        /\ pr.base[s] = Nothing => pr.base[l] = Nothing
        /\ pr.tree[s] # Nothing => pr.tree[l] \in S
        /\ pr.tree[s] = Nothing => pr.tree[l] = Nothing
        /\ main[s] # Nothing => main[l] \in S
        /\ main[s] = Nothing => main[l] = Nothing
    BY DEF LineSound
  <1> HIDE DEF s, l, M
  <1>6. CASE pr.tree[s] = pr.base[s] /\ pr.tree[l] = pr.base[l]
    <2>1. M[s] = main[s] /\ M[l] = main[l]
      BY <1>2, <1>3, <1>6
    <2> QED BY <1>5, <2>1 DEF LineSound, s, l, M
  <1>7. CASE pr.tree[s] # pr.base[s]
    <2>1. M[s] = pr.tree[s] /\ main[s] \in {pr.base[s], pr.tree[s]}
      BY <1>2, <1>7
    <2>2. CASE pr.tree[l] # pr.base[l]
      <3>1. M[l] = pr.tree[l]
        BY <1>3, <2>2
      <3> QED BY <1>5, <2>1, <3>1 DEF LineSound, s, l, M
    <2>3. CASE pr.tree[l] = pr.base[l]
      <3>1. M[l] = main[l]
        BY <1>3, <2>3
      <3>2. CASE main[l] = pr.base[l]
        BY <1>5, <2>1, <2>3, <3>1, <3>2 DEF LineSound, s, l, M
      <3>3. CASE main[l] # pr.base[l]
        <4>1. (main[s] = Nothing) <=> (pr.tree[s] = Nothing)
          BY <1>4, <1>7, <3>3
        <4> QED BY <1>5, <2>1, <3>1, <4>1 DEF LineSound, s, l, M
      <3> QED BY <3>2, <3>3
    <2> QED BY <2>2, <2>3
  <1>8. CASE pr.tree[s] = pr.base[s] /\ pr.tree[l] # pr.base[l]
    <2>1. M[s] = main[s] /\ M[l] = pr.tree[l]
      BY <1>2, <1>3, <1>8
    <2>2. CASE main[s] = pr.base[s]
      BY <1>5, <1>8, <2>1, <2>2 DEF LineSound, s, l, M
    <2>3. CASE main[s] # pr.base[s]
      <3>1. (main[s] = Nothing) <=> (pr.tree[s] = Nothing)
        BY <1>4, <1>8, <2>3
      <3> QED BY <1>5, <2>1, <3>1 DEF LineSound, s, l, M
    <2> QED BY <2>2, <2>3
  <1> QED BY <1>6, <1>7, <1>8

(* An instance's folder is there with its record.                          *)
UnitSound(T, i) ==
  /\ T[<<"select", i>>] # Nothing => T[<<"unit", i>>] \in UnitType
  /\ T[<<"select", i>>] = Nothing => T[<<"unit", i>>] = Nothing

LEMMA MergedUnit ==
  ASSUME NEW pr, ~Conflict(pr), NEW i \in Instances,
         UnitSound(pr.base, i), UnitSound(pr.tree, i), UnitSound(main, i)
  PROVE  UnitSound(Merged(pr), i)
PROOF
  <1> DEFINE s == <<"select", i>>
             l == <<"unit", i>>
             M == Merged(pr)
  <1>1. s \in Paths /\ l \in Paths
    BY RecordNames, FileNames
  <1>2. /\ pr.tree[s] = pr.base[s] => M[s] = main[s]
        /\ pr.tree[s] # pr.base[s] => M[s] = pr.tree[s] /\ main[s] \in {pr.base[s], pr.tree[s]}
    BY <1>1, MergedAt
  <1>3. /\ pr.tree[l] = pr.base[l] => M[l] = main[l]
        /\ pr.tree[l] # pr.base[l] => M[l] = pr.tree[l] /\ main[l] \in {pr.base[l], pr.tree[l]}
    BY <1>1, MergedAt
  <1>4. /\ pr.base[s] # Nothing => pr.base[l] \in UnitType
        /\ pr.base[s] = Nothing => pr.base[l] = Nothing
        /\ pr.tree[s] # Nothing => pr.tree[l] \in UnitType
        /\ pr.tree[s] = Nothing => pr.tree[l] = Nothing
        /\ main[s] # Nothing => main[l] \in UnitType
        /\ main[s] = Nothing => main[l] = Nothing
    BY DEF UnitSound
  <1>5. Nothing \notin UnitType
    BY NothingIsNoContent
  <1> HIDE DEF s, l, M
  <1>6. (M[s] # Nothing => M[l] \in UnitType) /\ (M[s] = Nothing => M[l] = Nothing)
    <2>1. CASE pr.tree[s] = pr.base[s] /\ pr.tree[l] = pr.base[l]
      BY <1>2, <1>3, <1>4, <2>1
    <2>2. CASE pr.tree[s] # pr.base[s] /\ pr.tree[l] = pr.base[l]
      BY <1>2, <1>3, <1>4, <1>5, <2>2
    <2>3. CASE pr.tree[s] # pr.base[s] /\ pr.tree[l] # pr.base[l]
      BY <1>2, <1>3, <1>4, <2>3
    <2>4. CASE pr.tree[s] = pr.base[s] /\ pr.tree[l] # pr.base[l]
      BY <1>2, <1>3, <1>4, <1>5, <2>4
    <2> QED BY <2>1, <2>2, <2>3, <2>4
  <1> QED BY <1>6 DEF UnitSound, s, l, M

(* Two sound trees whose proxies' lists agree give every instance the same port. *)
LEMMA ProxiesAgree ==
  ASSUME NEW S, NEW T, ProxyStates(S), ProxyStates(T), S[<<"proxy", "platform">>] = T[<<"proxy", "platform">>]
  PROVE  \A i \in Instances : S[<<"port", i>>] = T[<<"port", i>>]
PROOF
  <1> SUFFICES ASSUME NEW i \in Instances
               PROVE  S[<<"port", i>>] = T[<<"port", i>>]
    OBVIOUS
  <1>1. S[<<"proxy", "platform">>][i] = S[<<"port", i>>] /\ T[<<"proxy", "platform">>][i] = T[<<"port", i>>]
    BY DEF ProxyStates
  <1> QED BY <1>1

(* A merge takes all ports from one of its sides.                          *)
LEMMA MergedPorts ==
  ASSUME NEW pr, ~Conflict(pr), Sound(pr.base), Sound(pr.tree), Sound(main), KeepsPorts(pr.base, pr.tree)
  PROVE  /\ PortsTyped(Merged(pr)) /\ ProxyStates(Merged(pr)) /\ PortsApart(Merged(pr))
         /\ KeepsPorts(main, Merged(pr))
PROOF
  <1> DEFINE M == Merged(pr)
             x == <<"proxy", "platform">>
  <1>1. /\ ProxyStates(pr.base) /\ ProxyStates(pr.tree) /\ ProxyStates(main)
        /\ PortsApart(pr.tree) /\ PortsApart(main)
        /\ PortsTyped(pr.tree) /\ PortsTyped(main)
    BY DEF Sound, RecordsSound
  <1>2. x \in Paths /\ \A i \in Instances : <<"port", i>> \in Paths
    BY FileNames
  <1>3. \A p \in Paths : /\ pr.tree[p] = pr.base[p] => M[p] = main[p]
                         /\ pr.tree[p] # pr.base[p] => M[p] = pr.tree[p] /\ main[p] \in {pr.base[p], pr.tree[p]}
    BY MergedAt
  <1> HIDE DEF M
  <1>4. CASE pr.tree[x] = pr.base[x]
    <2>1. \A i \in Instances : pr.tree[<<"port", i>>] = pr.base[<<"port", i>>]
      BY <1>1, <1>4, ProxiesAgree
    <2>2. M[x] = main[x] /\ \A i \in Instances : M[<<"port", i>>] = main[<<"port", i>>]
      BY <1>2, <1>3, <1>4, <2>1
    <2>3. [i \in Instances |-> M[<<"port", i>>]] = [i \in Instances |-> main[<<"port", i>>]]
      BY <2>2
    <2> QED BY <1>1, <2>2, <2>3 DEF PortsTyped, ProxyStates, PortsApart, KeepsPorts, M
  <1>5. CASE pr.tree[x] # pr.base[x]
    <2>1. M[x] = pr.tree[x] /\ main[x] \in {pr.base[x], pr.tree[x]}
      BY <1>2, <1>3, <1>5
    <2>2. \/ \A i \in Instances : main[<<"port", i>>] = pr.base[<<"port", i>>]
          \/ \A i \in Instances : main[<<"port", i>>] = pr.tree[<<"port", i>>]
      BY <1>1, <2>1, ProxiesAgree
    <2>3. \A i \in Instances : M[<<"port", i>>] = pr.tree[<<"port", i>>]
      BY <1>2, <1>3, <2>2
    <2>4. [i \in Instances |-> M[<<"port", i>>]] = [i \in Instances |-> pr.tree[<<"port", i>>]]
      BY <2>3
    <2>5. KeepsPorts(main, M)
      BY <2>2, <2>3 DEF KeepsPorts
    <2> QED BY <1>1, <2>1, <2>3, <2>4, <2>5 DEF PortsTyped, ProxyStates, PortsApart, M
  <1> QED BY <1>4, <1>5

LEMMA SoundParts ==
  ASSUME NEW T, Sound(T), NEW i \in Instances
  PROVE  /\ T[<<"release", i>>] = T[<<"select", i>>]
         /\ T[<<"select", i>>] \in ImagesOf(i[1]) \cup {Nothing}
         /\ LineSound(T, i, "calls", SUBSET Apps)
         /\ LineSound(T, i, "subs", SUBSET (Apps \X STRING))
         /\ UnitSound(T, i)
PROOF
  <1>1. InstanceSound(T, i)
    BY DEF Sound, RecordsSound
  <1>2. i \in Present(T) => T[<<"unit", i>>] \in UnitType
    BY DEF Sound, UnitsTyped
  <1>3. i \in Present(T) <=> T[<<"select", i>>] # Nothing
    BY DEF Present
  <1>4. UnitSound(T, i)
    BY <1>1, <1>2, <1>3 DEF InstanceSound, UnitSound
  <1> QED BY <1>1, <1>4 DEF InstanceSound, LineSound

(* What a merge puts on main is sound when its sides are.                  *)
LEMMA MergedStands ==
  ASSUME NEW pr, NEW P, NEW R, ~Conflict(pr), Sound(pr.base), Standing(pr.tree, main, P, R), Standing(main, main, P, R),
         NoNewProd(pr.base, pr.tree), KeepsPorts(pr.base, pr.tree)
  PROVE  Standing(Merged(pr), main, P, R) /\ NoNewProd(main, Merged(pr)) /\ KeepsPorts(main, Merged(pr))
PROOF
  <1> DEFINE M == Merged(pr)
  <1>1. Sound(pr.base) /\ Sound(pr.tree) /\ Sound(main)
    BY DEF Standing
  <1>2. PortsTyped(M) /\ ProxyStates(M) /\ PortsApart(M) /\ KeepsPorts(main, M)
    BY <1>1, MergedPorts
  <1>3. \A p \in Paths : /\ pr.tree[p] = pr.base[p] => M[p] = main[p]
                         /\ pr.tree[p] # pr.base[p] => M[p] = pr.tree[p] /\ main[p] \in {pr.base[p], pr.tree[p]}
    BY MergedAt
  <1>4. IsTree(M)
    BY DEF IsTree, Merged
  <1>5. \A i \in Instances : LineSound(M, i, "calls", SUBSET Apps) /\ LineSound(M, i, "subs", SUBSET (Apps \X STRING))
    <2> SUFFICES ASSUME NEW i \in Instances
                 PROVE  LineSound(M, i, "calls", SUBSET Apps) /\ LineSound(M, i, "subs", SUBSET (Apps \X STRING))
      OBVIOUS
    <2>1. "calls" \in Lines /\ "subs" \in Lines
      BY DEF Lines
    <2>2. /\ LineSound(pr.base, i, "calls", SUBSET Apps) /\ LineSound(pr.base, i, "subs", SUBSET (Apps \X STRING))
          /\ LineSound(pr.tree, i, "calls", SUBSET Apps) /\ LineSound(pr.tree, i, "subs", SUBSET (Apps \X STRING))
          /\ LineSound(main, i, "calls", SUBSET Apps) /\ LineSound(main, i, "subs", SUBSET (Apps \X STRING))
      BY <1>1, SoundParts
    <2>3. LineSound(M, i, "calls", SUBSET Apps)
      BY <2>1, <2>2, MergedLine
    <2>4. LineSound(M, i, "subs", SUBSET (Apps \X STRING))
      BY <2>1, <2>2, MergedLine
    <2> QED BY <2>3, <2>4
  <1>6. \A i \in Instances : UnitSound(M, i)
    BY <1>1, SoundParts, MergedUnit
  <1> HIDE DEF M
  <1>7. ASSUME NEW i \in Instances
        PROVE  InstanceSound(M, i)
    <2> DEFINE s == <<"select", i>>
               r == <<"release", i>>
    <2>1. s \in Paths /\ r \in Paths
      BY RecordNames, FileNames
    <2>2. /\ pr.base[r] = pr.base[s] /\ pr.tree[r] = pr.tree[s] /\ main[r] = main[s]
          /\ pr.tree[s] \in ImagesOf(i[1]) \cup {Nothing} /\ main[s] \in ImagesOf(i[1]) \cup {Nothing}
      BY <1>1, SoundParts
    <2> HIDE DEF s, r
    <2>3. M[r] = M[s] /\ M[s] \in ImagesOf(i[1]) \cup {Nothing}
      BY <1>3, <2>1, <2>2
    <2>4. LineSound(M, i, "calls", SUBSET Apps) /\ LineSound(M, i, "subs", SUBSET (Apps \X STRING)) /\ UnitSound(M, i)
      BY <1>5, <1>6
    <2> QED BY <2>3, <2>4 DEF InstanceSound, LineSound, UnitSound, s, r
  <1>8. \A a \in Apps : M[<<"app", a>>] \in Teams \cup {Nothing}
    <2> SUFFICES ASSUME NEW a \in Apps
                 PROVE  M[<<"app", a>>] \in Teams \cup {Nothing}
      OBVIOUS
    <2>1. pr.tree[<<"app", a>>] \in Teams \cup {Nothing} /\ main[<<"app", a>>] \in Teams \cup {Nothing}
      BY <1>1 DEF Sound, RecordsSound
    <2>2. <<"app", a>> \in Paths
      BY RecordNames, FileNames
    <2> QED BY <1>3, <2>1, <2>2
  <1>9. RecordsSound(M)
    BY <1>2, <1>4, <1>7, <1>8 DEF RecordsSound
  <1>10. UnitsTyped(M)
    BY <1>6 DEF UnitsTyped, UnitSound, Present
  <1>11. ASSUME NEW i \in Present(M)
         PROVE  \/ i \in Present(pr.tree) /\ M[<<"select", i>>] = pr.tree[<<"select", i>>]
                \/ i \in Present(main) /\ M[<<"select", i>>] = main[<<"select", i>>]
    <2>1. i \in Instances /\ M[<<"select", i>>] # Nothing /\ <<"select", i>> \in Paths
      BY RecordNames, FileNames DEF Present
    <2>2. M[<<"select", i>>] = pr.tree[<<"select", i>>] \/ M[<<"select", i>>] = main[<<"select", i>>]
      BY <1>3, <2>1
    <2> QED BY <2>1, <2>2 DEF Present
  <1>12. SelectsSound(M, main, P, R)
    <2>1. SelectsSound(pr.tree, main, P, R) /\ SelectsSound(main, main, P, R)
      BY DEF Standing
    <2> QED BY <1>11, <2>1 DEF SelectsSound
  <1>13. NoNewProd(main, M)
    <2> SUFFICES ASSUME NEW i \in Present(M), i[2] = "prod"
                 PROVE  i \in Present(main)
      BY DEF NoNewProd
    <2> DEFINE s == <<"select", i>>
    <2>1. i \in Instances /\ M[s] # Nothing /\ s \in Paths
      BY RecordNames, FileNames DEF Present
    <2>2. CASE pr.tree[s] = pr.base[s]
      <3>1. M[s] = main[s]
        BY <1>3, <2>1, <2>2
      <3> QED BY <2>1, <3>1 DEF Present
    <2>3. CASE pr.tree[s] # pr.base[s]
      <3>1. M[s] = pr.tree[s] /\ main[s] \in {pr.base[s], pr.tree[s]}
        BY <1>3, <2>1, <2>3
      <3>2. i \in Present(pr.tree)
        BY <2>1, <3>1 DEF Present
      <3>3. i \in Present(pr.base)
        BY <3>2 DEF NoNewProd
      <3>4. pr.base[s] # Nothing
        BY <3>3 DEF Present
      <3> QED BY <2>1, <3>1, <3>4 DEF Present
    <2> QED BY <2>2, <2>3
  <1> QED BY <1>2, <1>9, <1>10, <1>12, <1>13 DEF Standing, Sound, M

-----------------------------------------------------------------------------
(* A delivery.                                                             *)

(* Records change only by a staging release that goes forward.             *)
Forwards(S, T) ==
  \A p \in RecordPaths : T[p] # S[p] =>
    /\ p[1] \in {"release", "select"} /\ p[2] \in Staging
    /\ S[p] # Nothing /\ T[p] # Nothing /\ S[p].run < T[p].run

LEMMA DeliveredStands ==
  ASSUME NEW T, NEW P, NEW R, Standing(T, T, P, R), PublishedSound(P),
         NEW unread, NEW moving, moving = Moving(T, P, unread), NEW torn, NEW files,
         NEW U, U = WithUsers(Torn(T, Compiled(SelectedAll(T, P, moving), moving), torn, files)),
         U # Nothing, Checked(U)
  PROVE  Standing(U, T, P, R) /\ NoNewProd(T, U) /\ KeepsPorts(T, U) /\ Forwards(T, U)
PROOF
  <1> DEFINE S == SelectedAll(T, P, moving)
             C == Compiled(S, moving)
             W == Torn(T, C, torn, files)
             x == <<"users", "platform">>
  <1>1. IsTree(U) /\ \A p \in Paths : p # x => U[p] = W[p]
    BY DEF WithUsers, Guarded, Put, IsTree
  <1>2. \A p \in Paths : W[p] = T[p] \/ W[p] = C[p]
    BY DEF Torn
  <1>3. \A p \in Paths : p[1] \notin {"unit", "policy"} => C[p] = S[p]
    BY CompiledAt
  <1>4. \A i \in Instances : i \notin moving => C[<<"unit", i>>] = S[<<"unit", i>>]
    BY CompiledAt
  <1>5. /\ \A p \in Paths : p[1] \notin {"release", "select"} => S[p] = T[p]
        /\ \A i \in Instances : \A y \in {"release", "select"} :
             S[<<y, i>>] = T[<<y, i>>] \/ (i \in moving /\ S[<<y, i>>] = Newest(P, i[1]))
    <2>1. \A p \in Paths : p[1] \notin {"release", "select"} => S[p] = T[p]
      BY DEF SelectedAll
    <2>2. ASSUME NEW i \in Instances, NEW y \in {"release", "select"}
          PROVE  S[<<y, i>>] = T[<<y, i>>] \/ (i \in moving /\ S[<<y, i>>] = Newest(P, i[1]))
      <3>1. <<y, i>> \in Paths
        BY RecordNames, FileNames
      <3> QED BY <3>1 DEF SelectedAll
    <2> QED BY <2>1, <2>2
  <1> HIDE DEF S, C, W
  <1>6. \A p \in Paths : p[1] \notin {"release", "select", "unit", "policy", "users"} => U[p] = T[p]
    BY <1>1, <1>2, <1>3, <1>5
  <1>7. ASSUME NEW i \in Instances, NEW y \in {"release", "select"}
        PROVE  U[<<y, i>>] = T[<<y, i>>] \/ (i \in moving /\ U[<<y, i>>] = Newest(P, i[1]))
    <2> DEFINE p == <<y, i>>
    <2>1. p \in Paths /\ p # x /\ p[1] \notin {"unit", "policy"}
      BY RecordNames, FileNames
    <2>2. S[p] = T[p] \/ (i \in moving /\ S[p] = Newest(P, i[1]))
      BY <1>5
    <2> HIDE DEF p
    <2>3. U[p] = T[p] \/ (i \in moving /\ U[p] = Newest(P, i[1]))
      BY <1>1, <1>2, <1>3, <2>1, <2>2
    <2> QED BY <2>3 DEF p
  <1>8. ASSUME NEW i \in Instances, i \notin moving
        PROVE  U[<<"unit", i>>] = T[<<"unit", i>>]
    <2>1. <<"unit", i>> \in Paths /\ <<"unit", i>> # x /\ <<"unit", i>>[1] \notin {"release", "select"}
      BY FileNames
    <2> QED BY <1>1, <1>2, <1>4, <1>5, <1>8, <2>1
  <1>9. RecordsSound(T) /\ SelectsSound(T, T, P, R)
    BY DEF Standing, Sound
  <1>10. ASSUME NEW i \in moving
         PROVE  /\ i \in Staging /\ i \in Present(T) /\ i \in Instances /\ i[2] # "prod"
                /\ Newest(P, i[1]) \in P /\ Newest(P, i[1]) \in ImagesOf(i[1]) /\ Newest(P, i[1]) # Nothing
                /\ T[<<"release", i>>] = T[<<"select", i>>]
                /\ Newest(P, i[1]) # T[<<"select", i>>] =>
                     /\ Accept(Newest(P, i[1]), T[<<"select", i>>])
                     /\ T[<<"select", i>>].run < Newest(P, i[1]).run
    <2>1. i \in Staging /\ i \in Present(T) /\ Takes(T, i, Newest(P, i[1]))
      BY DEF Moving
    <2>2. i \in Instances /\ i[2] = "staging" /\ i[1] \in Apps
      BY <2>1, InstanceShape DEF Staging
    <2>3. /\ Newest(P, i[1]) \in P /\ Newest(P, i[1]) \in ImagesOf(i[1])
          /\ \A o \in P : o.app = i[1] => o.run <= Newest(P, i[1]).run
      BY <2>2, NewestIs
    <2>4. Newest(P, i[1]) # Nothing
      BY <2>3, NothingIsNoContent DEF ImagesOf
    <2>5. /\ T[<<"release", i>>] = T[<<"select", i>>] /\ T[<<"select", i>>] \in Images
          /\ T[<<"select", i>>].app = i[1] /\ T[<<"select", i>>] \in P
      BY <1>9, <2>1, PresentSound DEF SelectsSound
    <2>6. ASSUME Newest(P, i[1]) # T[<<"select", i>>]
          PROVE  /\ Accept(Newest(P, i[1]), T[<<"select", i>>])
                 /\ T[<<"select", i>>].run < Newest(P, i[1]).run
      <3>1. Accept(Newest(P, i[1]), T[<<"select", i>>])
        BY <2>1, <2>5, <2>6 DEF Takes
      <3>2. T[<<"select", i>>].run <= Newest(P, i[1]).run
        BY <2>3, <2>5
      <3>3. Newest(P, i[1]).app = i[1] /\ Newest(P, i[1]) \in Images
        BY <2>3 DEF ImagesOf
      <3>4. T[<<"select", i>>].run # Newest(P, i[1]).run
        BY <2>3, <2>5, <2>6, <3>3 DEF PublishedSound
      <3>5. T[<<"select", i>>].run \in Nat /\ Newest(P, i[1]).run \in Nat
        BY <2>5, <3>3, ImagesAreImages
      <3> QED BY <3>1, <3>2, <3>4, <3>5
    <2> QED BY <2>1, <2>2, <2>3, <2>4, <2>5, <2>6
  <1>11. Present(U) = Present(T)
    <2>1. \A i \in Instances : U[<<"select", i>>] # Nothing <=> T[<<"select", i>>] # Nothing
      BY <1>7, <1>10 DEF Present
    <2> QED BY <2>1 DEF Present
  <1>12. \A i \in Instances : U[<<"port", i>>] = T[<<"port", i>>] /\ U[<<"calls", i>>] = T[<<"calls", i>>]
                              /\ U[<<"subs", i>>] = T[<<"subs", i>>]
    BY <1>6, RecordNames, FileNames
  <1>13. \A i \in Present(U) : U[<<"select", i>>] = U[<<"release", i>>]
    <2> SUFFICES ASSUME NEW i \in Present(U)
                 PROVE  U[<<"select", i>>] = U[<<"release", i>>]
      OBVIOUS
    <2>1. CompileOK(Platform(U), i) /\ i \in Instances
      BY DEF Checked, Renderable, Present
    <2>2. Platform(U)[<<"select", i>>] = U[<<"select", i>>] /\ Platform(U)[<<"release", i>>] = U[<<"release", i>>]
      BY <2>1, PlatformAt, RecordNames
    <2> QED BY <2>1, <2>2 DEF CompileOK
  <1>14. ASSUME NEW i \in Instances
         PROVE  InstanceSound(U, i)
    <2>1. InstanceSound(T, i)
      BY <1>9 DEF RecordsSound
    <2>2. CASE i \in Present(U)
      <3>1. U[<<"select", i>>] # Nothing /\ T[<<"select", i>>] # Nothing
        BY <1>11, <2>2 DEF Present
      <3>2. U[<<"select", i>>] \in ImagesOf(i[1])
        BY <1>7, <1>10, <2>1, <3>1 DEF InstanceSound
      <3>3. U[<<"calls", i>>] \in SUBSET Apps /\ U[<<"subs", i>>] \in SUBSET (Apps \X STRING)
        BY <1>12, <2>1, <3>1 DEF InstanceSound
      <3> QED BY <1>13, <2>2, <3>1, <3>2, <3>3 DEF InstanceSound
    <2>3. CASE i \notin Present(U)
      <3>1. i \notin Present(T) /\ T[<<"select", i>>] = Nothing
        BY <1>11, <2>3 DEF Present
      <3>2. i \notin moving
        BY <1>10, <3>1
      <3>3. \A y \in {"release", "select", "calls", "subs", "unit"} : U[<<y, i>>] = T[<<y, i>>]
        BY <1>7, <1>8, <1>12, <3>2
      <3> QED BY <2>1, <3>3 DEF InstanceSound
    <2> QED BY <2>2, <2>3
  <1>15. RecordsSound(U)
    <2>1. PortsTyped(U)
      BY <1>9, <1>12 DEF RecordsSound, PortsTyped
    <2>2. \A a \in Apps : U[<<"app", a>>] \in Teams \cup {Nothing}
      <3>1. \A a \in Apps : U[<<"app", a>>] = T[<<"app", a>>]
        BY <1>6, RecordNames, FileNames
      <3> QED BY <1>9, <3>1 DEF RecordsSound
    <2> QED BY <1>1, <1>14, <2>1, <2>2 DEF RecordsSound
  <1>16. Sound(U)
    BY <1>15, CheckedSound
  <1>17. SelectsSound(U, T, P, R)
    <2> SUFFICES ASSUME NEW i \in Present(U)
                 PROVE  /\ U[<<"select", i>>] \in P
                        /\ i[2] = "prod" => U[<<"select", i>>] \in R
                        /\ <<i[1], "prod">> \in Present(T) => Accept(U[<<"select", i>>], FirstImage(i[1]))
      BY DEF SelectsSound
    <2>1. i \in Present(T) /\ i \in Instances
      BY <1>11 DEF Present
    <2>2. /\ T[<<"select", i>>] \in P
          /\ i[2] = "prod" => T[<<"select", i>>] \in R
          /\ <<i[1], "prod">> \in Present(T) => Accept(T[<<"select", i>>], FirstImage(i[1]))
      BY <1>9, <2>1 DEF SelectsSound
    <2>3. CASE U[<<"select", i>>] = T[<<"select", i>>]
      BY <2>2, <2>3
    <2>4. CASE U[<<"select", i>>] # T[<<"select", i>>]
      <3>1. i \in moving /\ U[<<"select", i>>] = Newest(P, i[1])
        BY <1>7, <2>1, <2>4
      <3>2. U[<<"select", i>>] \in P /\ i[2] # "prod" /\ Accept(U[<<"select", i>>], T[<<"select", i>>])
        BY <1>10, <2>4, <3>1
      <3>3. <<i[1], "prod">> \in Present(T) => Accept(U[<<"select", i>>], FirstImage(i[1]))
        BY <2>2, <3>2 DEF Accept
      <3> QED BY <3>2, <3>3
    <2> QED BY <2>3, <2>4
  <1>18. NoNewProd(T, U) /\ KeepsPorts(T, U)
    BY <1>11, <1>12 DEF NoNewProd, KeepsPorts
  <1>19. Forwards(T, U)
    <2> SUFFICES ASSUME NEW p \in RecordPaths, U[p] # T[p]
                 PROVE  /\ p[1] \in {"release", "select"} /\ p[2] \in Staging
                        /\ T[p] # Nothing /\ U[p] # Nothing /\ T[p].run < U[p].run
      BY DEF Forwards
    <2>1. p \in Paths /\ p[1] \notin {"unit", "policy", "users"}
      BY RecordsOnly, FileNames
    <2>2. p[1] \in {"release", "select"}
      BY <1>6, <2>1
    <2>3. PICK i \in Instances, y \in {"release", "select"} : p = <<y, i>>
      BY <2>2 DEF RecordPaths
    <2>4. i \in moving /\ U[p] = Newest(P, i[1])
      BY <1>7, <2>3
    <2>5. T[p] = T[<<"select", i>>] /\ T[<<"select", i>>] # Nothing
      BY <1>10, <2>3, <2>4 DEF Present
    <2> QED BY <1>10, <2>2, <2>3, <2>4, <2>5
  <1> QED BY <1>16, <1>17, <1>18, <1>19 DEF Standing

-----------------------------------------------------------------------------
(* The invariant.                                                          *)

(* An open pull request carries a sound tree, changed from a sound one where it may. *)
PullStands(pr, M, h, P, R) ==
  /\ pr.what \in Requests /\ pr.at \in 1 .. h
  /\ Sound(pr.base) /\ Standing(pr.tree, M, P, R)
  /\ NoNewProd(pr.base, pr.tree) /\ KeepsPorts(pr.base, pr.tree)
  /\ \A p \in Paths : p \notin Owned(pr.what) => pr.tree[p] = pr.base[p]

RunTyped(run, h) ==
  /\ run = [at |-> run.at, tree |-> run.tree, left |-> run.left]
  /\ run.at \in 1 .. h /\ run.left \in 0 .. Attempts - 1 /\ IsTree(run.tree)

(* A Render run whose push main would take holds main's render.  Where main *)
(* moved on, it is rendered, or another run is started.                    *)
RenderStands(run, M, h, due) ==
  run # Idle =>
    /\ RunTyped(run, h)
    /\ run.at = h => Renderable(M) /\ run.tree = RenderAt(M, h)
    /\ run.at # h => due \/ Rendered(M)

(* A delivery whose push main would take passes its checks and only moves staging forward. *)
DeployStands(run, M, h, P, R) ==
  run # Idle =>
    /\ RunTyped(run, h)
    /\ run.at = h => /\ Checked(run.tree) /\ Standing(run.tree, M, P, R)
                     /\ NoNewProd(M, run.tree) /\ KeepsPorts(M, run.tree) /\ Forwards(M, run.tree)

(* Whenever main is not what its records render, a Render run is under way or started. *)
RenderComes(M, run, due) == Renderable(M) /\ ~Rendered(M) => due \/ run # Idle

MainStands == Standing(main, main, published, ran) /\ SelectedInStaging(main) \subseteq ran
Counted ==
  /\ head \in Nat \ {0} /\ asked \in 0 .. MaxRequests /\ faults \in 0 .. MaxFaults /\ renderDue \in BOOLEAN
  /\ PublishedSound(published) /\ ran \subseteq Images

IInv ==
  /\ MainStands /\ Counted
  /\ \A pr \in prs : PullStands(pr, main, head, published, ran)
  /\ RenderStands(render, main, head, renderDue)
  /\ DeployStands(deploy, main, head, published, ran)
  /\ RenderComes(main, render, renderDue)

-----------------------------------------------------------------------------
(* The first commit.                                                       *)

LEMMA FirstImageIs ==
  ASSUME NEW a \in Apps
  PROVE  /\ FirstImage(a) \in ImagesOf(a) /\ FirstImage(a) \in Images /\ FirstImage(a).app = a
         /\ FirstImage(a) # Nothing
PROOF
  <1>1. \E m \in Images : m.app = a /\ \A o \in Images : o.app = a => m.run <= o.run
    BY FirstTreePasses
  <1>2. FirstImage(a) \in Images /\ FirstImage(a).app = a
    BY <1>1 DEF FirstImage
  <1> QED BY <1>2, NothingIsNoContent DEF ImagesOf

(* The first tree is a render, as the assumption on it says; its records are all there or all gone. *)
LEMMA FirstTreeStands ==
  ASSUME NEW links \in {{}, Links}
  PROVE  /\ Sound(FirstTree(links)) /\ Checked(FirstTree(links))
         /\ \A i \in Present(FirstTree(links)) : i \in Initial /\ FirstTree(links)[<<"select", i>>] = FirstImage(i[1])
PROOF
  <1> DEFINE team == CHOOSE t \in Teams : TRUE
             records == [p \in RecordPaths |->
                CASE p[1] = "team" -> TRUE
                  [] p[1] = "app" -> IF \E i \in Initial : i[1] = p[2] THEN team ELSE Nothing
                  [] p[1] \in {"release", "select"} -> IF p[2] \in Initial THEN FirstImage(p[2][1]) ELSE Nothing
                  [] p[1] \in {"calls", "allows", "subs"} ->
                         IF p[2] \in Initial THEN FirstLine(p[1], p[2], links, team) ELSE Nothing]
             T == Put(Empty, records)
             F == FirstTree(links)
  <1>1. F = RenderAt(T, 0)
    BY DEF FirstTree
  <1>2. Checked(F) /\ Initial \subseteq Instances /\ links \subseteq Instances \X Apps
    BY FirstTreePasses
  <1>3. /\ IsTree(T) /\ \A p \in RecordPaths : T[p] = records[p]
        /\ \A p \in Paths \ RecordPaths : T[p] = Nothing
    <2>1. DOMAIN records = RecordPaths
      OBVIOUS
    <2> HIDE DEF records
    <2>2. IsTree(T) /\ \A p \in Paths : T[p] = IF p \in RecordPaths THEN records[p] ELSE Nothing
      BY <2>1 DEF Put, Empty, IsTree
    <2> HIDE DEF T
    <2> QED BY <2>2, FileNames
  <1>4. \A a \in Apps : T[<<"app", a>>] = IF \E i \in Initial : i[1] = a THEN team ELSE Nothing
    BY <1>3, RecordNames
  <1>5. ASSUME NEW i \in Instances
        PROVE  /\ \A x \in {"release", "select"} : T[<<x, i>>] = IF i \in Initial THEN FirstImage(i[1]) ELSE Nothing
               /\ \A x \in {"calls", "subs"} :
                    T[<<x, i>>] = IF i \in Initial THEN FirstLine(x, i, links, team) ELSE Nothing
    <2>1. \A x \in {"release", "select"} : records[<<x, i>>] = IF i \in Initial THEN FirstImage(i[1]) ELSE Nothing
      BY RecordNames
    <2>2. \A x \in {"calls", "subs"} :
            records[<<x, i>>] = IF i \in Initial THEN FirstLine(x, i, links, team) ELSE Nothing
      <3> HIDE DEF team
      <3>1. records[<<"calls", i>>] = IF i \in Initial THEN FirstLine("calls", i, links, team) ELSE Nothing
        BY RecordNames
      <3>2. records[<<"subs", i>>] = IF i \in Initial THEN FirstLine("subs", i, links, team) ELSE Nothing
        BY RecordNames
      <3> QED BY <3>1, <3>2
    <2> HIDE DEF records
    <2> QED BY <1>3, <2>1, <2>2, RecordNames
  <1> HIDE DEF records, T, F
  <1>6. \A i \in Instances : T[<<"unit", i>>] = Nothing /\ T[<<"port", i>>] = Nothing
    BY <1>3, FileNames
  <1>7. PortsTyped(T)
    BY <1>6 DEF PortsTyped
  <1>8. Agree(F, T)
    BY <1>1, <1>7, RenderSettles
  <1>9. ASSUME NEW i \in Instances
        PROVE  InstanceSound(T, i)
    <2>1. FirstImage(i[1]) \in ImagesOf(i[1]) /\ FirstImage(i[1]) # Nothing
      BY InstanceShape, FirstImageIs
    <2>2. FirstLine("calls", i, links, team) \in SUBSET Apps
      <3>1. FirstLine("calls", i, links, team) = {l[2] : l \in {link \in links : link[1] = i}}
        BY DEF FirstLine
      <3> QED BY <3>1, <1>2
    <2>3. FirstLine("subs", i, links, team) \in SUBSET (Apps \X STRING)
      BY DEF FirstLine
    <2> HIDE DEF team
    <2> QED BY <1>5, <1>6, <2>1, <2>2, <2>3 DEF InstanceSound
  <1>10. Present(T) = Initial
    <2>1. \A i \in Instances : FirstImage(i[1]) # Nothing
      BY InstanceShape, FirstImageIs
    <2> QED BY <1>2, <1>5, <2>1 DEF Present
  <1>11. Present(F) = Initial /\ TeamsOK(T)
    BY <1>2, <1>8, <1>10, SameRecords DEF Checked, Renderable
  <1>12. \A a \in Apps : T[<<"app", a>>] \in Teams \cup {Nothing}
    <2> SUFFICES ASSUME NEW a \in Apps, NEW i \in Initial, i[1] = a
                 PROVE  T[<<"app", a>>] \in Teams
      BY <1>4
    <2>1. T[<<"app", a>>] \in Registered(T)
      BY <1>10, <1>11 DEF TeamsOK
    <2> QED BY <2>1 DEF Registered
  <1>13. RecordsSound(T)
    BY <1>3, <1>7, <1>9, <1>12 DEF RecordsSound
  <1>14. RecordsSound(F)
    BY <1>1, <1>13, RenderKeeps
  <1>15. Sound(F)
    BY <1>2, <1>14, CheckedSound
  <1>16. ASSUME NEW i \in Present(F)
         PROVE  i \in Initial /\ F[<<"select", i>>] = FirstImage(i[1])
    <2>1. i \in Initial /\ i \in Instances
      BY <1>2, <1>11
    <2> QED BY <1>5, <1>8, <2>1, RecordNames DEF Agree
  <1> QED BY <1>2, <1>15, <1>16 DEF F

LEMMA InitStands ==
  ASSUME Init
  PROVE  IInv
PROOF
  <1>1. PICK links \in {{}, Links} : main = FirstTree(links)
    BY DEF Init
  <1>2. /\ head = 1 /\ prs = {} /\ asked = 0 /\ faults = 0 /\ renderDue = FALSE
        /\ render = Idle /\ deploy = Idle
        /\ published = {FirstImage(a) : a \in Apps} /\ ran = {FirstImage(i[1]) : i \in Initial}
    BY DEF Init
  <1>3. /\ Sound(main) /\ Checked(main)
        /\ \A i \in Present(main) : i \in Initial /\ main[<<"select", i>>] = FirstImage(i[1])
    BY <1>1, FirstTreeStands
  <1>4. \A i \in Present(main) : i[1] \in Apps
    BY InstanceShape DEF Present
  <1>5. SelectsSound(main, main, published, ran)
    BY <1>2, <1>3, <1>4 DEF SelectsSound, Accept
  <1>6. SelectedInStaging(main) \subseteq ran
    BY <1>2, <1>3 DEF SelectedInStaging
  <1>7. PublishedSound(published)
    <2>1. \A a \in Apps : FirstImage(a) \in Images /\ FirstImage(a).app = a /\ FirstImage(a).run \in Nat
      BY FirstImageIs, ImagesAreImages
    <2>2. published \subseteq Images
      BY <1>2, <2>1
    <2>3. \A m, o \in published : m.app = o.app => m = o
      BY <1>2, <2>1
    <2>4. ASSUME NEW a \in Apps
          PROVE  \E m \in published : m.app = a /\ \A o \in published : o.app = a => o.run <= m.run
      <3>1. FirstImage(a) \in published /\ FirstImage(a).app = a /\ FirstImage(a).run \in Nat
        BY <1>2, <2>1
      <3>2. \A o \in published : o.app = a => o = FirstImage(a)
        BY <2>3, <3>1
      <3>3. \A o \in published : o.app = a => o.run <= FirstImage(a).run
        BY <3>1, <3>2
      <3> QED BY <3>1, <3>3
    <2> QED BY <2>2, <2>3, <2>4 DEF PublishedSound
  <1>8. ran \subseteq Images
    <2>1. \A i \in Initial : i[1] \in Apps
      BY FirstTreePasses, InstanceShape
    <2> QED BY <1>2, <2>1, FirstImageIs
  <1>9. Counted
    <2>1. 0 \in 0 .. MaxRequests /\ 0 \in 0 .. MaxFaults
      BY BoundsAreNumbers
    <2>2. head \in Nat \ {0} /\ asked \in 0 .. MaxRequests /\ faults \in 0 .. MaxFaults
      BY <1>2, <2>1
    <2>3. renderDue \in BOOLEAN
      BY <1>2
    <2> QED BY <1>7, <1>8, <2>2, <2>3 DEF Counted
  <1>10. RenderComes(main, render, renderDue)
    BY <1>3 DEF RenderComes, Checked
  <1> QED BY <1>2, <1>3, <1>5, <1>6, <1>9, <1>10 DEF IInv, MainStands, Standing, RenderStands, DeployStands

-----------------------------------------------------------------------------
(* The steps.                                                              *)

(* What stands beside a main still stands beside the next, which puts nothing new into production. *)
LEMMA StandingGrows ==
  ASSUME NEW T, NEW M, NEW P, NEW R, NEW M2, NEW P2, NEW R2, Standing(T, M, P, R),
         NoNewProd(M, M2), P \subseteq P2, R \subseteq R2
  PROVE  Standing(T, M2, P2, R2)
PROOF
  <1>1. \A i : <<i[1], "prod">> \in Present(M2) => <<i[1], "prod">> \in Present(M)
    BY DEF NoNewProd
  <1> QED BY <1>1 DEF Standing, SelectsSound

LEMMA SameStands ==
  ASSUME NEW T
  PROVE  NoNewProd(T, T) /\ KeepsPorts(T, T)
PROOF
  BY DEF NoNewProd, KeepsPorts

LEMMA PullGrows ==
  ASSUME NEW pr, NEW M, NEW h \in Nat, NEW P, NEW R, NEW M2, NEW h2 \in Nat, NEW P2, NEW R2,
         PullStands(pr, M, h, P, R), NoNewProd(M, M2), h <= h2, P \subseteq P2, R \subseteq R2
  PROVE  PullStands(pr, M2, h2, P2, R2)
PROOF
  <1>1. Standing(pr.tree, M2, P2, R2)
    BY StandingGrows DEF PullStands
  <1>2. pr.at \in 1 .. h2
    BY DEF PullStands
  <1> QED BY <1>1, <1>2 DEF PullStands

(* Steps that leave main alone.                                            *)
LEMMA StillStands ==
  ASSUME IInv, UNCHANGED <<main, head, ran>>, published \subseteq published'
  PROVE  /\ MainStands' /\ KeepsPorts(main, main') /\ head' \in Nat \ {0} /\ ran' \subseteq Images
         /\ \A pr \in prs : PullStands(pr, main', head', published', ran')
         /\ DeployStands(deploy, main', head', published', ran')
         /\ \A due : /\ RenderStands(render, main, head, due) => RenderStands(render, main', head', due)
                    /\ RenderComes(main, render, due) => RenderComes(main', render, due)
PROOF
  <1>1. Standing(main, main, published, ran) /\ SelectedInStaging(main) \subseteq ran
        /\ head \in Nat \ {0} /\ ran \subseteq Images
    BY DEF IInv, MainStands, Counted
  <1>2. NoNewProd(main, main) /\ KeepsPorts(main, main)
    BY SameStands
  <1>3. Standing(main, main, published', ran)
    BY <1>1, <1>2, StandingGrows
  <1>4. MainStands'
    BY <1>1, <1>3 DEF MainStands
  <1>5. ASSUME NEW pr \in prs
        PROVE  PullStands(pr, main, head, published', ran)
    <2>1. PullStands(pr, main, head, published, ran)
      BY DEF IInv
    <2> QED BY <1>1, <1>2, <2>1, PullGrows
  <1>6. DeployStands(deploy, main, head, published', ran)
    <2>1. DeployStands(deploy, main, head, published, ran)
      BY DEF IInv
    <2>2. Standing(deploy.tree, main, published, ran) => Standing(deploy.tree, main, published', ran)
      BY <1>2, StandingGrows
    <2> QED BY <2>1, <2>2 DEF DeployStands
  <1> QED BY <1>1, <1>2, <1>4, <1>5, <1>6

(* Steps that put a tree on main.                                          *)
LEMMA CommitStands ==
  ASSUME IInv, NEW tree, Commit(tree), published' = published,
         Standing(tree, main, published, ran), NoNewProd(main, tree)
  PROVE  /\ MainStands' /\ head' \in Nat \ {0} /\ ran' \subseteq Images
         /\ \A pr \in prs : PullStands(pr, main', head', published', ran')
         /\ \A run : RunTyped(run, head) => RunTyped(run, head') /\ run.at # head'
PROOF
  <1>1. main' = tree /\ head' = head + 1 /\ ran' = ran \cup SelectedInStaging(tree)
    BY DEF Commit
  <1>2. Standing(tree, tree, published, ran')
    BY <1>1, StandingGrows
  <1>3. MainStands'
    BY <1>1, <1>2 DEF MainStands
  <1>4. head \in Nat \ {0} /\ ran \subseteq Images
    BY DEF IInv, Counted
  <1>5. SelectedInStaging(tree) \subseteq Images
    <2>1. RecordsSound(tree)
      BY DEF Standing, Sound
    <2> QED BY <2>1, PresentSound DEF SelectedInStaging
  <1>6. ASSUME NEW pr \in prs
        PROVE  PullStands(pr, main', head', published', ran')
    <2>1. PullStands(pr, main, head, published, ran)
      BY DEF IInv
    <2>2. head \in Nat /\ head' \in Nat /\ head <= head' /\ ran \subseteq ran'
      BY <1>1, <1>4
    <2> QED BY <1>1, <2>1, <2>2, PullGrows
  <1>7. ASSUME NEW run, RunTyped(run, head)
        PROVE  RunTyped(run, head') /\ run.at # head'
    BY <1>1, <1>4, <1>7 DEF RunTyped
  <1> QED BY <1>1, <1>3, <1>4, <1>5, <1>6, <1>7

(* A run that has lost its push no longer stands for its commit.           *)
LEMMA RunsMiss ==
  ASSUME IInv, NEW h \in Nat \ {0}, \A run : RunTyped(run, head) => RunTyped(run, h) /\ run.at # h,
         NEW M, NEW P, NEW R
  PROVE  /\ DeployStands(deploy, M, h, P, R)
         /\ \A due : due \/ Rendered(M) => RenderStands(render, M, h, due) /\ RenderComes(M, render, due)
PROOF
  <1>1. render # Idle => RunTyped(render, head)
    BY DEF IInv, RenderStands
  <1>2. deploy # Idle => RunTyped(deploy, head)
    BY DEF IInv, DeployStands
  <1>3. DeployStands(deploy, M, h, P, R)
    BY <1>2 DEF DeployStands
  <1>4. ASSUME NEW due, due \/ Rendered(M)
        PROVE  RenderStands(render, M, h, due) /\ RenderComes(M, render, due)
    BY <1>1, <1>4 DEF RenderStands, RenderComes
  <1> QED BY <1>3, <1>4

LEMMA CarryingIs ==
  ASSUME IInv, NEW ok, NEW tree, NEW left \in 0 .. Attempts - 1, IsTree(tree) \/ ~ok
  PROVE  \/ Carrying(ok, tree, left) = Idle /\ ~(ok /\ tree # main)
         \/ /\ Carrying(ok, tree, left) # Idle /\ ok /\ tree # main
            /\ RunTyped(Carrying(ok, tree, left), head)
            /\ Carrying(ok, tree, left).at = head /\ Carrying(ok, tree, left).tree = tree
PROOF
  <1>1. head \in Nat \ {0}
    BY DEF IInv, Counted
  <1>2. CASE ok /\ tree # main
    <2> DEFINE run == [at |-> head, tree |-> tree, left |-> left]
    <2>1. Carrying(ok, tree, left) = run
      BY <1>2 DEF Carrying
    <2>2. run # Idle
      <3>1. run.at = head /\ Idle.at = 0
        BY DEF Idle
      <3> QED BY <1>1, <3>1
    <2>3. RunTyped(run, head)
      BY <1>1, <1>2 DEF RunTyped
    <2>4. run.at = head /\ run.tree = tree
      OBVIOUS
    <2> HIDE DEF run
    <2> QED BY <1>2, <2>1, <2>2, <2>3, <2>4
  <1>3. CASE ~(ok /\ tree # main)
    BY <1>3 DEF Carrying
  <1> QED BY <1>2, <1>3

(* A Render run that read main carries its render, or found it rendered.   *)
LEMMA RendersStand ==
  ASSUME IInv, NEW left \in 0 .. Attempts - 1, Renders(left)
  PROVE  \A due : RenderStands(render', main, head, due) /\ RenderComes(main, render', due)
PROOF
  <1> DEFINE tree == RenderIfStale(main, head)
             run == Carrying(Renderable(main), tree, left)
  <1>1. render' = run
    BY DEF Renders
  <1>2. Rendered(main) => tree = main
    BY DEF RenderIfStale
  <1>3. ~Rendered(main) => tree = RenderAt(main, head)
    BY DEF RenderIfStale
  <1>4. Sound(main)
    BY DEF IInv, MainStands, Standing
  <1>5. IsTree(tree) /\ (Renderable(main) /\ ~Rendered(main) => tree # main)
    <2>1. IsTree(main) /\ IsTree(RenderAt(main, head)) /\ RecordsSound(main)
      BY <1>4, RenderAtAt DEF Sound, RecordsSound
    <2>2. Renderable(main) => Rendered(RenderAt(main, head))
      BY <2>1, RenderSound DEF Checked
    <2> QED BY <1>2, <1>3, <2>1, <2>2
  <1> HIDE DEF tree
  <1>6. \/ run = Idle /\ ~(Renderable(main) /\ tree # main)
        \/ /\ run # Idle /\ Renderable(main) /\ tree # main /\ RunTyped(run, head)
           /\ run.at = head /\ run.tree = tree
    BY <1>5, CarryingIs
  <1> HIDE DEF run
  <1>7. CASE run = Idle
    BY <1>1, <1>5, <1>6, <1>7 DEF RenderStands, RenderComes
  <1>8. CASE run # Idle
    <2>1. run.tree = RenderAt(main, head)
      BY <1>2, <1>3, <1>6, <1>8
    <2> QED BY <1>1, <1>6, <1>8, <2>1 DEF RenderStands, RenderComes
  <1> QED BY <1>7, <1>8

(* A delivery run that read main carries what DeliveredStands says of it.  *)
LEMMA DeliversStand ==
  ASSUME IInv, NEW left \in 0 .. Attempts - 1, NEW unread, NEW torn, NEW files, Delivers(unread, torn, files, left)
  PROVE  DeployStands(deploy', main, head, published, ran)
PROOF
  <1>1. PICK moving \in {Moving(main, published, unread)} :
          \E S \in {SelectedAll(main, published, moving)} :
          \E R \in {Torn(main, Compiled(S, moving), torn, files)} :
          \E U \in {WithUsers(R)} : deploy' = Carrying(U # Nothing /\ Passes(U), U, left)
    BY DEF Delivers
  <1> DEFINE U == WithUsers(Torn(main, Compiled(SelectedAll(main, published, moving), moving), torn, files))
             ok == U # Nothing /\ Passes(U)
             run == Carrying(ok, U, left)
  <1>2. moving = Moving(main, published, unread) /\ deploy' = run
    BY <1>1
  <1>3. Standing(main, main, published, ran) /\ PublishedSound(published)
    BY DEF IInv, MainStands, Counted
  <1>4. ok => /\ Checked(U) /\ Standing(U, main, published, ran)
              /\ NoNewProd(main, U) /\ KeepsPorts(main, U) /\ Forwards(main, U)
    BY <1>2, <1>3, DeliveredStands DEF Passes
  <1>5. IsTree(U) \/ ~ok
    BY <1>4 DEF Standing, Sound, RecordsSound
  <1> HIDE DEF U
  <1> HIDE DEF ok
  <1>6. \/ run = Idle /\ ~(ok /\ U # main)
        \/ run # Idle /\ ok /\ U # main /\ RunTyped(run, head) /\ run.at = head /\ run.tree = U
    BY <1>5, CarryingIs
  <1> HIDE DEF run
  <1> QED BY <1>2, <1>4, <1>6 DEF DeployStands

-----------------------------------------------------------------------------
(* The actions.                                                            *)

(* A record on main changes as a request says, or a staging release goes forward. *)
RecordsFollow ==
  \A p \in RecordPaths : main'[p] # main[p] =>
    \/ \E pr \in prs \ prs' : p \in Owned(pr.what)
    \/ prs' = prs /\ Forward(p)

(* What every step does.                                                   *)
Steps == IInv' /\ KeepsPorts(main, main') /\ RecordsFollow

LEMMA PublishStands ==
  ASSUME IInv, Publish
  PROVE  Steps
PROOF
  <1>1. PICK m \in Images \ published : /\ \A o \in published : o.app = m.app => o.run < m.run
                                       /\ published' = published \cup {m}
    BY DEF Publish
  <1>2. UNCHANGED <<main, head, prs, asked, render, deploy, renderDue, ran, faults>>
    BY DEF Publish
  <1>3. PublishedSound(published) /\ Counted
    BY DEF IInv, Counted
  <1>4. \A o \in published \cup {m} : o \in Images /\ o.run \in Nat
    BY <1>3, ImagesAreImages DEF PublishedSound
  <1>5. PublishedSound(published')
    <2>1. published' \subseteq Images
      BY <1>1, <1>4
    <2>2. ASSUME NEW x \in published', NEW y \in published', x.app = y.app, x.run = y.run
          PROVE  x = y
      <3>1. CASE x \in published /\ y \in published
        BY <1>3, <2>2, <3>1 DEF PublishedSound
      <3>2. CASE x \in published /\ y = m
        BY <1>1, <1>4, <2>2, <3>2
      <3>3. CASE x = m /\ y \in published
        BY <1>1, <1>4, <2>2, <3>3
      <3> QED BY <1>1, <3>1, <3>2, <3>3
    <2>3. ASSUME NEW a \in Apps
          PROVE  \E n \in published' : n.app = a /\ \A o \in published' : o.app = a => o.run <= n.run
      <3>1. CASE m.app = a
        BY <1>1, <1>4, <3>1
      <3>2. CASE m.app # a
        BY <1>1, <1>3, <3>2 DEF PublishedSound
      <3> QED BY <3>1, <3>2
    <2> QED BY <2>1, <2>2, <2>3 DEF PublishedSound
  <1>6. published \subseteq published'
    BY <1>1
  <1>7. Counted'
    BY <1>2, <1>3, <1>5 DEF Counted
  <1>8. /\ MainStands' /\ KeepsPorts(main, main')
        /\ \A pr \in prs : PullStands(pr, main', head', published', ran')
        /\ DeployStands(deploy, main', head', published', ran')
    BY <1>2, <1>6, StillStands
  <1>9. RenderStands(render', main', head', renderDue') /\ RenderComes(main', render', renderDue')
    BY <1>2 DEF IInv
  <1>10. IInv'
    BY <1>2, <1>7, <1>8, <1>9 DEF IInv
  <1> QED BY <1>2, <1>8, <1>10 DEF Steps, RecordsFollow

LEMMA OpenStands ==
  ASSUME IInv, Open
  PROVE  Steps
PROOF
  <1>0. PICK request \in Requests :
          \E U \in {Changed(main, published, request)} : \E tree \in {Proposed(main, U, request, head)} :
            /\ tree # Nothing
            /\ prs' = prs \cup {[what |-> request, at |-> head, base |-> main, tree |-> tree]}
    BY DEF Open
  <1> DEFINE U == Changed(main, published, request)
             tree == Proposed(main, U, request, head)
  <1>1. /\ tree # Nothing
        /\ prs' = prs \cup {[what |-> request, at |-> head, base |-> main, tree |-> tree]}
    BY <1>0
  <1>2. /\ asked < MaxRequests /\ asked' = asked + 1
        /\ UNCHANGED <<main, head, render, deploy, renderDue, published, ran, faults>>
    BY DEF Open
  <1>3. /\ Standing(main, main, published, ran) /\ SelectedInStaging(main) \subseteq ran
        /\ PublishedSound(published) /\ head \in Nat \ {0} /\ Counted
    BY DEF IInv, MainStands, Counted
  <1>4. Follows(main, main, published, ran)
    BY <1>3, SameStands DEF Follows, Standing, Sound
  <1>5. U # Nothing => Follows(main, U, published, ran)
    BY <1>3, <1>4, ChangedFollows
  <1>6. /\ Standing(tree, main, published, ran) /\ NoNewProd(main, tree) /\ KeepsPorts(main, tree)
        /\ \A p \in Paths : p \notin Owned(request) => tree[p] = main[p]
    <2> HIDE DEF U
    <2>1. tree = Proposed(main, U, request, head)
      OBVIOUS
    <2> HIDE DEF tree
    <2> QED BY <1>1, <1>3, <1>5, <2>1, ProposedStands
  <1> DEFINE new == [what |-> request, at |-> head, base |-> main, tree |-> tree]
  <1>7. PullStands(new, main, head, published, ran)
    <2>1. new.what = request /\ new.at = head /\ new.base = main /\ new.tree = tree
      OBVIOUS
    <2>2. head \in 1 .. head /\ Sound(main)
      BY <1>3 DEF Standing
    <2> HIDE DEF new
    <2> QED BY <1>6, <2>1, <2>2 DEF PullStands
  <1>8. prs' = prs \cup {new}
    BY <1>1
  <1> HIDE DEF new
  <1>9. \A pr \in prs' : PullStands(pr, main', head', published', ran')
    BY <1>2, <1>7, <1>8 DEF IInv
  <1>10. Counted'
    <2>1. asked' \in 0 .. MaxRequests
      BY <1>2, <1>3, BoundsAreNumbers DEF Counted
    <2> QED BY <1>2, <1>3, <2>1 DEF Counted
  <1>11. MainStands'
    BY <1>2, <1>3 DEF MainStands
  <1>12. /\ RenderStands(render', main', head', renderDue') /\ RenderComes(main', render', renderDue')
         /\ DeployStands(deploy', main', head', published', ran')
    BY <1>2 DEF IInv
  <1>13. IInv'
    BY <1>9, <1>10, <1>11, <1>12 DEF IInv
  <1> QED BY <1>2, <1>13, SameStands DEF Steps, RecordsFollow

LEMMA CloseStands ==
  ASSUME IInv, Close
  PROVE  Steps
PROOF
  <1>1. UNCHANGED <<main, head, asked, render, deploy, renderDue, published, ran, faults>> /\ prs' \subseteq prs
    BY DEF Close
  <1>2. \A pr \in prs' : PullStands(pr, main', head', published', ran')
    BY <1>1 DEF IInv
  <1>3. MainStands' /\ Counted'
    BY <1>1 DEF IInv, MainStands, Counted
  <1>4. /\ RenderStands(render', main', head', renderDue') /\ RenderComes(main', render', renderDue')
        /\ DeployStands(deploy', main', head', published', ran')
    BY <1>1 DEF IInv
  <1>5. IInv'
    BY <1>2, <1>3, <1>4 DEF IInv
  <1> QED BY <1>1, <1>5, SameStands DEF Steps, RecordsFollow

LEMMA MergeStands ==
  ASSUME IInv, Merge
  PROVE  Steps
PROOF
  <1>1. PICK pr \in prs : /\ ~Conflict(pr) /\ Commit(Merged(pr)) /\ prs' = prs \ {pr} /\ renderDue' = TRUE
                         /\ UNCHANGED <<asked, render, deploy, published, faults>>
    BY DEF Merge
  <1>2. /\ PullStands(pr, main, head, published, ran) /\ Standing(main, main, published, ran) /\ Counted
    BY DEF IInv, MainStands
  <1>3. /\ Standing(Merged(pr), main, published, ran) /\ NoNewProd(main, Merged(pr)) /\ KeepsPorts(main, Merged(pr))
    BY <1>1, <1>2, MergedStands DEF PullStands
  <1>4. /\ MainStands' /\ head' \in Nat \ {0} /\ ran' \subseteq Images
        /\ \A other \in prs : PullStands(other, main', head', published', ran')
        /\ \A run : RunTyped(run, head) => RunTyped(run, head') /\ run.at # head'
    BY <1>1, <1>3, CommitStands
  <1>5. DeployStands(deploy, main', head', published', ran')
    BY <1>4, RunsMiss
  <1>6. RenderStands(render, main', head', TRUE) /\ RenderComes(main', render, TRUE)
    BY <1>4, RunsMiss
  <1>7. Counted'
    BY <1>1, <1>2, <1>4 DEF Counted
  <1>8. IInv'
    BY <1>1, <1>4, <1>5, <1>6, <1>7 DEF IInv
  <1>9. main' = Merged(pr)
    BY <1>1 DEF Commit
  <1>10. RecordsFollow
    <2> SUFFICES ASSUME NEW p \in RecordPaths, main'[p] # main[p]
                 PROVE  p \in Owned(pr.what)
      BY <1>1 DEF RecordsFollow
    <2>1. p \in Paths /\ pr.tree[p] # pr.base[p]
      BY <1>1, <1>9, MergedAt, FileNames
    <2> QED BY <1>2, <2>1 DEF PullStands
  <1> QED BY <1>3, <1>8, <1>9, <1>10 DEF Steps

-----------------------------------------------------------------------------
(* The bots' actions.                                                      *)

LEMMA RenderReadStands ==
  ASSUME IInv, RenderRead
  PROVE  Steps
PROOF
  <1>1. /\ renderDue' = FALSE /\ Renders(Attempts - 1)
        /\ UNCHANGED <<main, head, prs, asked, deploy, published, ran, faults>>
    BY DEF RenderRead
  <1>2. Attempts - 1 \in 0 .. Attempts - 1
    BY BoundsAreNumbers
  <1>3. RenderStands(render', main, head, FALSE) /\ RenderComes(main, render', FALSE)
    BY <1>1, <1>2, RendersStand
  <1>4. MainStands' /\ Counted'
    BY <1>1 DEF IInv, MainStands, Counted
  <1>5. /\ \A pr \in prs' : PullStands(pr, main', head', published', ran')
        /\ DeployStands(deploy', main', head', published', ran')
    BY <1>1 DEF IInv
  <1>6. IInv'
    BY <1>1, <1>3, <1>4, <1>5 DEF IInv
  <1> QED BY <1>1, <1>6, SameStands DEF Steps, RecordsFollow

(* Steps of a delivery run that leave main alone.                          *)
LEMMA DeliveryReads ==
  ASSUME IInv, faults' \in 0 .. MaxFaults,
         UNCHANGED <<main, head, prs, asked, render, renderDue, published, ran>>,
         DeployStands(deploy', main, head, published, ran)
  PROVE  Steps
PROOF
  <1>1. MainStands' /\ Counted'
    BY DEF IInv, MainStands, Counted
  <1>2. /\ \A pr \in prs' : PullStands(pr, main', head', published', ran')
        /\ RenderStands(render', main', head', renderDue') /\ RenderComes(main', render', renderDue')
    BY DEF IInv
  <1>3. IInv'
    BY <1>1, <1>2 DEF IInv
  <1> QED BY <1>3, SameStands DEF Steps, RecordsFollow

LEMMA DeployReadStands ==
  ASSUME IInv, DeployRead \/ DeployReadPartly
  PROVE  Steps
PROOF
  <1>1. Attempts - 1 \in 0 .. Attempts - 1 /\ faults \in 0 .. MaxFaults
    BY BoundsAreNumbers DEF IInv, Counted
  <1>2. CASE DeployRead
    <2>1. DeployStands(deploy', main, head, published, ran)
      BY <1>1, <1>2, DeliversStand DEF DeployRead
    <2> QED BY <1>1, <1>2, <2>1, DeliveryReads DEF DeployRead
  <1>3. CASE DeployReadPartly
    <2>1. PICK i \in Outdated : \/ Delivers({i}, Nothing, 0, Attempts - 1)
                               \/ \E n \in 1 .. Len(Written) - 1 : Delivers({}, i, n, Attempts - 1)
      BY <1>3 DEF DeployReadPartly
    <2>2. DeployStands(deploy', main, head, published, ran)
      BY <1>1, <2>1, DeliversStand
    <2>3. faults' \in 0 .. MaxFaults
      BY <1>1, <1>3, BoundsAreNumbers DEF DeployReadPartly
    <2> QED BY <1>3, <2>2, <2>3, DeliveryReads DEF DeployReadPartly
  <1> QED BY <1>2, <1>3

LEMMA RenderPushStands ==
  ASSUME IInv, RenderPush
  PROVE  Steps
PROOF
  <1>1. render # Idle /\ UNCHANGED <<prs, asked, deploy, renderDue, published, faults>>
    BY DEF RenderPush
  <1>2. RenderStands(render, main, head, renderDue) /\ Standing(main, main, published, ran) /\ Counted
    BY DEF IInv, MainStands
  <1>3. CASE Accepted(render) /\ Commit(render.tree) /\ render' = Idle
    <2>1. Renderable(main) /\ render.tree = RenderAt(main, head)
      BY <1>1, <1>2, <1>3 DEF RenderStands, Accepted
    <2>2. RecordsSound(main) /\ SelectsSound(main, main, published, ran)
      BY <1>2 DEF Standing, Sound
    <2> DEFINE R == RenderAt(main, head)
    <2>3. Checked(R) /\ Sound(R) /\ Agree(R, main) /\ KeepsPorts(main, R)
      BY <2>1, <2>2, RenderSound
    <2>4. main' = R /\ Commit(R)
      BY <1>3, <2>1 DEF Commit
    <2> HIDE DEF R
    <2>5. Present(R) = Present(main) /\ \A i \in Present(R) : R[<<"select", i>>] = main[<<"select", i>>]
      <3>1. Present(R) = Present(main)
        BY <2>3, SameRecords
      <3>2. \A i \in Present(R) : i \in Instances
        BY DEF Present
      <3> QED BY <2>3, <3>1, <3>2, RecordNames DEF Agree
    <2>6. Standing(R, main, published, ran) /\ NoNewProd(main, R)
      BY <2>2, <2>3, <2>5 DEF Standing, SelectsSound, NoNewProd
    <2>7. /\ MainStands' /\ head' \in Nat \ {0} /\ ran' \subseteq Images
          /\ \A pr \in prs : PullStands(pr, main', head', published', ran')
          /\ \A run : RunTyped(run, head) => RunTyped(run, head') /\ run.at # head'
      BY <1>1, <2>4, <2>6, CommitStands
    <2>8. DeployStands(deploy, main', head', published', ran')
      BY <2>7, RunsMiss
    <2>9. Counted'
      BY <1>1, <1>2, <2>7 DEF Counted
    <2>10. RenderStands(render', main', head', renderDue') /\ RenderComes(main', render', renderDue')
      BY <1>3, <2>3, <2>4 DEF RenderStands, RenderComes, Checked
    <2>11. IInv'
      BY <1>1, <2>7, <2>8, <2>9, <2>10 DEF IInv
    <2>12. RecordsFollow
      BY <2>3, <2>4 DEF RecordsFollow, Agree
    <2> QED BY <2>3, <2>4, <2>11, <2>12 DEF Steps
  <1>4. CASE ~Accepted(render) /\ UNCHANGED <<main, head, ran>> /\ RenderAgain
    <2>1. RunTyped(render, head) /\ (renderDue \/ Rendered(main))
      BY <1>1, <1>2, <1>4 DEF RenderStands, Accepted
    <2>2. RenderStands(render', main, head, renderDue) /\ RenderComes(main, render', renderDue)
      <3>1. CASE render.left = 0
        <4>1. render' = Idle
          BY <1>4, <3>1 DEF RenderAgain
        <4> QED BY <2>1, <4>1 DEF RenderStands, RenderComes
      <3>2. CASE render.left # 0
        <4>1. render.left - 1 \in 0 .. Attempts - 1
          BY <2>1, <3>2, BoundsAreNumbers DEF RunTyped
        <4>2. Renders(render.left - 1)
          BY <1>4, <3>2 DEF RenderAgain
        <4> QED BY <4>1, <4>2, RendersStand
      <3> QED BY <3>1, <3>2
    <2>3. MainStands' /\ Counted'
      BY <1>1, <1>4 DEF IInv, MainStands, Counted
    <2>4. /\ \A pr \in prs' : PullStands(pr, main', head', published', ran')
          /\ DeployStands(deploy', main', head', published', ran')
      BY <1>1, <1>4 DEF IInv
    <2>5. IInv'
      BY <1>1, <1>4, <2>2, <2>3, <2>4 DEF IInv
    <2> QED BY <1>4, <2>5, SameStands DEF Steps, RecordsFollow
  <1> QED BY <1>3, <1>4 DEF RenderPush

(* A delivery's tree comes to main, and the run ends or goes on.           *)
LEMMA DeliveryCommits ==
  ASSUME IInv, deploy # Idle, Accepted(deploy), Commit(deploy.tree), faults' \in 0 .. MaxFaults,
         UNCHANGED <<prs, asked, render, renderDue, published>>,
         deploy' # Idle => RunTyped(deploy', head)
  PROVE  Steps
PROOF
  <1>1. /\ Checked(deploy.tree) /\ Standing(deploy.tree, main, published, ran)
        /\ NoNewProd(main, deploy.tree) /\ KeepsPorts(main, deploy.tree) /\ Forwards(main, deploy.tree)
    BY DEF IInv, DeployStands, Accepted
  <1>2. main' = deploy.tree /\ Counted
    BY DEF Commit, IInv
  <1>3. /\ MainStands' /\ head' \in Nat \ {0} /\ ran' \subseteq Images
        /\ \A pr \in prs : PullStands(pr, main', head', published', ran')
        /\ \A run : RunTyped(run, head) => RunTyped(run, head') /\ run.at # head'
    BY <1>1, CommitStands
  <1>4. DeployStands(deploy', main', head', published', ran')
    BY <1>3 DEF DeployStands
  <1>5. RenderStands(render, main', head', renderDue) /\ RenderComes(main', render, renderDue)
    <2>1. Rendered(main')
      BY <1>1, <1>2 DEF Checked
    <2> QED BY <1>3, <2>1, RunsMiss
  <1>6. Counted'
    BY <1>2, <1>3 DEF Counted
  <1>7. IInv'
    BY <1>3, <1>4, <1>5, <1>6 DEF IInv
  <1>8. RecordsFollow
    BY <1>1, <1>2 DEF RecordsFollow, Forwards, Forward
  <1> QED BY <1>1, <1>2, <1>7, <1>8 DEF Steps

LEMMA DeployPushStands ==
  ASSUME IInv, DeployPush
  PROVE  Steps
PROOF
  <1>1. deploy # Idle /\ UNCHANGED <<prs, asked, render, renderDue, published, faults>>
    BY DEF DeployPush
  <1>2. faults' \in 0 .. MaxFaults /\ RunTyped(deploy, head)
    BY <1>1 DEF IInv, Counted, DeployStands
  <1>3. CASE Accepted(deploy) /\ Commit(deploy.tree) /\ deploy' = Idle
    BY <1>1, <1>2, <1>3, DeliveryCommits
  <1>4. CASE ~Accepted(deploy) /\ UNCHANGED <<main, head, ran>> /\ DeployAgain
    <2>1. DeployStands(deploy', main, head, published, ran)
      <3>1. CASE deploy.left = 0
        <4>1. deploy' = Idle
          BY <1>4, <3>1 DEF DeployAgain
        <4> QED BY <4>1 DEF DeployStands
      <3>2. CASE deploy.left # 0
        <4>1. deploy.left - 1 \in 0 .. Attempts - 1
          BY <1>2, <3>2, BoundsAreNumbers DEF RunTyped
        <4>2. Delivers({}, Nothing, 0, deploy.left - 1)
          BY <1>4, <3>2 DEF DeployAgain
        <4> QED BY <4>1, <4>2, DeliversStand
      <3> QED BY <3>1, <3>2
    <2> QED BY <1>1, <1>2, <1>4, <2>1, DeliveryReads
  <1> QED BY <1>3, <1>4 DEF DeployPush

LEMMA PushUntoldStands ==
  ASSUME IInv, PushUntold
  PROVE  Steps
PROOF
  <1>1. /\ faults < MaxFaults /\ faults' = faults + 1 /\ deploy # Idle /\ Accepted(deploy) /\ Commit(deploy.tree)
        /\ deploy' = (IF deploy.left = 0 THEN Idle ELSE [deploy EXCEPT !.left = deploy.left - 1])
        /\ UNCHANGED <<prs, asked, render, renderDue, published>>
    BY DEF PushUntold
  <1>2. RunTyped(deploy, head) /\ faults \in 0 .. MaxFaults
    BY <1>1 DEF IInv, DeployStands, Counted
  <1>3. faults' \in 0 .. MaxFaults
    BY <1>1, <1>2, BoundsAreNumbers
  <1>4. deploy' # Idle => RunTyped(deploy', head)
    <2> SUFFICES ASSUME deploy.left # 0
                 PROVE  RunTyped(deploy', head)
      BY <1>1
    <2>1. deploy' = [at |-> deploy.at, tree |-> deploy.tree, left |-> deploy.left - 1]
      BY <1>1, <1>2 DEF RunTyped
    <2>2. deploy.left - 1 \in 0 .. Attempts - 1
      BY <1>2, BoundsAreNumbers DEF RunTyped
    <2> QED BY <1>2, <2>1, <2>2 DEF RunTyped
  <1> QED BY <1>1, <1>3, <1>4, DeliveryCommits

LEMMA NextStands ==
  ASSUME IInv, [Next]_vars
  PROVE  Steps
PROOF
  <1>1. CASE UNCHANGED vars
    <2>1. UNCHANGED <<main, head, prs, asked, render, deploy, renderDue, published, ran, faults>>
      BY <1>1 DEF vars
    <2>2. MainStands' /\ Counted'
      BY <2>1 DEF IInv, MainStands, Counted
    <2>3. IInv'
      BY <2>1, <2>2 DEF IInv
    <2> QED BY <2>1, <2>3, SameStands DEF Steps, RecordsFollow
  <1>2. CASE Publish
    BY <1>2, PublishStands
  <1>3. CASE Open
    BY <1>3, OpenStands
  <1>4. CASE Merge
    BY <1>4, MergeStands
  <1>5. CASE Close
    BY <1>5, CloseStands
  <1>6. CASE RenderRead
    BY <1>6, RenderReadStands
  <1>7. CASE RenderPush
    BY <1>7, RenderPushStands
  <1>8. CASE DeployRead \/ DeployReadPartly
    BY <1>8, DeployReadStands
  <1>9. CASE DeployPush
    BY <1>9, DeployPushStands
  <1>10. CASE PushUntold
    BY <1>10, PushUntoldStands
  <1> QED BY <1>1, <1>2, <1>3, <1>4, <1>5, <1>6, <1>7, <1>8, <1>9, <1>10 DEF Next

LEMMA Invariance == Spec => []IInv
PROOF
  <1>1. Init => IInv
    BY InitStands
  <1>2. IInv /\ [Next]_vars => IInv'
    BY NextStands DEF Steps
  <1> QED BY <1>1, <1>2, PTL DEF Spec

-----------------------------------------------------------------------------
(* What the invariant says of every behaviour.                             *)

(* Main's tree, the open pull requests and the bots' runs have their types, whatever is merged, removed  *)
(* and created again (every file a command, a merge or a bot writes).                                    *)
THEOREM Typed == Spec => []TypeOK
PROOF
  <1>1. ASSUME IInv
        PROVE  TypeOK
    <2>1. Sound(main) /\ Counted
      BY <1>1 DEF IInv, MainStands, Standing
    <2>2. DOMAIN main = Paths
      BY <2>1 DEF Sound, RecordsSound, IsTree
    <2>3. \A i \in Instances : {main[<<"release", i>>], main[<<"select", i>>]} \subseteq Images \cup {Nothing}
      BY <2>1, SoundParts DEF ImagesOf
    <2>4. \A pr \in prs : pr.what \in Requests /\ pr.at <= head /\ DOMAIN pr.tree = Paths
      <3> SUFFICES ASSUME NEW pr \in prs
                   PROVE  pr.what \in Requests /\ pr.at <= head /\ DOMAIN pr.tree = Paths
        OBVIOUS
      <3>1. PullStands(pr, main, head, published, ran)
        BY <1>1 DEF IInv
      <3>2. IsTree(pr.tree)
        BY <3>1 DEF PullStands, Standing, Sound, RecordsSound
      <3>3. pr.at <= head
        BY <2>1, <3>1 DEF PullStands, Counted
      <3> QED BY <3>1, <3>2, <3>3 DEF PullStands, IsTree
    <2>5. \A run \in {render, deploy} : run # Idle => RunTyped(run, head)
      BY <1>1 DEF IInv, RenderStands, DeployStands
    <2>6. \A run \in {render, deploy} : run # Idle =>
            run.at \in 1 .. head /\ run.left \in 0 .. Attempts - 1 /\ DOMAIN run.tree = Paths
      BY <2>5 DEF RunTyped, IsTree
    <2> QED BY <2>1, <2>2, <2>3, <2>4, <2>6 DEF TypeOK, Counted, PublishedSound
  <1> QED BY <1>1, Invariance, PTL

(* At every commit what main's instances select agrees with their records, with each other and with      *)
(* staging, whatever was merged, removed, created again, and however a delivery's writes failed (the      *)
(* checks of a bot's tree, AcceptDeclaration, Promote, and git's conflicts).                             *)
THEOREM Agreement == Spec => []ReleasesAgree
PROOF
  <1>1. ASSUME IInv
        PROVE  ReleasesAgree
    <2>1. RecordsSound(main) /\ SelectsSound(main, main, published, ran)
      BY <1>1 DEF IInv, MainStands, Standing, Sound
    <2>2. SelectedIsRecorded
      BY <2>1, PresentSound DEF SelectedIsRecorded
    <2>3. OneKindPerApp
      <3> SUFFICES ASSUME NEW i \in Present(main), NEW j \in Present(main), i[1] = j[1]
                   PROVE  Accept(main[<<"select", i>>], main[<<"select", j>>])
        BY DEF OneKindPerApp, Accept
      <3>1. /\ i[2] \in {"prod", "staging"} /\ i = <<i[1], i[2]>>
            /\ j[2] \in {"prod", "staging"} /\ j = <<j[1], j[2]>>
        BY InstanceShape DEF Present
      <3>2. CASE i = j
        BY <3>2 DEF Accept
      <3>3. CASE i # j
        <4>1. <<i[1], "prod">> \in Present(main)
          BY <3>1, <3>3
        <4>2. Accept(main[<<"select", i>>], FirstImage(i[1])) /\ Accept(main[<<"select", j>>], FirstImage(i[1]))
          BY <2>1, <4>1 DEF SelectsSound
        <4> QED BY <4>2 DEF Accept
      <3> QED BY <3>2, <3>3
    <2>4. PromotedRanInStaging
      BY <2>1 DEF SelectsSound, PromotedRanInStaging
    <2> QED BY <2>2, <2>3, <2>4 DEF ReleasesAgree
  <1> QED BY <1>1, Invariance, PTL

(* The proxy's list is always the records' allocation; and unless a Render run is started or under way,   *)
(* or the records cannot be rendered, no call passes that the records do not connect, and the broker's    *)
(* users are the records' (render.go, and the Render workflow every push of a person's starts).           *)
THEOREM NetworkFollows == Spec => []NetworkFollowsRecords
PROOF
  <1>1. ASSUME IInv
        PROVE  NetworkFollowsRecords
    <2>1. Sound(main) /\ RecordsSound(main)
      BY <1>1 DEF IInv, MainStands, Standing, Sound
    <2>2. ProxyFollowsRecords
      BY <2>1 DEF Sound, ProxyStates, ProxyFollowsRecords
    <2> SUFFICES ASSUME Renderable(main), ~renderDue, render = Idle
                 PROVE  CallsAreConnected /\ UsersFollowRecords
      BY <2>2 DEF NetworkFollowsRecords
    <2>3. Rendered(main)
      BY <1>1 DEF IInv, RenderComes
    <2>4. UsersFollowRecords
      BY <2>3, RenderedSays DEF UsersFollowRecords
    <2>5. ASSUME NEW i \in Instances, NEW j \in Instances, i[2] = j[2], CallPasses(main, i, j)
          PROVE  i \in Present(main) /\ j[1] \in main[<<"calls", i>>] /\ Reason(main, i, j[1]) = "connected"
      <3>1. i \in Present(main)
        <4>1. InstanceSound(main, i)
          BY <2>1 DEF RecordsSound
        <4>2. main[<<"unit", i>>] # Nothing
          BY <2>5 DEF CallPasses
        <4> QED BY <4>1, <4>2 DEF InstanceSound, Present
      <3>2. main[<<"unit", i>>] = Unit(Platform(main), i)
        BY <2>3, <3>1, RenderedSays
      <3>3. PICK r \in Reaches(Platform(main), i) : r = <<j[1], main[<<"policy", j>>].port>>
        BY <2>5, <3>2 DEF CallPasses, Unit
      <3>4. r[1] \in main[<<"calls", i>>] /\ Reason(main, i, r[1]) = "connected"
        BY <3>1, ReachesConnected
      <3>5. r[1] = j[1]
        BY <3>3
      <3> QED BY <3>1, <3>4, <3>5
    <2>6. CallsAreConnected
      BY <2>5 DEF CallsAreConnected
    <2> QED BY <2>4, <2>6
  <1> QED BY <1>1, Invariance, PTL

(* A proxy port names one caller for ever, over merges, removals and other apps' creations (Allocate).    *)
THEOREM PortsStay == Spec => PortsNameOneCaller
PROOF
  <1>1. ASSUME IInv, [Next]_vars
        PROVE  /\ DistinctPorts([i \in Instances |-> main'[<<"port", i>>]])
               /\ \A i \in Instances : main[<<"port", i>>] # Nothing =>
                    main'[<<"port", i>>] # Nothing /\ main'[<<"port", i>>].port = main[<<"port", i>>].port
    <2>1. IInv' /\ KeepsPorts(main, main')
      BY <1>1, NextStands DEF Steps
    <2>2. PortsApart(main')
      BY <2>1 DEF IInv, MainStands, Standing, Sound
    <2> QED BY <2>1, <2>2 DEF PortsApart, KeepsPorts
  <1> QED BY <1>1, Invariance, PTL DEF PortsNameOneCaller, Spec

(* A record on main changes only as a merged request says, or by a delivery that moves a staging release *)
(* forward: no bot undoes what a person merged while it ran (push_main pushes unforced).                 *)
THEOREM RecordsAreAsked == Spec => RecordsChangeByRequest
PROOF
  <1>1. ASSUME IInv, [Next]_vars
        PROVE  \A p \in RecordPaths : main'[p] # main[p] =>
                 \/ \E pr \in prs \ prs' : p \in Owned(pr.what)
                 \/ prs' = prs /\ Forward(p)
    BY <1>1, NextStands DEF Steps, RecordsFollow
  <1> QED BY <1>1, Invariance, PTL DEF RecordsChangeByRequest, Spec

=============================================================================
