---------------------------- MODULE NotifyProofs ----------------------------
(***************************************************************************)
(* The notify service, for every number of handlers, keys, channels,       *)
(* faults and seconds: what the outbox's operations keep and change, the   *)
(* service's safety, and that it implements the promise of CopyPromise.    *)
(***************************************************************************)
EXTENDS MCNotify, SequenceTheorems, FiniteSetTheorems, TLAPS

(* The outbox's operations: which copies wait, that each waits once, and   *)
(* how large the document is.                                              *)

(* The copies that wait are copies, finitely many of them.                 *)
LEMMA WaitingCopies ==
  ASSUME NEW state \in State
  PROVE  /\ Waiting(state) \subseteq Copies
         /\ Len(state.pending) \in Nat
         /\ DOMAIN state.pending = 1..Len(state.pending)
         /\ (state.pending = <<>> <=> Len(state.pending) = 0)
         /\ (state.pending = <<>> <=> Waiting(state) = {})
  <1>1. state.pending \in Seq(Entries)
    BY DEF State
  <1>2. /\ Len(state.pending) \in Nat
        /\ DOMAIN state.pending = 1..Len(state.pending)
        /\ \A i \in DOMAIN state.pending : state.pending[i] \in Entries
        /\ state.pending = <<>> <=> Len(state.pending) = 0
    BY <1>1
  <1>3. Waiting(state) \subseteq Copies
    BY <1>2 DEF Waiting, Entries
  <1>4. state.pending = <<>> <=> Waiting(state) = {}
    <2>1. ASSUME Len(state.pending) # 0 PROVE Waiting(state) # {}
      <3>1. 1 \in DOMAIN state.pending
        BY <1>2, <2>1
      <3>2. QED
        BY <3>1 DEF Waiting
    <2>2. ASSUME Len(state.pending) = 0 PROVE Waiting(state) = {}
      <3>1. DOMAIN state.pending = {}
        BY <1>2, <2>2
      <3>2. QED
        BY <3>1 DEF Waiting
    <2>3. QED
      BY <1>2, <2>1, <2>2
  <1>5. QED
    BY <1>2, <1>3, <1>4

(* The empty outbox is an outbox in which nothing waits.                   *)
LEMMA EmptyOutboxIsEmpty == EmptyOutbox \in State /\ EmptyOutbox.pending = <<>>
  BY DEF EmptyOutbox, State, NotSeen

(* Expire leaves the queue as it is and only forgets keys.                 *)
LEMMA ExpireForgets ==
  ASSUME NEW state \in State, NEW now \in Nat
  PROVE  /\ Expire(state, now) \in State
         /\ Expire(state, now).pending = state.pending
         /\ \A c \in Copies : Expire(state, now).seen[c] \in {NotSeen, state.seen[c]}
  BY DEF Expire, State, NotSeen

(* Settle takes the head off the queue, and nothing else.                  *)
LEMMA SettleTakesHead ==
  ASSUME NEW state \in State, state.pending # <<>>, Once(state.pending), NEW now \in Nat
  PROVE  /\ Head(state.pending) \in Entries
         /\ Head(state.pending).copy \in Waiting(state)
         /\ Settle(state, now) \in State
         /\ Len(Settle(state, now).pending) = Len(state.pending) - 1
         /\ Once(Settle(state, now).pending)
         /\ Waiting(Settle(state, now)) = Waiting(state) \ {Head(state.pending).copy}
         /\ \A i \in DOMAIN Settle(state, now).pending :
              Settle(state, now).pending[i] = state.pending[i+1]
  <1> DEFINE p == state.pending
             t == Tail(p)
  <1>1. p \in Seq(Entries) /\ p # <<>>
    BY DEF State
  <1>2. /\ Head(p) \in Entries /\ Head(p) = p[1] /\ Len(p) \in Nat /\ Len(p) >= 1
        /\ t \in Seq(Entries) /\ Len(t) = Len(p) - 1
        /\ DOMAIN p = 1..Len(p) /\ DOMAIN t = 1..(Len(p) - 1)
        /\ \A i \in 1..Len(t) : t[i] = p[i+1]
    BY <1>1
  <1>3. Settle(state, now) \in State /\ Settle(state, now).pending = t
    BY <1>1, <1>2, OutboxAssumption DEF Settle, State, Entries
  <1>4. Once(t)
    <2>1. SUFFICES ASSUME NEW i \in DOMAIN t, NEW j \in DOMAIN t, t[i].copy = t[j].copy
                   PROVE  i = j
      BY DEF Once
    <2>2. i+1 \in DOMAIN p /\ j+1 \in DOMAIN p /\ t[i] = p[i+1] /\ t[j] = p[j+1]
      BY <1>2
    <2>3. i+1 = j+1
      BY <2>1, <2>2 DEF Once
    <2>4. QED
      BY <1>2, <2>3
  <1>5. {t[i].copy : i \in DOMAIN t} = {p[i].copy : i \in DOMAIN p} \ {p[1].copy}
    <2>1. ASSUME NEW i \in DOMAIN t
          PROVE  t[i].copy \in {p[j].copy : j \in DOMAIN p} \ {p[1].copy}
      <3>1. i+1 \in DOMAIN p /\ 1 \in DOMAIN p /\ i+1 # 1 /\ t[i] = p[i+1]
        BY <1>2
      <3>2. QED
        BY <3>1 DEF Once
    <2>2. ASSUME NEW i \in DOMAIN p, p[i].copy # p[1].copy
          PROVE  p[i].copy \in {t[j].copy : j \in DOMAIN t}
      <3>1. i-1 \in DOMAIN t /\ t[i-1] = p[i]
        BY <1>2, <2>2
      <3>2. QED
        BY <3>1
    <2>3. QED
      BY <2>1, <2>2
  <1>6. Head(p).copy \in Waiting(state)
    BY <1>2 DEF Waiting
  <1>7. QED
    BY <1>2, <1>3, <1>4, <1>5, <1>6, ZenonT(60) DEF Waiting

(* Requeue loses no copy and queues none twice.                            *)
LEMMA RequeueKeepsAll ==
  ASSUME NEW state \in State, state.pending # <<>>, Once(state.pending)
  PROVE  /\ Requeue(state) \in State
         /\ Requeue(state).seen = state.seen
         /\ Len(Requeue(state).pending) = Len(state.pending)
         /\ Once(Requeue(state).pending)
         /\ Waiting(Requeue(state)) = Waiting(state)
         /\ \A i \in 1..(Len(state.pending) - 1) :
              Requeue(state).pending[i] = state.pending[i+1]
         /\ Requeue(state).pending[Len(state.pending)] = Head(state.pending)
  <1> DEFINE p == state.pending
             q == Append(Tail(p), Head(p))
  <1>1. p \in Seq(Entries) /\ p # <<>>
    BY DEF State
  <1>2. /\ q \in Seq(Entries) /\ Len(q) = Len(p) /\ Len(p) \in Nat /\ Len(p) >= 1
        /\ DOMAIN p = 1..Len(p) /\ DOMAIN q = 1..Len(p)
        /\ \A i \in 1..(Len(p) - 1) : q[i] = p[i+1]
        /\ q[Len(p)] = p[1] /\ Head(p) = p[1]
    BY <1>1
  <1>3. Requeue(state) \in State /\ Requeue(state).pending = q /\ Requeue(state).seen = state.seen
    BY <1>2 DEF Requeue, State
  <1>4. Once(q)
    <2> DEFINE old(i) == IF i = Len(p) THEN 1 ELSE i+1
    <2>1. \A i \in DOMAIN q : old(i) \in DOMAIN p /\ q[i] = p[old(i)]
      BY <1>2
    <2>2. \A i, j \in DOMAIN q : old(i) = old(j) => i = j
      BY <1>2
    <2> HIDE DEF old
    <2>3. QED
      BY <2>1, <2>2 DEF Once
  <1>5. {q[i].copy : i \in DOMAIN q} = {p[i].copy : i \in DOMAIN p}
    <2>1. ASSUME NEW i \in DOMAIN q
          PROVE  q[i].copy \in {p[j].copy : j \in DOMAIN p}
      <3>1. CASE i = Len(p)
        <4>1. q[i] = p[1] /\ 1 \in DOMAIN p
          BY <1>2, <3>1
        <4>2. QED
          BY <4>1
      <3>2. CASE i # Len(p)
        <4>1. q[i] = p[i+1] /\ i+1 \in DOMAIN p
          BY <1>2, <3>2
        <4>2. QED
          BY <4>1
      <3>3. QED
        BY <3>1, <3>2
    <2>2. ASSUME NEW i \in DOMAIN p
          PROVE  p[i].copy \in {q[j].copy : j \in DOMAIN q}
      <3>1. CASE i = 1
        <4>1. q[Len(p)] = p[i] /\ Len(p) \in DOMAIN q
          BY <1>2, <3>1
        <4>2. QED
          BY <4>1
      <3>2. CASE i # 1
        <4>1. i-1 \in 1..(Len(p) - 1) /\ q[i-1] = p[i] /\ i-1 \in DOMAIN q
          BY <1>2, <3>2
        <4>2. QED
          BY <4>1
      <3>3. QED
        BY <3>1, <3>2
    <2>3. QED
      BY <2>1, <2>2
  <1>6. QED
    BY <1>2, <1>3, <1>4, <1>5 DEF Waiting

(* Accept adds one copy for each channel it queues, and no other.          *)
LEMMA AcceptAdds ==
  ASSUME NEW state \in State, Once(state.pending),
         NEW request \in RequestKeys, NEW channels \in SUBSET Channels, NEW now \in Nat,
         NEW order \in Orders(Unqueued(state, request, channels))
  PROVE  LET queued == Unqueued(state, request, channels)
             accepted == Accept(state, request, order, now)
         IN  /\ Cardinality(queued) \in Nat
             /\ accepted \in State
             /\ accepted.seen = state.seen
             /\ Len(accepted.pending) = Len(state.pending) + Cardinality(queued)
             /\ Once(accepted.pending)
             /\ Waiting(accepted) = Waiting(state) \cup {<<request, c>> : c \in queued}
             /\ \A i \in DOMAIN state.pending : accepted.pending[i] = state.pending[i]
             /\ \A i \in DOMAIN accepted.pending \ DOMAIN state.pending :
                  accepted.pending[i].queued = now
  <1> DEFINE queued == Unqueued(state, request, channels)
             n == Cardinality(queued)
             p == state.pending
             added == [i \in DOMAIN order |-> [copy |-> <<request, order[i]>>, queued |-> now]]
             all == p \o added
  <1>1. queued \subseteq Channels /\ IsFiniteSet(queued) /\ n \in Nat
    <2>1. queued \subseteq Channels
      BY DEF Unqueued
    <2>2. QED
      BY <2>1, OutboxAssumption, FS_Subset, FS_CardinalityType
  <1>2. /\ order \in [1..n -> queued]
        /\ \A i, j \in 1..n : order[i] = order[j] => i = j
        /\ \A c \in queued : \E i \in 1..n : order[i] = c
    BY DEF Orders, Bijection, Injection, Surjection, IsInjective
  <1>3. /\ added \in Seq(Entries) /\ Len(added) = n /\ DOMAIN added = 1..n
        /\ \A i \in 1..n : added[i].copy = <<request, order[i]>> /\ added[i].queued = now
    <2>1. \A i \in 1..n : [copy |-> <<request, order[i]>>, queued |-> now] \in Entries
      BY <1>1, <1>2 DEF Entries, Copies
    <2>2. DOMAIN order = 1..n
      BY <1>2
    <2>3. added \in [1..n -> Entries]
      BY <2>1, <2>2
    <2>4. QED
      BY <1>1, <2>1, <2>2, <2>3
  <1>4. p \in Seq(Entries) /\ Len(p) \in Nat /\ DOMAIN p = 1..Len(p)
    BY DEF State
  <1>5. /\ all \in Seq(Entries) /\ Len(all) = Len(p) + n /\ DOMAIN all = 1..(Len(p) + n)
        /\ \A i \in 1..Len(p) : all[i] = p[i]
        /\ \A i \in 1..n : all[Len(p) + i] = added[i]
    BY <1>1, <1>3, <1>4, ConcatProperties
  <1>6. /\ Accept(state, request, order, now) \in State
        /\ Accept(state, request, order, now).pending = all
        /\ Accept(state, request, order, now).seen = state.seen
    BY <1>5 DEF Accept, State
  <1>7. \A i \in 1..n : added[i].copy \notin {p[j].copy : j \in DOMAIN p}
    BY <1>2, <1>3 DEF Unqueued, Waiting
  <1>8. \A i \in DOMAIN all : \/ i \in 1..Len(p)
                              \/ i - Len(p) \in 1..n /\ all[i] = added[i - Len(p)]
    BY <1>1, <1>4, <1>5
  <1>9. Once(all)
    <2>1. SUFFICES ASSUME NEW i \in DOMAIN all, NEW j \in DOMAIN all, all[i].copy = all[j].copy
                   PROVE  i = j
      BY DEF Once
    <2>2. CASE i \in 1..Len(p) /\ j \in 1..Len(p)
      BY <1>4, <1>5, <2>1, <2>2 DEF Once
    <2>3. CASE i \notin 1..Len(p) /\ j \in 1..Len(p)
      <3>1. added[i - Len(p)].copy = p[j].copy /\ i - Len(p) \in 1..n /\ j \in DOMAIN p
        BY <1>4, <1>5, <1>8, <2>1, <2>3
      <3>2. QED
        BY <1>7, <3>1
    <2>4. CASE i \in 1..Len(p) /\ j \notin 1..Len(p)
      <3>1. added[j - Len(p)].copy = p[i].copy /\ j - Len(p) \in 1..n /\ i \in DOMAIN p
        BY <1>4, <1>5, <1>8, <2>1, <2>4
      <3>2. QED
        BY <1>7, <3>1
    <2>5. CASE i \notin 1..Len(p) /\ j \notin 1..Len(p)
      <3>1. i - Len(p) \in 1..n /\ j - Len(p) \in 1..n
            /\ order[i - Len(p)] = order[j - Len(p)]
        BY <1>3, <1>8, <2>1, <2>5, SMTT(30)
      <3>2. QED
        BY <1>2, <1>4, <1>5, <3>1
    <2>6. QED
      BY <2>2, <2>3, <2>4, <2>5
  <1>10. {all[i].copy : i \in DOMAIN all} =
           {p[i].copy : i \in DOMAIN p} \cup {<<request, c>> : c \in queued}
    <2>1. ASSUME NEW i \in DOMAIN all
          PROVE  all[i].copy \in {p[j].copy : j \in DOMAIN p} \cup {<<request, c>> : c \in queued}
      BY <1>2, <1>3, <1>4, <1>5, <1>8
    <2>2. ASSUME NEW i \in DOMAIN p
          PROVE  p[i].copy \in {all[j].copy : j \in DOMAIN all}
      <3>1. i \in DOMAIN all /\ all[i] = p[i]
        BY <1>1, <1>4, <1>5
      <3>2. QED
        BY <3>1
    <2>3. ASSUME NEW c \in queued
          PROVE  <<request, c>> \in {all[j].copy : j \in DOMAIN all}
      <3>1. PICK i \in 1..n : order[i] = c
        BY <1>2
      <3>2. Len(p) + i \in DOMAIN all /\ all[Len(p) + i].copy = <<request, c>>
        BY <1>1, <1>3, <1>4, <1>5, <3>1
      <3>3. QED
        BY <3>2
    <2>4. QED
      BY <2>1, <2>2, <2>3
  <1>11. \A i \in DOMAIN all \ DOMAIN p : all[i].queued = now
    BY <1>3, <1>4, <1>8
  <1>12. Waiting(Accept(state, request, order, now)) =
           Waiting(state) \cup {<<request, c>> : c \in queued}
    BY <1>6, <1>10 DEF Waiting
  <1> HIDE DEF added, all
  <1>13. \A i \in DOMAIN p : all[i] = p[i]
    BY <1>4, <1>5
  <1>14. QED
    BY <1>1, <1>5, <1>6, <1>9, <1>11, <1>12, <1>13

-----------------------------------------------------------------------------
(* Every operation keeps the queue distinct.                               *)

LEMMA ExpireDistinct ==
  ASSUME NEW state \in State, Distinct(state), NEW now \in Nat
  PROVE  Distinct(Expire(state, now)) /\ Waiting(Expire(state, now)) = Waiting(state)
  <1>1. Waiting(Expire(state, now)) = Waiting(state)
    BY ExpireForgets DEF Waiting
  <1>2. Remembered(Expire(state, now)) \subseteq Remembered(state)
    BY ExpireForgets DEF Remembered
  <1>3. QED
    BY <1>1, <1>2, ExpireForgets DEF Distinct

LEMMA SettleDistinct ==
  ASSUME NEW state \in State, state.pending # <<>>, Distinct(state), NEW now \in Nat
  PROVE  /\ Distinct(Settle(state, now))
         /\ Remembered(Settle(state, now)) \subseteq Remembered(state) \cup {Head(state.pending).copy}
         /\ \A c \in Copies \ {Head(state.pending).copy} :
              Settle(state, now).seen[c] = state.seen[c]
         /\ Settle(state, now).seen[Head(state.pending).copy] = now + History
  <1>1. /\ Head(state.pending).copy \in Copies
        /\ Waiting(Settle(state, now)) = Waiting(state) \ {Head(state.pending).copy}
        /\ Once(Settle(state, now).pending)
    BY SettleTakesHead DEF Distinct, Entries
  <1>2. /\ \A c \in Copies \ {Head(state.pending).copy} :
             Settle(state, now).seen[c] = state.seen[c]
        /\ Settle(state, now).seen[Head(state.pending).copy] = now + History
    BY <1>1 DEF Settle, State
  <1>3. Remembered(Settle(state, now)) \subseteq Remembered(state) \cup {Head(state.pending).copy}
    BY <1>2 DEF Remembered
  <1>4. QED
    BY <1>1, <1>2, <1>3 DEF Distinct

LEMMA RequeueDistinct ==
  ASSUME NEW state \in State, state.pending # <<>>, Distinct(state)
  PROVE  Distinct(Requeue(state)) /\ Waiting(Requeue(state)) = Waiting(state)
  <1>1. Remembered(Requeue(state)) = Remembered(state)
    BY RequeueKeepsAll DEF Remembered, Distinct
  <1>2. QED
    BY <1>1, RequeueKeepsAll DEF Distinct

LEMMA AcceptDistinct ==
  ASSUME NEW state \in State, Distinct(state),
         NEW request \in RequestKeys, NEW channels \in SUBSET Channels, NEW now \in Nat,
         NEW order \in Orders(Unqueued(state, request, channels))
  PROVE  Distinct(Accept(state, request, order, now))
  <1> DEFINE queued == Unqueued(state, request, channels)
             accepted == Accept(state, request, order, now)
  <1>1. /\ accepted.seen = state.seen /\ Once(accepted.pending)
        /\ Waiting(accepted) = Waiting(state) \cup {<<request, c>> : c \in queued}
    BY AcceptAdds DEF Distinct
  <1>2. Remembered(accepted) = Remembered(state)
    BY <1>1 DEF Remembered
  <1>3. {<<request, c>> : c \in queued} \cap Remembered(state) = {}
    BY DEF Unqueued
  <1>4. QED
    BY <1>1, <1>2, <1>3 DEF Distinct

-----------------------------------------------------------------------------
(* A document never grows when a copy is settled or requeued, so a pass    *)
(* that began within MaxOutboxBytes stays within it.                       *)

LEMMA RememberedFinite ==
  ASSUME NEW state \in State
  PROVE  IsFiniteSet(Remembered(state)) /\ Cardinality(Remembered(state)) \in Nat
  <1>1. IsFiniteSet(Copies)
    BY OutboxAssumption, FS_Product DEF Copies
  <1>2. Remembered(state) \subseteq Copies
    BY DEF Remembered
  <1>3. QED
    BY <1>1, <1>2, FS_Subset, FS_CardinalityType

LEMMA SettleFits ==
  ASSUME NEW state \in State, state.pending # <<>>, Distinct(state), NEW now \in Nat,
         Fits(state)
  PROVE  Fits(Settle(state, now))
  <1> DEFINE settled == Settle(state, now)
             head == Head(state.pending).copy
             n == Cardinality(Remembered(state))
             m == Cardinality(Remembered(settled))
             len == Len(state.pending)
  <1>1. settled \in State /\ Len(settled.pending) = len - 1 /\ len \in Nat
    BY SettleTakesHead, WaitingCopies DEF Distinct
  <1>2. n \in Nat /\ m \in Nat /\ m <= n + 1
    <2>1. /\ IsFiniteSet(Remembered(state)) /\ n \in Nat /\ m \in Nat
      BY <1>1, RememberedFinite
    <2>2. /\ IsFiniteSet(Remembered(state) \cup {head})
          /\ Cardinality(Remembered(state) \cup {head}) <= n + 1
      <3>1. /\ IsFiniteSet(Remembered(state) \cup {head})
            /\ Cardinality(Remembered(state) \cup {head}) =
                 IF head \in Remembered(state) THEN n ELSE n + 1
        BY <2>1, FS_AddElement
      <3>2. n <= n + 1
        BY <2>1
      <3> HIDE DEF n, head
      <3>3. QED
        BY <3>1, <3>2, <2>1
    <2>3. Remembered(settled) \subseteq Remembered(state) \cup {head}
      BY SettleDistinct
    <2>4. m <= Cardinality(Remembered(state) \cup {head})
      BY <2>2, <2>3, FS_Subset
    <2>5. Cardinality(Remembered(state) \cup {head}) \in Nat
      BY <2>2, FS_CardinalityType
    <2>6. QED
      BY <2>1, <2>2, <2>4, <2>5
  <1>3. EntryBytes * len + SeenBytes * n <= MaxOutboxBytes
    BY DEF Fits, Size
  <1>4. /\ EntryBytes * (len - 1) = EntryBytes * len - EntryBytes
        /\ SeenBytes * m <= SeenBytes * n + SeenBytes
    <2>1. SeenBytes * m <= SeenBytes * (n + 1)
      BY <1>2, OutboxAssumption
    <2>2. QED
      BY <1>1, <1>2, <2>1, OutboxAssumption
  <1>5. EntryBytes * (len - 1) + SeenBytes * m <= MaxOutboxBytes
    <2> DEFINE a == EntryBytes * len
               b == SeenBytes * n
               d == SeenBytes * m
    <2>1. a \in Int /\ b \in Int /\ d \in Int
      BY <1>1, <1>2, OutboxAssumption
    <2> HIDE DEF a, b, d
    <2>2. a + b <= MaxOutboxBytes /\ d <= b + SeenBytes
      BY <1>3, <1>4 DEF a, b, d
    <2>3. (a - EntryBytes) + d <= MaxOutboxBytes
      BY <2>1, <2>2, OutboxAssumption
    <2>4. QED
      BY <1>4, <2>3 DEF a, d
  <1>6. QED
    BY <1>1, <1>5 DEF Fits, Size

LEMMA RequeueFits ==
  ASSUME NEW state \in State, state.pending # <<>>, Distinct(state), Fits(state)
  PROVE  Fits(Requeue(state))
  <1>1. Remembered(Requeue(state)) = Remembered(state)
        /\ Len(Requeue(state).pending) = Len(state.pending)
    BY RequeueKeepsAll DEF Remembered, Distinct
  <1>2. QED
    BY <1>1 DEF Fits, Size

-----------------------------------------------------------------------------
(* The service's safety.  The invariants the runs check are not inductive  *)
(* one by one: what a failed save leaves in the ConfigMap is distinct and  *)
(* within bounds only because memory was, and memory is only because it is *)
(* the ConfigMap's queue whenever the lock is free.  IInv is their         *)
(* conjunction with the two facts that tie them: a running pass holds an   *)
(* outbox within bounds, and a copy that still waits has been paid for by  *)
(* fewer posts than faults.                                                *)

PassHolds == ~LockFree => outbox # Nil /\ Len(outbox.pending) <= MaxPending

(* Only requeued copies, in another order, make a pass differ from what is *)
(* saved once each settled copy is: a pass without retries need not save   *)
(* at its end.                                                             *)
UnsavedOnlyRetries == pass.pc = "offer" /\ ~pass.retries => outbox = stored

(* A copy still waiting has been posted no more often than there were      *)
(* faults; one that no longer waits, once more.                            *)
Charged ==
  \A c \in Copies : /\ posts[c] <= 1 + faults
                    /\ c \in Waiting(Loaded) => posts[c] <= faults

IInv ==
  /\ TypeOK
  /\ PassHolds
  /\ UnsavedOnlyRetries
  /\ QueuedOnce
  /\ WithinBounds
  /\ NeverAhead
  /\ CheckpointKeepsOthers
  /\ OffersEachOnce
  /\ Charged

-----------------------------------------------------------------------------
LEMMA InitIInv == Init => IInv
  <1> SUFFICES ASSUME Init PROVE IInv
    OBVIOUS
  <1>1. TypeOK
    BY EmptyOutboxIsEmpty DEF Init, TypeOK, HandlerStates, IdleHandler, PassStates, IdlePass
  <1>2. LockFree /\ outbox = Nil /\ stored = EmptyOutbox
    BY DEF Init, LockFree, IdlePass
  <1>3. DOMAIN EmptyOutbox.pending = {} /\ Waiting(EmptyOutbox) = {} /\ Len(EmptyOutbox.pending) = 0
    BY EmptyOutboxIsEmpty, WaitingCopies
  <1>4. Distinct(EmptyOutbox)
    BY <1>3 DEF Distinct, Once
  <1>5. Fits(EmptyOutbox)
    <2>1. Remembered(EmptyOutbox) = {}
      BY DEF Remembered, EmptyOutbox
    <2>2. Cardinality(Remembered(EmptyOutbox)) = 0
      BY <2>1, FS_EmptySet
    <2>3. QED
      BY <1>3, <2>2, OutboxAssumption DEF Fits, Size
  <1>6. Charged
    BY <1>2, <1>3 DEF Charged, Loaded, Init
  <1>7. QED
    BY <1>1, <1>2, <1>3, <1>4, <1>5, <1>6, OutboxAssumption
       DEF IInv, PassHolds, UnsavedOnlyRetries, LockFree, QueuedOnce, WithinBounds, NeverAhead,
           CheckpointKeepsOthers, OffersEachOnce

(* With the lock free, the queue in memory is the saved one.               *)
LEMMA LoadedIsSaved ==
  ASSUME IInv, LockFree
  PROVE  /\ Loaded \in State /\ Distinct(Loaded)
         /\ Loaded.pending = stored.pending /\ Waiting(Loaded) = Waiting(stored)
         /\ Len(Loaded.pending) <= MaxPending
         /\ \A c \in Copies : Loaded.seen[c] \in {NotSeen, stored.seen[c]}
         /\ stored \in State /\ Distinct(stored) /\ Fits(stored)
  BY DEF IInv, TypeOK, QueuedOnce, NeverAhead, Loaded, Waiting, WithinBounds

(* A running pass has an outbox.                                           *)
LEMMA PassOutbox ==
  ASSUME IInv, ~LockFree
  PROVE  /\ outbox \in State /\ Distinct(outbox) /\ Fits(outbox) /\ Loaded = outbox
         /\ stored \in State /\ Distinct(stored) /\ Fits(stored)
         /\ Len(outbox.pending) <= MaxPending
  BY DEF IInv, TypeOK, PassHolds, QueuedOnce, WithinBounds, Loaded

(* A step that leaves the outbox, in memory and saved, and the lock alone. *)
LEMMA Elsewhere ==
  ASSUME IInv, TypeOK', UNCHANGED <<stored, outbox, posts>>, faults <= faults',
         (LockFree /\ LockFree') \/ UNCHANGED pass
  PROVE  IInv'
  <1>1. CASE LockFree /\ LockFree'
    <2>1. PassHolds' /\ UnsavedOnlyRetries' /\ CheckpointKeepsOthers' /\ OffersEachOnce'
      BY <1>1 DEF PassHolds, UnsavedOnlyRetries, LockFree, CheckpointKeepsOthers, OffersEachOnce
    <2>2. QueuedOnce' /\ WithinBounds' /\ NeverAhead'
      BY <1>1 DEF IInv, QueuedOnce, WithinBounds, NeverAhead
    <2>3. Charged'
      BY DEF IInv, Charged, Loaded, TypeOK
    <2>4. QED
      BY <2>1, <2>2, <2>3 DEF IInv
  <1>2. CASE UNCHANGED pass
    <2>1. LockFree' <=> LockFree
      BY <1>2 DEF LockFree
    <2>2. PassHolds' /\ QueuedOnce' /\ WithinBounds' /\ NeverAhead'
      BY <2>1 DEF IInv, PassHolds, QueuedOnce, WithinBounds, NeverAhead
    <2>3. CheckpointKeepsOthers' /\ OffersEachOnce' /\ UnsavedOnlyRetries'
      BY <1>2, <2>1 DEF IInv, CheckpointKeepsOthers, OffersEachOnce, UnsavedOnlyRetries
    <2>4. Charged'
      BY DEF IInv, Charged, Loaded, TypeOK
    <2>5. QED
      BY <2>2, <2>3, <2>4 DEF IInv
  <1>3. QED
    BY <1>1, <1>2

-----------------------------------------------------------------------------
(* Steps that only move a handler, the loop, the clock or the fault count. *)

LEMMA ElsewhereSteps ==
  ASSUME IInv,
         \/ \E h \in Handlers, request \in RequestKeys, channels \in SUBSET Channels :
              Request(h, request, channels)
         \/ \E h \in Handlers : QueueUnread(h) \/ Answer(h)
         \/ Woken \/ Timer \/ PassUnread \/ Tick
  PROVE  IInv'
  <1> USE DEF IInv
  <1>1. ASSUME NEW h \in Handlers, NEW request \in RequestKeys, NEW channels \in SUBSET Channels,
               Request(h, request, channels)
        PROVE  IInv'
    <2>1. TypeOK'
      BY <1>1, NotifyAssumption DEF Request, TypeOK, HandlerStates
    <2>2. QED
      BY <1>1, <2>1, Elsewhere DEF Request, TypeOK
  <1>2. ASSUME NEW h \in Handlers, QueueUnread(h)
        PROVE  IInv'
    <2>1. TypeOK' /\ faults <= faults'
      BY <1>2 DEF QueueUnread, LoadFails, Fault, Done, TypeOK, HandlerStates, IdleHandler
    <2>2. QED
      BY <1>2, <2>1, Elsewhere DEF QueueUnread
  <1>3. ASSUME NEW h \in Handlers, Answer(h)
        PROVE  IInv'
    <2>1. TypeOK' /\ faults <= faults'
      BY <1>3 DEF Answer, Done, TypeOK, HandlerStates, IdleHandler
    <2>2. QED
      BY <1>3, <2>1, Elsewhere DEF Answer
  <1>4. ASSUME Woken \/ Timer
        PROVE  IInv'
    <2>1. /\ pass' = [pass EXCEPT !.pc = "called", !.at = clock] /\ wake' \in BOOLEAN
          /\ pass.pc = "idle" /\ UNCHANGED <<clock, stored, outbox, handlers, posts, quiet, faults>>
      BY <1>4 DEF Woken, Timer, Call, TypeOK
    <2>2. pass' \in PassStates /\ pass'.pc = "called"
      BY <2>1 DEF TypeOK, PassStates
    <2>3. TypeOK' /\ faults <= faults' /\ LockFree /\ LockFree'
      BY <2>1, <2>2 DEF TypeOK, LockFree
    <2>4. QED
      BY <2>1, <2>3, Elsewhere
  <1>5. ASSUME PassUnread
        PROVE  IInv'
    <2>1. TypeOK' /\ faults <= faults' /\ LockFree /\ LockFree'
      BY <1>5 DEF PassUnread, Fault, IdlePass, TypeOK, PassStates, LockFree
    <2>2. QED
      BY <1>5, <2>1, Elsewhere DEF PassUnread
  <1>6. ASSUME Tick
        PROVE  IInv'
    <2>1. TypeOK' /\ faults <= faults'
      BY <1>6 DEF Tick, TypeOK
    <2>2. QED
      BY <1>6, <2>1, Elsewhere DEF Tick
  <1>7. QED
    BY <1>1, <1>2, <1>3, <1>4, <1>5, <1>6

-----------------------------------------------------------------------------
(* What a step that leaves the lock free has to show of the outbox.        *)
LEMMA LeavesLockFree ==
  ASSUME IInv, TypeOK', LockFree',
         Distinct(stored'), Fits(stored'), Len(stored'.pending) <= MaxPending,
         outbox' = Nil \/ ( /\ outbox'.pending = stored'.pending
                            /\ Distinct(outbox')
                            /\ \A c \in Copies : outbox'.seen[c] \in {NotSeen, stored'.seen[c]} ),
         Charged'
  PROVE  IInv'
  BY DEF IInv, PassHolds, UnsavedOnlyRetries, LockFree, QueuedOnce, WithinBounds, NeverAhead,
           CheckpointKeepsOthers, OffersEachOnce

(* A handler that finds the outbox full, or every copy waiting already.    *)
LEMMA QueueNoneStep ==
  ASSUME IInv, NEW h \in Handlers, QueueFull(h) \/ QueueNothing(h)
  PROVE  IInv'
  <1>1. LockFree /\ LockFree' /\ outbox' = Loaded
        /\ UNCHANGED <<clock, stored, pass, wake, posts, quiet, faults>>
    BY DEF QueueFull, QueueNothing, InQueue, LockFree
  <1>2. TypeOK'
    BY <1>1, LoadedIsSaved
       DEF QueueFull, QueueNothing, Done, IInv, TypeOK, HandlerStates, IdleHandler
  <1>3. Charged'
    <2>1. Loaded' = Loaded
      BY <1>1 DEF Loaded
    <2>2. QED
      BY <1>1, <2>1 DEF IInv, Charged
  <1>4. QED
    BY <1>1, <1>2, <1>3, LoadedIsSaved, LeavesLockFree DEF IInv, WithinBounds

(* A handler that queues copies: what it saves is distinct, fits and has   *)
(* room, and nothing has been posted of the copies it adds.                *)
LEMMA QueueStep ==
  ASSUME IInv, NEW h \in Handlers, Queue(h)
  PROVE  IInv'
  <1> DEFINE request == handlers[h].request
             channels == handlers[h].channels
             queued == QueuedFor(h)
  <1>1. LockFree /\ LockFree' /\ UNCHANGED <<clock, pass, wake>> /\ handlers[h].pc = "queue"
    BY DEF Queue, InQueue, LockFree
  <1>2. PICK order \in Orders(queued) :
          LET accepted == Accept(Loaded, request, order, handlers[h].at)
          IN  \/ /\ Saved(accepted)
                 /\ handlers' = [handlers EXCEPT ![h] =
                      [@ EXCEPT !.pc = "answer", !.channels = queued, !.at = 0]]
                 /\ UNCHANGED quiet
              \/ /\ NotSaved(accepted)
                 /\ Done(h)
                 /\ quiet' = quiet \cup (Waiting(stored') \ Waiting(stored))
    BY DEF Queue
  <1> DEFINE accepted == Accept(Loaded, request, order, handlers[h].at)
  <1>3. /\ request \in RequestKeys /\ channels \in SUBSET Channels /\ handlers[h].at \in Nat
        /\ queued = Unqueued(Loaded, request, channels) /\ queued \in SUBSET Channels
    BY <1>1 DEF IInv, TypeOK, HandlerStates, QueuedFor, Unqueued
  <1> HIDE DEF request, channels, queued
  <1>4. /\ accepted \in State /\ Distinct(accepted) /\ accepted.seen = Loaded.seen
        /\ Len(accepted.pending) <= MaxPending
        /\ Waiting(accepted) = Waiting(stored) \cup {<<request, c>> : c \in queued}
    <2>1. order \in Orders(Unqueued(Loaded, request, channels))
      BY <1>2, <1>3
    <2>2. HasRoom(Loaded, queued)
      BY DEF Queue, queued
    <2>3. QED
      BY <1>1, <1>3, <2>1, <2>2, LoadedIsSaved, AcceptAdds, AcceptDistinct DEF HasRoom, Distinct
  <1>5. posts' = NewPosts
    BY DEF Queue
  <1>6. \A c \in Copies : c \in Waiting(stored) => posts[c] <= faults
    BY <1>1, LoadedIsSaved DEF IInv, Charged
  <1>7. CASE Saved(accepted) /\ UNCHANGED quiet
             /\ handlers' = [handlers EXCEPT ![h] =
                  [@ EXCEPT !.pc = "answer", !.channels = queued, !.at = 0]]
    <2>1. stored' = accepted /\ outbox' = accepted /\ faults' = faults /\ Fits(accepted)
      BY <1>7 DEF Saved
    <2>2. handlers' \in [Handlers -> HandlerStates]
      BY <1>1, <1>3, <1>7 DEF IInv, TypeOK, HandlerStates, request
    <2>3. posts' \in [Copies -> Nat]
      BY <1>5 DEF NewPosts, IInv, TypeOK
    <2>4. TypeOK'
      BY <1>1, <1>4, <1>7, <2>1, <2>2, <2>3 DEF IInv, TypeOK
    <2>5. Charged'
      <3>1. Waiting(Loaded') = Waiting(stored')
        BY <2>1 DEF Loaded
      <3>2. ASSUME NEW c \in Copies
            PROVE  posts'[c] <= 1 + faults /\ (c \in Waiting(stored') => posts'[c] <= faults)
        BY <1>5, <1>6 DEF NewPosts, IInv, Charged, TypeOK
      <3>3. Waiting(Loaded)' = Waiting(stored')
        BY <3>1 DEF Waiting
      <3>4. QED
        BY <2>1, <3>2, <3>3 DEF Charged
    <2>6. QED
      BY <1>1, <1>4, <2>1, <2>4, <2>5, LeavesLockFree
  <1>8. CASE NotSaved(accepted) /\ Done(h) /\ quiet' = quiet \cup (Waiting(stored') \ Waiting(stored))
    <2>1. /\ outbox' = Nil
          /\ \/ stored' = stored /\ faults' = faults
             \/ stored' \in {stored, accepted} /\ Fits(accepted) /\ faults' = faults + 1
      BY <1>8 DEF NotSaved, Fault
    <2>2. /\ stored' \in State /\ Distinct(stored') /\ Fits(stored')
          /\ Len(stored'.pending) <= MaxPending /\ Waiting(stored') \subseteq Copies
      BY <1>1, <1>4, <2>1, LoadedIsSaved, WaitingCopies
    <2>3. handlers' \in [Handlers -> HandlerStates]
      BY <1>8 DEF Done, IInv, TypeOK, HandlerStates, IdleHandler
    <2>4. posts' \in [Copies -> Nat]
      BY <1>5 DEF NewPosts, IInv, TypeOK
    <2>5. TypeOK'
      BY <1>1, <1>8, <2>1, <2>2, <2>3, <2>4 DEF IInv, TypeOK
    <2>6. Charged'
      <3>1. Loaded' = stored'
        BY <2>1 DEF Loaded
      <3>2. ASSUME NEW c \in Copies
            PROVE  posts'[c] <= 1 + faults' /\ (c \in Waiting(stored') => posts'[c] <= faults')
        BY <1>5, <1>6, <2>1 DEF NewPosts, IInv, Charged, TypeOK
      <3>3. QED
        BY <3>1, <3>2 DEF Charged, Waiting
    <2>7. QED
      BY <1>1, <2>1, <2>2, <2>5, <2>6, LeavesLockFree
  <1>9. QED
    BY <1>2, <1>7, <1>8

-----------------------------------------------------------------------------
(* A pass with nothing to send only forgets expired keys, in memory.       *)
LEMMA PassNothingStep ==
  ASSUME IInv, PassNothing
  PROVE  IInv'
  <1> DEFINE expired == Expire(Loaded, pass.at)
  <1>1. /\ LockFree /\ pass.at \in Nat /\ outbox' = expired
        /\ pass' = IdlePass({}, FALSE)
        /\ UNCHANGED <<clock, stored, handlers, wake, posts, quiet, faults>>
    BY DEF PassNothing, LockFree, IInv, TypeOK, PassStates
  <1>2. LockFree' /\ pass' \in PassStates
    BY <1>1 DEF LockFree, IdlePass, PassStates
  <1>3. /\ expired \in State /\ Distinct(expired) /\ expired.pending = stored.pending
        /\ Waiting(expired) = Waiting(Loaded)
        /\ \A c \in Copies : expired.seen[c] \in {NotSeen, stored.seen[c]}
    <2>1. \A c \in Copies : expired.seen[c] \in {NotSeen, Loaded.seen[c]}
      BY <1>1, LoadedIsSaved, ExpireForgets
    <2>2. QED
      BY <1>1, <2>1, LoadedIsSaved, ExpireForgets, ExpireDistinct
  <1>4. TypeOK'
    BY <1>1, <1>2, <1>3 DEF IInv, TypeOK
  <1>5. Charged'
    <2>1. Loaded' = expired
      BY <1>1, <1>3, NotifyAssumption DEF Loaded
    <2>2. Waiting(Loaded)' = Waiting(Loaded)
      BY <1>3, <2>1 DEF Waiting
    <2>3. QED
      BY <1>1, <2>2 DEF IInv, Charged
  <1>6. QED
    BY <1>1, <1>2, <1>3, <1>4, <1>5, LoadedIsSaved, LeavesLockFree DEF IInv, WithinBounds

(* A failed save leaves one of two documents in the ConfigMap, and memory  *)
(* forgotten: whatever waits in either has been paid for.                  *)
LEMMA NotSavedStep ==
  ASSUME IInv, NEW state \in State, NotSaved(state),
         Distinct(state), Len(state.pending) <= MaxPending,
         Fits(state) \/ (\A c \in Waiting(stored) : posts[c] <= faults),
         pass'.pc = "idle", pass' \in PassStates,
         UNCHANGED <<clock, handlers, wake, posts>>, quiet' \in SUBSET Copies
  PROVE  IInv'
  <1>1. /\ outbox' = Nil /\ LockFree'
        /\ \/ stored' = stored /\ faults' = faults /\ ~Fits(state)
           \/ stored' \in {stored, state} /\ Fits(state) /\ faults' = faults + 1
    BY DEF NotSaved, Fault, LockFree
  <1>2. /\ stored' \in State /\ Distinct(stored') /\ Fits(stored')
        /\ Len(stored'.pending) <= MaxPending /\ Waiting(stored') \subseteq Copies
    BY <1>1, WaitingCopies DEF IInv, TypeOK, QueuedOnce, WithinBounds
  <1>3. TypeOK'
    BY <1>1, <1>2 DEF IInv, TypeOK
  <1>4. Charged'
    <2>1. Loaded' = stored'
      BY <1>1 DEF Loaded
    <2>2. \A c \in Copies : posts[c] <= 1 + faults' /\ (c \in Waiting(stored') => posts[c] <= faults')
      BY <1>1 DEF IInv, Charged, TypeOK
    <2>3. QED
      BY <2>1, <2>2 DEF Charged, Waiting
  <1>5. QED
    BY <1>1, <1>2, <1>3, <1>4, LeavesLockFree

(* A pass begins by saving what it will offer.                             *)
LEMMA PassBeginStep ==
  ASSUME IInv, PassBegin
  PROVE  IInv'
  <1> DEFINE expired == Expire(Loaded, pass.at)
  <1>1. /\ LockFree /\ pass.at \in Nat /\ pass \in PassStates
        /\ UNCHANGED <<clock, handlers, wake, posts>>
    BY DEF PassBegin, LockFree, IInv, TypeOK, PassStates
  <1>2. /\ expired \in State /\ Distinct(expired) /\ expired.pending = stored.pending
        /\ Waiting(expired) = Waiting(stored) /\ Len(expired.pending) <= MaxPending
    BY <1>1, LoadedIsSaved, ExpireForgets, ExpireDistinct
  <1>3. \A c \in Waiting(stored) : posts[c] <= faults
    BY <1>1, LoadedIsSaved, WaitingCopies DEF IInv, Charged
  <1>4. CASE /\ Saved(expired) /\ quiet' = {}
             /\ pass' = [pass EXCEPT !.pc = "offer", !.left = Len(expired.pending),
                                     !.retries = FALSE, !.offered = {}]
    <2>1. stored' = expired /\ outbox' = expired /\ faults' = faults /\ Fits(expired)
      BY <1>4 DEF Saved
    <2>2. /\ pass' \in PassStates /\ pass'.pc = "offer" /\ pass'.offered = {}
          /\ pass'.left = Len(expired.pending) /\ ~LockFree'
      BY <1>1, <1>2, <1>4, WaitingCopies DEF PassStates, LockFree
    <2>3. TypeOK'
      BY <1>1, <1>2, <1>4, <2>1, <2>2 DEF IInv, TypeOK
    <2>4. PassHolds' /\ UnsavedOnlyRetries' /\ QueuedOnce' /\ WithinBounds' /\ NeverAhead'
      BY <1>2, <2>1, <2>2, NotifyAssumption
         DEF PassHolds, UnsavedOnlyRetries, QueuedOnce, WithinBounds, NeverAhead
    <2>5. CheckpointKeepsOthers'
      BY <2>1, <2>2 DEF CheckpointKeepsOthers, Waiting
    <2>6. OffersEachOnce'
      BY <1>2, <2>1, <2>2, WaitingCopies DEF OffersEachOnce
    <2>7. Charged'
      <3>1. Waiting(Loaded)' = Waiting(expired)
        BY <2>1 DEF Loaded, Waiting
      <3>2. QED
        BY <1>1, <1>2, <1>3, <2>1, <3>1 DEF IInv, Charged
    <2>8. QED
      BY <2>3, <2>4, <2>5, <2>6, <2>7 DEF IInv
  <1>5. CASE NotSaved(expired) /\ pass' = IdlePass({}, TRUE) /\ UNCHANGED quiet
    <2>1. pass'.pc = "idle" /\ pass' \in PassStates /\ quiet' \in SUBSET Copies
      BY <1>5 DEF IdlePass, PassStates, IInv, TypeOK
    <2>2. QED
      BY <1>1, <1>2, <1>3, <1>5, <2>1, NotSavedStep
  <1>6. QED
    BY <1>4, <1>5 DEF PassBegin

(* A copy is offered: posted or not, and requeued or settled.              *)
LEMMA OfferStep ==
  ASSUME IInv, Offer
  PROVE  IInv'
  <1> DEFINE entry == Head(outbox.pending)
             copy == entry.copy
  <1>1. /\ pass.pc = "offer" /\ pass.left > 0 /\ ~LockFree /\ pass \in PassStates
        /\ UNCHANGED <<clock, stored, handlers, wake, quiet>>
    BY DEF Offer, LockFree, IInv, TypeOK
  <1>2. /\ outbox \in State /\ Distinct(outbox) /\ Fits(outbox) /\ Loaded = outbox
        /\ Len(outbox.pending) <= MaxPending /\ outbox.pending # <<>>
        /\ Len(outbox.pending) \in Nat /\ pass.left <= Len(outbox.pending)
        /\ DOMAIN outbox.pending = 1..Len(outbox.pending)
        /\ Waiting(outbox) = Waiting(stored)
    BY <1>1, PassOutbox, WaitingCopies
       DEF IInv, OffersEachOnce, CheckpointKeepsOthers, PassStates
  <1>3. /\ copy \in Copies /\ copy \in Waiting(outbox) /\ pass.at \in Nat
        /\ entry = outbox.pending[1]
    <2>1. pass.at \in Nat
      BY <1>1 DEF PassStates
    <2>2. entry \in Entries /\ copy \in Waiting(outbox)
      BY <1>2, <2>1, SettleTakesHead DEF Distinct
    <2>3. entry = outbox.pending[1]
      BY <1>2 DEF State
    <2>4. QED
      BY <2>1, <2>2, <2>3 DEF Entries
  <1>4. PICK sent \in BOOLEAN :
          /\ Publish(copy, sent)
          /\ IF KeepsTrying(entry, sent, pass.at)
             THEN /\ outbox' = Requeue(outbox)
                  /\ pass' = [[pass EXCEPT !.left = @ - 1, !.offered = @ \cup {copy}]
                                EXCEPT !.retries = TRUE]
             ELSE /\ outbox' = Settle(outbox, pass.at)
                  /\ pass' = [[pass EXCEPT !.left = @ - 1, !.offered = @ \cup {copy}]
                                EXCEPT !.pc = "checkpoint"]
    BY DEF Offer
  <1>5. /\ posts' \in [Copies -> Nat] /\ faults' \in Nat /\ faults <= faults'
        /\ \A c \in Copies : c # copy => posts'[c] = posts[c]
        /\ posts'[copy] <= 1 + faults'
        /\ ~sent => posts'[copy] <= faults'
    <2>1. posts[copy] <= faults /\ posts[copy] \in Nat /\ faults \in Nat /\ posts \in [Copies -> Nat]
      BY <1>2, <1>3 DEF IInv, Charged, TypeOK
    <2>2. \/ sent /\ posts' = [posts EXCEPT ![copy] = @ + 1] /\ faults' = faults
          \/ ~sent /\ posts' \in {posts, [posts EXCEPT ![copy] = @ + 1]} /\ faults' = faults + 1
          \/ ~sent /\ posts' = posts /\ faults' = faults
      BY <1>4 DEF Publish, Fault
    <2> HIDE DEF copy
    <2>3. QED
      BY <1>3, <2>1, <2>2
  <1>6. \A c \in Copies : posts'[c] <= 1 + faults'
    BY <1>5 DEF IInv, Charged, TypeOK
  <1>7. CASE KeepsTrying(entry, sent, pass.at)
    <2>1. /\ outbox' = Requeue(outbox) /\ ~sent
          /\ pass' \in PassStates /\ pass'.pc = "offer" /\ pass'.retries /\ ~LockFree'
          /\ pass'.left = pass.left - 1 /\ pass'.offered = pass.offered \cup {copy}
      <3>1. ~sent /\ outbox' = Requeue(outbox)
        BY <1>4, <1>7 DEF KeepsTrying
      <3> HIDE DEF copy
      <3>2. pass' = [pass EXCEPT !.left = pass.left - 1, !.offered = pass.offered \cup {copy},
                                 !.retries = TRUE]
        BY <1>1, <1>4, <1>7 DEF PassStates
      <3>3. pass' \in PassStates /\ pass'.pc = "offer" /\ pass'.retries
            /\ pass'.left = pass.left - 1 /\ pass'.offered = pass.offered \cup {copy}
        <4>1. pass.left - 1 \in Nat /\ pass.offered \cup {copy} \in SUBSET Copies
          BY <1>1, <1>3 DEF PassStates
        <4>2. QED
          BY <1>1, <3>2, <4>1 DEF PassStates
      <3>4. QED
        BY <3>1, <3>3 DEF LockFree
    <2>2. /\ outbox' \in State /\ Distinct(outbox') /\ Fits(outbox')
          /\ Len(outbox'.pending) = Len(outbox.pending) /\ Waiting(outbox') = Waiting(outbox)
          /\ outbox' # Nil
      BY <1>2, <2>1, RequeueKeepsAll, RequeueDistinct, RequeueFits, NotifyAssumption DEF Distinct
    <2>3. TypeOK'
      BY <1>1, <1>5, <2>1, <2>2 DEF IInv, TypeOK
    <2>4. PassHolds' /\ UnsavedOnlyRetries' /\ QueuedOnce' /\ WithinBounds' /\ NeverAhead'
      BY <1>1, <1>2, <2>1, <2>2
         DEF IInv, PassHolds, UnsavedOnlyRetries, QueuedOnce, WithinBounds, NeverAhead
    <2>5. CheckpointKeepsOthers'
      BY <1>1, <1>2, <2>1, <2>2 DEF CheckpointKeepsOthers, Waiting
    <2>6. OffersEachOnce'
      <3>1. /\ \A i \in 1..(Len(outbox.pending) - 1) : outbox'.pending[i] = outbox.pending[i+1]
            /\ outbox'.pending[Len(outbox.pending)] = entry
            /\ DOMAIN outbox'.pending = 1..Len(outbox.pending)
        BY <1>2, <2>1, <2>2, RequeueKeepsAll, WaitingCopies DEF Distinct
      <3>2. \A i \in DOMAIN outbox.pending :
               outbox.pending[i].copy \in pass.offered <=> i > pass.left
        BY <1>1 DEF IInv, OffersEachOnce
      <3>3. \A i \in DOMAIN outbox.pending : outbox.pending[i].copy = copy <=> i = 1
        BY <1>2, <1>3 DEF Distinct, Once
      <3>4. ASSUME NEW i \in DOMAIN outbox'.pending
            PROVE  outbox'.pending[i].copy \in pass'.offered <=> i > pass'.left
        <4>1. CASE i = Len(outbox.pending)
          BY <1>1, <1>2, <2>1, <3>1, <4>1 DEF PassStates
        <4>2. CASE i # Len(outbox.pending)
          <5>1. i + 1 \in DOMAIN outbox.pending /\ outbox'.pending[i] = outbox.pending[i+1] /\ i + 1 # 1
            BY <1>2, <3>1, <4>2
          <5>2. outbox'.pending[i].copy \in pass.offered <=> i + 1 > pass.left
            BY <3>2, <5>1
          <5>3. outbox'.pending[i].copy # copy
            BY <3>3, <5>1
          <5>4. QED
            BY <1>1, <1>2, <2>1, <3>1, <5>2, <5>3 DEF PassStates
        <4>3. QED
          BY <4>1, <4>2
      <3>5. pass'.left <= Len(outbox'.pending)
        BY <1>1, <1>2, <2>1, <2>2 DEF PassStates
      <3>6. QED
        BY <3>4, <3>5 DEF OffersEachOnce
    <2>7. Charged'
      <3>1. Waiting(Loaded)' = Waiting(outbox)
        BY <2>2 DEF Loaded, Waiting
      <3>2. QED
        BY <1>2, <1>5, <1>6, <2>1, <3>1 DEF IInv, Charged, TypeOK
    <2>8. QED
      BY <2>3, <2>4, <2>5, <2>6, <2>7 DEF IInv
  <1>8. CASE ~KeepsTrying(entry, sent, pass.at)
    <2>1. /\ outbox' = Settle(outbox, pass.at)
          /\ pass' \in PassStates /\ pass'.pc = "checkpoint" /\ ~LockFree'
          /\ pass'.left = pass.left - 1 /\ pass'.offered = pass.offered \cup {copy}
      <3>1. outbox' = Settle(outbox, pass.at)
        BY <1>4, <1>8
      <3> HIDE DEF copy
      <3>2. pass' = [pass EXCEPT !.left = pass.left - 1, !.offered = pass.offered \cup {copy},
                                 !.pc = "checkpoint"]
        BY <1>1, <1>4, <1>8 DEF PassStates
      <3>3. pass' \in PassStates /\ pass'.pc = "checkpoint"
            /\ pass'.left = pass.left - 1 /\ pass'.offered = pass.offered \cup {copy}
        <4>1. pass.left - 1 \in Nat /\ pass.offered \cup {copy} \in SUBSET Copies
          BY <1>1, <1>3 DEF PassStates
        <4>2. QED
          BY <1>1, <3>2, <4>1 DEF PassStates
      <3>4. QED
        BY <3>1, <3>3 DEF LockFree
    <2>2. /\ outbox' \in State /\ Distinct(outbox') /\ Fits(outbox') /\ outbox' # Nil
          /\ Len(outbox'.pending) = Len(outbox.pending) - 1
          /\ Waiting(outbox') = Waiting(outbox) \ {copy}
      BY <1>2, <1>3, <2>1, SettleTakesHead, SettleDistinct, SettleFits, NotifyAssumption DEF Distinct
    <2>3. TypeOK'
      BY <1>1, <1>5, <2>1, <2>2 DEF IInv, TypeOK
    <2>4. PassHolds' /\ UnsavedOnlyRetries' /\ QueuedOnce' /\ WithinBounds' /\ NeverAhead'
      BY <1>1, <1>2, <2>1, <2>2, OutboxAssumption
         DEF IInv, PassHolds, UnsavedOnlyRetries, QueuedOnce, WithinBounds, NeverAhead
    <2>5. CheckpointKeepsOthers'
      BY <1>1, <1>2, <2>1, <2>2 DEF CheckpointKeepsOthers, Waiting
    <2>6. OffersEachOnce'
      <3>1. /\ \A i \in DOMAIN outbox'.pending : outbox'.pending[i] = outbox.pending[i+1]
            /\ DOMAIN outbox'.pending = 1..(Len(outbox.pending) - 1)
        BY <1>2, <1>3, <2>1, <2>2, SettleTakesHead, WaitingCopies DEF Distinct
      <3>2. \A i \in DOMAIN outbox.pending :
               outbox.pending[i].copy \in pass.offered <=> i > pass.left
        BY <1>1 DEF IInv, OffersEachOnce
      <3>3. \A i \in DOMAIN outbox.pending : outbox.pending[i].copy = copy <=> i = 1
        BY <1>2, <1>3 DEF Distinct, Once
      <3>4. ASSUME NEW i \in DOMAIN outbox'.pending
            PROVE  outbox'.pending[i].copy \in pass'.offered <=> i > pass'.left
        <4>1. i + 1 \in DOMAIN outbox.pending /\ outbox'.pending[i] = outbox.pending[i+1] /\ i + 1 # 1
          BY <1>2, <3>1
        <4>2. outbox'.pending[i].copy \in pass.offered <=> i + 1 > pass.left
          BY <3>2, <4>1
        <4>3. outbox'.pending[i].copy # copy
          BY <3>3, <4>1
        <4>4. QED
          BY <1>1, <1>2, <2>1, <3>1, <4>2, <4>3 DEF PassStates
      <3>5. pass'.left <= Len(outbox'.pending)
        BY <1>1, <1>2, <2>1, <2>2 DEF PassStates
      <3>6. QED
        BY <3>4, <3>5 DEF OffersEachOnce
    <2>7. Charged'
      <3>1. Waiting(Loaded)' = Waiting(outbox) \ {copy}
        BY <2>2 DEF Loaded, Waiting
      <3>2. QED
        BY <1>2, <1>5, <1>6, <3>1 DEF IInv, Charged, TypeOK
    <2>8. QED
      BY <2>3, <2>4, <2>5, <2>6, <2>7 DEF IInv
  <1>9. QED
    BY <1>7, <1>8

(* A settled copy is saved, or the pass ends with its outbox forgotten.    *)
LEMMA CheckpointStep ==
  ASSUME IInv, Checkpoint
  PROVE  IInv'
  <1>1. /\ pass.pc = "checkpoint" /\ ~LockFree /\ pass \in PassStates
        /\ UNCHANGED <<clock, handlers, wake, posts, quiet>>
    BY DEF Checkpoint, LockFree, IInv, TypeOK
  <1>2. /\ outbox \in State /\ Distinct(outbox) /\ Fits(outbox) /\ Loaded = outbox
        /\ Len(outbox.pending) <= MaxPending /\ outbox # Nil
    BY <1>1, PassOutbox, NotifyAssumption
  <1>3. CASE Saved(outbox) /\ pass' = [pass EXCEPT !.pc = "offer"]
    <2>1. /\ stored' = outbox /\ outbox' = outbox /\ faults' = faults
          /\ pass' \in PassStates /\ pass'.pc = "offer" /\ ~LockFree'
          /\ pass'.left = pass.left /\ pass'.offered = pass.offered
      BY <1>1, <1>3 DEF Saved, PassStates, LockFree
    <2>2. TypeOK'
      BY <1>1, <1>2, <2>1 DEF IInv, TypeOK
    <2>3. PassHolds' /\ UnsavedOnlyRetries' /\ QueuedOnce' /\ WithinBounds' /\ NeverAhead'
      BY <1>2, <2>1 DEF PassHolds, UnsavedOnlyRetries, QueuedOnce, WithinBounds, NeverAhead
    <2>4. CheckpointKeepsOthers'
      BY <2>1 DEF CheckpointKeepsOthers, Waiting
    <2>5. OffersEachOnce'
      BY <1>1, <2>1 DEF IInv, OffersEachOnce
    <2>6. Charged'
      BY <1>1, <1>2, <2>1 DEF IInv, Charged, Loaded
    <2>7. QED
      BY <2>2, <2>3, <2>4, <2>5, <2>6 DEF IInv
  <1>4. CASE NotSaved(outbox) /\ pass' = IdlePass(pass.offered, TRUE)
    <2>1. pass'.pc = "idle" /\ pass' \in PassStates /\ quiet' \in SUBSET Copies
      BY <1>1, <1>4 DEF IdlePass, PassStates, IInv, TypeOK
    <2>2. QED
      BY <1>1, <1>2, <1>4, <2>1, NotSavedStep
  <1>5. QED
    BY <1>3, <1>4 DEF Checkpoint

(* A pass ends; the order its retries left the queue in is saved.          *)
LEMMA FinishStep ==
  ASSUME IInv, Finish
  PROVE  IInv'
  <1>1. /\ pass.pc = "offer" /\ ~LockFree /\ pass \in PassStates /\ pass.left = 0
        /\ UNCHANGED <<clock, handlers, wake, posts, quiet>>
    BY DEF Finish, LockFree, IInv, TypeOK
  <1>2. /\ outbox \in State /\ Distinct(outbox) /\ Fits(outbox) /\ Loaded = outbox
        /\ Len(outbox.pending) <= MaxPending /\ outbox # Nil
    BY <1>1, PassOutbox, NotifyAssumption
  <1>3. CASE Saved(outbox) /\ pass' = IdlePass(pass.offered, FALSE)
    <2>1. /\ stored' = outbox /\ outbox' = outbox /\ faults' = faults
          /\ pass' \in PassStates /\ LockFree'
      BY <1>1, <1>3 DEF Saved, IdlePass, PassStates, LockFree
    <2>2. TypeOK'
      BY <1>1, <1>2, <2>1 DEF IInv, TypeOK
    <2>3. Charged'
      BY <1>1, <1>2, <2>1 DEF IInv, Charged, Loaded
    <2>4. \A c \in Copies : outbox'.seen[c] \in {NotSeen, stored'.seen[c]}
      BY <2>1
    <2>5. QED
      BY <1>2, <2>1, <2>2, <2>3, <2>4, LeavesLockFree
  <1>4. CASE NotSaved(outbox) /\ pass' = IdlePass(pass.offered, TRUE)
    <2>1. pass'.pc = "idle" /\ pass' \in PassStates /\ quiet' \in SUBSET Copies
      BY <1>1, <1>4 DEF IdlePass, PassStates, IInv, TypeOK
    <2>2. QED
      BY <1>1, <1>2, <1>4, <2>1, NotSavedStep
  <1>5. CASE ~pass.retries /\ UNCHANGED <<stored, outbox, faults>>
             /\ pass' = IdlePass(pass.offered, FALSE)
    <2>1. /\ stored' = stored /\ outbox' = outbox /\ faults' = faults /\ outbox = stored
          /\ pass' \in PassStates /\ LockFree'
      BY <1>1, <1>5 DEF IdlePass, PassStates, LockFree, IInv, UnsavedOnlyRetries
    <2>2. TypeOK'
      BY <1>1, <1>2, <2>1 DEF IInv, TypeOK
    <2>3. Charged'
      BY <1>1, <1>2, <2>1 DEF IInv, Charged, Loaded
    <2>4. \A c \in Copies : outbox'.seen[c] \in {NotSeen, stored'.seen[c]}
      BY <2>1
    <2>5. QED
      BY <1>2, <2>1, <2>2, <2>3, <2>4, LeavesLockFree
  <1>6. QED
    BY <1>3, <1>4, <1>5 DEF Finish

(* A restart forgets memory, and every wait for a checkpoint with it.      *)
LEMMA RestartStep ==
  ASSUME IInv, Restart
  PROVE  IInv'
  <1>1. /\ stored' = stored /\ outbox' = Nil /\ faults' = faults + 1
        /\ UNCHANGED <<clock, posts, quiet>> /\ wake' = TRUE
        /\ pass' = IdlePass({}, FALSE) /\ handlers' = [h \in Handlers |-> IdleHandler]
    BY DEF Restart, Fault
  <1>2. LockFree' /\ pass' \in PassStates
    BY <1>1 DEF LockFree, IdlePass, PassStates
  <1>3. handlers' \in [Handlers -> HandlerStates]
    BY <1>1 DEF HandlerStates, IdleHandler
  <1>4. TypeOK'
    <2>1. TypeOK
      BY DEF IInv
    <2>2. faults' \in Nat /\ wake' \in BOOLEAN
      BY <1>1, <2>1 DEF TypeOK
    <2>3. QED
      BY <1>1, <1>2, <1>3, <2>1, <2>2 DEF TypeOK
  <1>5. Charged'
    BY <1>1 DEF IInv, Charged, TypeOK
  <1>6. Distinct(stored) /\ Fits(stored) /\ Len(stored.pending) <= MaxPending
    BY DEF IInv, QueuedOnce, WithinBounds
  <1>7. QED
    BY <1>1, <1>2, <1>4, <1>5, <1>6, LeavesLockFree

-----------------------------------------------------------------------------
(* The invariant holds of every reachable state.                           *)
THEOREM Invariance == Spec => []IInv
  <1>1. IInv /\ [Next]_vars => IInv'
    <2> SUFFICES ASSUME IInv, [Next]_vars PROVE IInv'
      OBVIOUS
    <2>1. CASE UNCHANGED vars
      BY <2>1, Elsewhere DEF vars, IInv, TypeOK
    <2>2. CASE \E h \in Handlers : Handler(h)
      BY <2>2, ElsewhereSteps, QueueNoneStep, QueueStep DEF Handler
    <2>3. CASE \E h \in Handlers, request \in RequestKeys, channels \in SUBSET Channels :
                 Request(h, request, channels)
      BY <2>3, ElsewhereSteps
    <2>4. CASE Loop
      BY <2>4, ElsewhereSteps, PassNothingStep, PassBeginStep, OfferStep, CheckpointStep,
         FinishStep DEF Loop
    <2>5. CASE Restart
      BY <2>5, RestartStep
    <2>6. CASE Tick
      BY <2>6, ElsewhereSteps
    <2>7. QED
      BY <2>1, <2>2, <2>3, <2>4, <2>5, <2>6 DEF Next
  <1>2. QED
    BY InitIInv, <1>1, PTL DEF Spec

(* Every variable keeps its type: the pass never takes a copy off an       *)
(* outbox that was forgotten or is empty.                                  *)
THEOREM TypeCorrect == Spec => []TypeOK
  BY Invariance, PTL DEF IInv

(* No copy waits twice, or waits while its key is remembered.              *)
THEOREM CopiesQueuedOnce == Spec => []QueuedOnce
  BY Invariance, PTL DEF IInv

(* Every document saved is within both bounds.                             *)
THEOREM OutboxWithinBounds == Spec => []WithinBounds
  BY Invariance, PTL DEF IInv

(* Memory is never ahead of the ConfigMap while the lock is free.          *)
THEOREM MemoryNeverAhead == Spec => []NeverAhead
  BY Invariance, PTL DEF IInv

(* The queue is sound in every reachable state.                            *)
THEOREM QueueIsSound == Spec => []QueueSound
  BY CopiesQueuedOnce, OutboxWithinBounds, MemoryNeverAhead, PTL DEF QueueSound

(* No checkpoint of a pass loses a copy that is to be retried.             *)
THEOREM NoCheckpointLosesACopy == Spec => []CheckpointKeepsOthers
  BY Invariance, PTL DEF IInv

(* A pass offers every waiting copy exactly once.                          *)
THEOREM PassOffersEachOnce == Spec => []OffersEachOnce
  BY Invariance, PTL DEF IInv

(* A queued copy reaches ntfy at most once more than there are faults.     *)
THEOREM OnlyFaultsRepeatACopy == Spec => []RepeatsNeedFaults
  <1>1. IInv => RepeatsNeedFaults
    BY DEF IInv, Charged, RepeatsNeedFaults
  <1>2. QED
    BY <1>1, Invariance, PTL
-----------------------------------------------------------------------------
(* Wake-ups.  While the loop rests, a copy comes to wait only by a request  *)
(* that is then answering or was answered 503, and Answering loses one only *)
(* as the loop is woken.                                                    *)

(* A pass that rests leaves nothing waiting that it did not offer.         *)
LEMMA FinishOffersAll ==
  ASSUME IInv, Finish
  PROVE  Waiting(stored') \subseteq pass'.offered
  <1>1. /\ pass.pc = "offer" /\ ~LockFree /\ pass.left = 0 /\ pass \in PassStates
        /\ pass'.offered = pass.offered
        /\ stored' = outbox \/ stored' = stored
    BY DEF Finish, LockFree, IInv, TypeOK, IdlePass, Saved, NotSaved, PassStates
  <1>2. outbox \in State /\ Waiting(outbox) = Waiting(stored)
    BY <1>1, PassOutbox DEF IInv, CheckpointKeepsOthers
  <1>3. Waiting(outbox) \subseteq pass.offered
    BY <1>1, <1>2, WaitingCopies DEF IInv, OffersEachOnce, Waiting
  <1>4. QED
    BY <1>1, <1>2, <1>3

(* A request queues copies: they are answering, or saved by a write that   *)
(* reported an error.                                                      *)
LEMMA QueueKeepsWake ==
  ASSUME IInv, WakeNotLost, NEW h \in Handlers, Queue(h)
  PROVE  WakeNotLost'
  <1> DEFINE request == handlers[h].request
             queued == QueuedFor(h)
  <1>1. /\ LockFree /\ UNCHANGED <<clock, pass, wake>> /\ handlers[h].pc = "queue"
        /\ request \in RequestKeys /\ handlers[h].channels \in SUBSET Channels
        /\ handlers[h].at \in Nat /\ handlers \in [Handlers -> HandlerStates]
    BY DEF Queue, InQueue, IInv, TypeOK, HandlerStates
  <1>2. PICK order \in Orders(queued) :
          LET accepted == Accept(Loaded, request, order, handlers[h].at)
          IN  \/ /\ Saved(accepted)
                 /\ handlers' = [handlers EXCEPT ![h] =
                      [@ EXCEPT !.pc = "answer", !.channels = queued, !.at = 0]]
                 /\ UNCHANGED quiet
              \/ /\ NotSaved(accepted)
                 /\ Done(h)
                 /\ quiet' = quiet \cup (Waiting(stored') \ Waiting(stored))
    BY DEF Queue
  <1> DEFINE accepted == Accept(Loaded, request, order, handlers[h].at)
  <1>3. queued = Unqueued(Loaded, request, handlers[h].channels)
    BY DEF QueuedFor
  <1>4. Waiting(accepted) = Waiting(stored) \cup {<<request, c>> : c \in queued}
    BY <1>1, <1>2, <1>3, LoadedIsSaved, AcceptAdds DEF Distinct
  <1> HIDE DEF request, queued
  <1>5. SUFFICES ASSUME pass.pc = "idle" /\ ~wake /\ ~pass.failed
                 PROVE  Waiting(stored)' \subseteq (pass.offered \cup Answering \cup quiet)'
    BY <1>1 DEF WakeNotLost
  <1>6. Waiting(stored) \subseteq pass.offered \cup Answering \cup quiet
    BY <1>5 DEF WakeNotLost
  <1>7. CASE Saved(accepted) /\ UNCHANGED quiet
             /\ handlers' = [handlers EXCEPT ![h] =
                  [@ EXCEPT !.pc = "answer", !.channels = queued, !.at = 0]]
    <2>1. /\ handlers'[h].pc = "answer" /\ handlers'[h].channels = queued
          /\ handlers'[h].request = request
          /\ \A g \in Handlers : g # h => handlers'[g] = handlers[g]
      BY <1>1, <1>7 DEF HandlerStates, request
    <2>2. Answering \subseteq Answering'
      BY <1>1, <2>1 DEF Answering
    <2>3. {<<request, c>> : c \in queued} \subseteq Answering'
      BY <2>1 DEF Answering
    <2>4. Waiting(stored)' = Waiting(accepted)
      BY <1>7 DEF Saved, Waiting
    <2>5. QED
      BY <1>1, <1>4, <1>6, <1>7, <2>2, <2>3, <2>4
  <1>8. CASE Done(h) /\ quiet' = quiet \cup (Waiting(stored') \ Waiting(stored))
    <2>1. Answering \subseteq Answering'
      BY <1>1, <1>8 DEF Answering, Done
    <2>2. Waiting(stored)' = Waiting(stored')
      BY DEF Waiting
    <2>3. QED
      BY <1>1, <1>6, <1>8, <2>1, <2>2
  <1>9. QED
    BY <1>2, <1>7, <1>8

LEMMA WakeKept ==
  ASSUME IInv, WakeNotLost, [Next]_vars
  PROVE  WakeNotLost'
  <1>1. CASE UNCHANGED vars
    BY <1>1 DEF vars, WakeNotLost, Waiting, Answering
  <1>2. ASSUME NEW h \in Handlers, QueueUnread(h) \/ QueueFull(h) \/ QueueNothing(h)
        PROVE  WakeNotLost'
    <2>1. /\ handlers[h].pc = "queue" /\ Done(h)
          /\ UNCHANGED <<stored, pass, wake, quiet>>
      BY <1>2 DEF QueueUnread, QueueFull, QueueNothing, InQueue
    <2>2. Answering \subseteq Answering'
      BY <2>1 DEF Answering, Done, IInv, TypeOK
    <2>3. QED
      BY <2>1, <2>2 DEF WakeNotLost, Waiting
  <1>3. ASSUME NEW h \in Handlers, Answer(h)
        PROVE  WakeNotLost'
    BY <1>3 DEF Answer, WakeNotLost
  <1>4. ASSUME NEW h \in Handlers, NEW request \in RequestKeys, NEW channels \in SUBSET Channels,
               Request(h, request, channels)
        PROVE  WakeNotLost'
    <2>1. /\ handlers[h].pc = "idle" /\ UNCHANGED <<stored, pass, wake, quiet>>
          /\ \A g \in Handlers : g # h => handlers'[g] = handlers[g]
      BY <1>4 DEF Request, IInv, TypeOK
    <2>2. Answering \subseteq Answering'
      BY <2>1 DEF Answering
    <2>3. QED
      BY <2>1, <2>2 DEF WakeNotLost, Waiting
  <1>5. CASE Woken \/ Timer \/ PassUnread
    <2>1. pass \in PassStates
      BY DEF IInv, TypeOK
    <2>2. pass'.pc = "called" \/ pass'.failed = TRUE
      <3>1. CASE PassUnread
        BY <3>1 DEF PassUnread, IdlePass
      <3>2. CASE Woken \/ Timer
        BY <3>2, <2>1 DEF Woken, Timer, Call, PassStates
      <3>3. QED
        BY <1>5, <3>1, <3>2
    <2>3. QED
      BY <2>2 DEF WakeNotLost
  <1>6. CASE PassNothing
    <2>1. LockFree /\ Loaded.pending = <<>> /\ stored' = stored
      BY <1>6 DEF PassNothing, LockFree
    <2>2. Waiting(stored) = {}
      BY <2>1, LoadedIsSaved, WaitingCopies
    <2>3. QED
      BY <2>1, <2>2 DEF WakeNotLost, Waiting
  <1>7. CASE PassBegin \/ Offer \/ Checkpoint
    <2>1. pass \in PassStates
      BY DEF IInv, TypeOK
    <2>2. CASE PassBegin \/ Checkpoint
      <3>1. pass'.pc = "offer" \/ pass'.failed = TRUE
        <4>1. CASE PassBegin
          <5>1. CASE pass' = IdlePass({}, TRUE)
            BY <5>1 DEF IdlePass
          <5>2. CASE pass' = [pass EXCEPT !.pc = "offer", !.retries = FALSE, !.offered = {},
                                !.left = Len(Expire(Loaded, pass.at).pending)]
            BY <2>1, <5>2 DEF PassStates
          <5>3. QED
            BY <4>1, <5>1, <5>2 DEF PassBegin
        <4>2. CASE Checkpoint
          BY <2>1, <4>2 DEF Checkpoint, IdlePass, PassStates
        <4>3. QED
          BY <2>2, <4>1, <4>2
      <3>2. QED
        BY <3>1 DEF WakeNotLost
    <2>3. CASE Offer
      <3>1. pass'.pc \in {"offer", "checkpoint"}
        BY <2>1, <2>3 DEF Offer, PassStates
      <3>2. QED
        BY <3>1 DEF WakeNotLost
    <2>4. QED
      BY <1>7, <2>2, <2>3
  <1>8. CASE Finish
    BY <1>8, FinishOffersAll DEF WakeNotLost, Waiting
  <1>9. CASE Restart
    BY <1>9 DEF Restart, WakeNotLost
  <1>10. CASE Tick
    BY <1>10 DEF Tick, WakeNotLost, Waiting, Answering
  <1>11. QED
    BY <1>1, <1>2, <1>3, <1>4, <1>5, <1>6, <1>7, <1>8, <1>9, <1>10, QueueKeepsWake
       DEF Next, Handler, Loop

(* When the loop rests with no wake-up due, after a pass that did not fail, *)
(* every copy still waiting was offered by it, or the request that queued   *)
(* it is about to wake the loop or was answered 503.                        *)
THEOREM WakeUpNeverLost == Spec => []WakeNotLost
  <1>1. Init => WakeNotLost
    BY DEF Init, WakeNotLost
  <1>2. QED
    BY <1>1, WakeKept, Invariance, PTL DEF Spec

-----------------------------------------------------------------------------
(* The promise.  It speaks of the saved outbox, which changes only in      *)
(* Saved and NotSaved, and what is saved then was worked out in memory     *)
(* beforehand, against an earlier clock: Ties says how far memory may have *)
(* gone from the ConfigMap by each point of a pass, so that the one write  *)
(* that catches up is one step of the promise, or none.                    *)

(* Keys remembered before are remembered until the same time, or forgotten *)
(* with their time up.                                                     *)
Forgotten(before, after, now) ==
  \A c \in Copies : after[c] = before[c] \/ (after[c] = 0 /\ before[c] <= now)

(* Memory has settled just one entry more than the ConfigMap.              *)
Settled(e) ==
  /\ Range(outbox.pending) = Range(stored.pending) \ {e}
  /\ outbox.seen = [stored.seen EXCEPT ![e.copy] = pass.at + History]
  /\ posts[e.copy] > 0 \/ pass.at - e.queued >= ChannelRetry

Ties ==
  /\ pass.at <= clock /\ \A h \in Handlers : handlers[h].at <= clock
  /\ LockFree /\ outbox # Nil => Forgotten(stored.seen, outbox.seen, clock)
  /\ pass.pc = "offer" =>
       outbox.seen = stored.seen /\ Range(outbox.pending) = Range(stored.pending)
  /\ pass.pc = "checkpoint" => \E e \in Range(stored.pending) : Settled(e)
TInv == IInv /\ Ties

-----------------------------------------------------------------------------
(* What the operations on the queue do to the set of its entries.          *)

LEMMA QueueEntries ==
  ASSUME NEW state \in State
  PROVE  /\ Range(state.pending) \subseteq Entries
         /\ Waiting(state) = {e.copy : e \in Range(state.pending)}
         /\ Once(state.pending) =>
              \A d, e \in Range(state.pending) : d.copy = e.copy => d = e
  BY DEF State, Range, Waiting, Once

LEMMA SettleTakesEntry ==
  ASSUME NEW state \in State, state.pending # <<>>, Once(state.pending), NEW now \in Nat
  PROVE  /\ Head(state.pending) \in Range(state.pending)
         /\ Range(Settle(state, now).pending) = Range(state.pending) \ {Head(state.pending)}
         /\ Settle(state, now).seen =
              [state.seen EXCEPT ![Head(state.pending).copy] = now + History]
  <1> DEFINE settled == Settle(state, now)
             head == Head(state.pending)
  <1>1. /\ settled \in State /\ Once(settled.pending)
        /\ Waiting(settled) = Waiting(state) \ {head.copy}
        /\ \A i \in DOMAIN settled.pending : settled.pending[i] = state.pending[i+1]
    BY SettleTakesHead
  <1>2. /\ DOMAIN state.pending = 1..Len(state.pending) /\ Len(state.pending) \in Nat
        /\ DOMAIN settled.pending = 1..(Len(state.pending) - 1)
        /\ head = state.pending[1] /\ 1 \in DOMAIN state.pending
    <2>1. /\ state.pending \in Seq(Entries) /\ Len(settled.pending) = Len(state.pending) - 1
          /\ DOMAIN settled.pending = 1..Len(settled.pending)
      BY <1>1, SettleTakesHead, WaitingCopies DEF State
    <2>2. QED
      BY <2>1
  <1>3. settled.seen = [state.seen EXCEPT ![head.copy] = now + History]
    BY DEF Settle
  <1> HIDE DEF settled, head
  <1>4. ASSUME NEW i \in DOMAIN settled.pending
        PROVE  settled.pending[i] \in Range(state.pending) \ {head}
    <2>1. i + 1 \in DOMAIN state.pending /\ settled.pending[i] = state.pending[i+1]
      BY <1>1, <1>2
    <2>2. settled.pending[i].copy # head.copy
      BY <1>1 DEF Waiting
    <2>3. QED
      BY <2>1, <2>2 DEF Range
  <1>5. ASSUME NEW i \in DOMAIN state.pending, state.pending[i] # head
        PROVE  state.pending[i] \in Range(settled.pending)
    <2>1. i - 1 \in DOMAIN settled.pending
      BY <1>2, <1>5
    <2>2. settled.pending[i-1] = state.pending[i]
      BY <1>1, <1>2, <2>1
    <2>3. QED
      BY <2>1, <2>2 DEF Range
  <1>6. head \in Range(state.pending)
    BY <1>2 DEF Range
  <1>7. \A e \in Range(settled.pending) : e \in Range(state.pending) \ {head}
    BY <1>4 DEF Range
  <1>8. \A e \in Range(state.pending) : e # head => e \in Range(settled.pending)
    BY <1>5 DEF Range
  <1>9. Range(settled.pending) = Range(state.pending) \ {head}
    BY <1>7, <1>8
  <1>10. QED
    BY <1>3, <1>6, <1>9 DEF settled, head

LEMMA RequeueKeepsEntries ==
  ASSUME NEW state \in State, state.pending # <<>>, Once(state.pending)
  PROVE  Range(Requeue(state).pending) = Range(state.pending)
  <1> DEFINE q == Requeue(state).pending
             p == state.pending
  <1>1. /\ \A i \in 1..(Len(p) - 1) : q[i] = p[i+1]
        /\ q[Len(p)] = Head(p)
        /\ DOMAIN q = DOMAIN p /\ DOMAIN p = 1..Len(p) /\ Len(p) \in Nat /\ Len(p) # 0
    <2>1. Requeue(state) \in State /\ Len(q) = Len(p)
      BY RequeueKeepsAll
    <2>2. QED
      BY <2>1, RequeueKeepsAll, WaitingCopies
  <1>2. Head(p) = p[1]
    BY DEF State
  <1> HIDE DEF q, p
  <1>3. ASSUME NEW i \in DOMAIN q PROVE q[i] \in Range(p)
    <2>1. CASE i = Len(p)
      BY <1>1, <1>2, <2>1 DEF Range
    <2>2. CASE i # Len(p)
      <3>1. i + 1 \in DOMAIN p /\ q[i] = p[i+1]
        BY <1>1, <2>2
      <3>2. QED
        BY <3>1 DEF Range
    <2>3. QED
      BY <2>1, <2>2
  <1>4. ASSUME NEW i \in DOMAIN p PROVE p[i] \in Range(q)
    <2>1. CASE i = 1
      <3>1. Len(p) \in DOMAIN q /\ q[Len(p)] = p[i]
        BY <1>1, <1>2, <2>1
      <3>2. QED
        BY <3>1 DEF Range
    <2>2. CASE i # 1
      <3>1. i - 1 \in DOMAIN q
        BY <1>1, <2>2
      <3>2. q[i-1] = p[i]
        BY <1>1, <2>2, <3>1
      <3>3. QED
        BY <3>1, <3>2 DEF Range
    <2>3. QED
      BY <2>1, <2>2
  <1>5. QED
    BY <1>3, <1>4 DEF Range, q, p
-----------------------------------------------------------------------------
(* Ties holds throughout.                                                  *)

LEMMA InitTies == Init => Ties
  BY DEF Init, Ties, IdlePass, IdleHandler

LEMMA TiesTyped ==
  ASSUME TInv
  PROVE  /\ clock \in Nat /\ pass \in PassStates /\ pass.at \in Nat
         /\ pass.at <= clock /\ stored \in State
         /\ handlers \in [Handlers -> HandlerStates]
         /\ \A h \in Handlers : handlers[h].at \in Nat /\ handlers[h].at <= clock
  BY DEF TInv, Ties, IInv, TypeOK, PassStates, HandlerStates

(* What memory holds with the lock free has forgotten no key early.        *)
LEMMA LoadedForgets ==
  ASSUME TInv, LockFree
  PROVE  Forgotten(stored.seen, Loaded.seen, clock)
  BY DEF TInv, Ties, Loaded, Forgotten

LEMMA ExpireForgetsInTime ==
  ASSUME TInv, LockFree
  PROVE  Forgotten(stored.seen, Expire(Loaded, pass.at).seen, clock)
  <1>1. Loaded \in State /\ stored \in State
    BY LoadedIsSaved DEF TInv
  <1>2. ASSUME NEW c \in Copies
        PROVE  \/ Expire(Loaded, pass.at).seen[c] = Loaded.seen[c]
               \/ Expire(Loaded, pass.at).seen[c] = 0 /\ Loaded.seen[c] <= clock
    <2>1. Expire(Loaded, pass.at).seen[c] =
            IF Loaded.seen[c] <= pass.at THEN 0 ELSE Loaded.seen[c]
      BY <1>1 DEF Expire, State, NotSeen
    <2>2. Loaded.seen[c] \in Nat
      BY <1>1 DEF State
    <2>3. QED
      BY <2>1, <2>2, TiesTyped
  <1>3. QED
    BY <1>1, <1>2, LoadedForgets DEF Forgotten, State

(* Steps that leave the saved outbox alone and the lock free.              *)
LEMMA TiesElsewhere ==
  ASSUME TInv, UNCHANGED <<stored, outbox>>, clock' \in Nat, clock <= clock',
         LockFree, LockFree', pass'.at \in Nat, pass'.at <= clock',
         \A h \in Handlers : handlers'[h].at \in Nat /\ handlers'[h].at <= clock'
  PROVE  Ties'
  <1>1. outbox # Nil => Forgotten(stored.seen, outbox.seen, clock')
    BY TiesTyped DEF TInv, Ties, Forgotten, State
  <1>2. pass'.pc # "offer" /\ pass'.pc # "checkpoint"
    BY DEF LockFree
  <1>3. QED
    BY <1>1, <1>2 DEF Ties, Forgotten

(* Steps that end with memory saved, or forgotten, and the lock free.      *)
LEMMA TiesSaved ==
  ASSUME TInv, clock' = clock, LockFree', pass'.at <= clock,
         outbox' = Nil \/ Forgotten(stored'.seen, outbox'.seen, clock),
         \A h \in Handlers : handlers'[h].at <= clock
  PROVE  Ties'
  <1>1. pass'.pc # "offer" /\ pass'.pc # "checkpoint"
    BY DEF LockFree
  <1>2. QED
    BY <1>1 DEF Ties, Forgotten

LEMMA TiesKept ==
  ASSUME TInv, [Next]_vars
  PROVE  Ties'
  <1> USE DEF TInv
  <1>1. CASE UNCHANGED vars
    BY <1>1 DEF vars, Ties, LockFree, Forgotten, Settled, Range
  <1>2. CASE Tick
    <2>1. CASE LockFree
      BY <1>2, <2>1, TiesTyped, TiesElsewhere DEF Tick, LockFree
    <2>2. CASE ~LockFree
      <3>1. /\ UNCHANGED <<stored, outbox, handlers, pass, posts>> /\ clock' = clock + 1
            /\ ~LockFree'
        BY <1>2, <2>2 DEF Tick, LockFree
      <3>2. pass'.at <= clock' /\ \A h \in Handlers : handlers'[h].at <= clock'
        BY <3>1, TiesTyped
      <3>3. QED
        BY <3>1, <3>2 DEF Ties, Settled, Range
    <2>3. QED
      BY <2>1, <2>2
  <1>3. ASSUME NEW h \in Handlers, NEW request \in RequestKeys, NEW channels \in SUBSET Channels,
               Request(h, request, channels)
        PROVE  Ties'
    <2>1. /\ UNCHANGED <<clock, stored, outbox, pass, posts>>
          /\ \A g \in Handlers : handlers'[g].at \in Nat /\ handlers'[g].at <= clock'
      BY <1>3, TiesTyped DEF Request
    <2>2. QED
      BY <2>1, TiesTyped, ZenonT(60) DEF Ties, LockFree, Forgotten, Settled, Range
  <1>4. ASSUME NEW h \in Handlers, QueueUnread(h) \/ Answer(h)
        PROVE  Ties'
    <2>1. /\ UNCHANGED <<clock, stored, outbox, pass, posts>>
          /\ \A g \in Handlers : handlers'[g].at \in Nat /\ handlers'[g].at <= clock'
      BY <1>4, TiesTyped DEF QueueUnread, Answer, Done, IdleHandler
    <2>2. QED
      BY <2>1, TiesTyped, ZenonT(60) DEF Ties, LockFree, Forgotten, Settled, Range
  <1>5. ASSUME NEW h \in Handlers, QueueFull(h) \/ QueueNothing(h) \/ Queue(h)
        PROVE  Ties'
    <2>1. LockFree /\ LockFree' /\ UNCHANGED <<clock, pass>>
      BY <1>5 DEF QueueFull, QueueNothing, Queue, InQueue, LockFree
    <2>2. \A g \in Handlers : handlers'[g].at <= clock
      <3>1. \/ Done(h)
            \/ \E queued : handlers' = [handlers EXCEPT ![h] =
                 [@ EXCEPT !.pc = "answer", !.channels = queued, !.at = 0]]
        BY <1>5 DEF QueueFull, QueueNothing, Queue
      <3>2. handlers[h] \in HandlerStates /\ clock \in Nat
        BY TiesTyped
      <3>3. \A g \in Handlers : g # h => handlers'[g] = handlers[g]
        BY <3>1, TiesTyped DEF Done
      <3>4. handlers'[h].at = 0
        <4>1. CASE Done(h)
          BY <4>1, TiesTyped DEF Done, IdleHandler
        <4>2. ASSUME NEW queued,
                     handlers' = [handlers EXCEPT ![h] =
                       [@ EXCEPT !.pc = "answer", !.channels = queued, !.at = 0]]
              PROVE  handlers'[h].at = 0
          BY <3>2, <4>2, TiesTyped DEF HandlerStates
        <4>3. QED
          BY <3>1, <4>1, <4>2
      <3>5. QED
        BY <3>2, <3>3, <3>4, TiesTyped
    <2>3. outbox' = Nil \/ Forgotten(stored'.seen, outbox'.seen, clock)
      <3>1. CASE QueueFull(h) \/ QueueNothing(h)
        BY <2>1, <3>1, LoadedForgets DEF QueueFull, QueueNothing
      <3>2. CASE Queue(h)
        BY <3>2 DEF Queue, Saved, NotSaved, Forgotten
      <3>3. QED
        BY <1>5, <3>1, <3>2
    <2>4. QED
      BY <2>1, <2>2, <2>3, TiesTyped, TiesSaved
  <1>6. CASE Woken \/ Timer \/ PassUnread
    <2>1. /\ LockFree /\ LockFree' /\ UNCHANGED <<clock, stored, outbox, handlers>>
          /\ pass'.at \in {clock, 0}
      <3>1. CASE PassUnread
        BY <3>1 DEF PassUnread, IdlePass, LockFree
      <3>2. CASE Woken \/ Timer
        BY <3>2, TiesTyped DEF Woken, Timer, Call, LockFree, PassStates
      <3>3. QED
        BY <1>6, <3>1, <3>2
    <2>2. QED
      BY <2>1, TiesTyped, TiesElsewhere
  <1>7. CASE PassNothing
    <2>1. /\ LockFree /\ LockFree' /\ UNCHANGED <<clock, stored, handlers>>
          /\ pass'.at = 0 /\ outbox' = Expire(Loaded, pass.at)
      BY <1>7 DEF PassNothing, IdlePass, LockFree
    <2>2. QED
      BY <2>1, TiesTyped, ExpireForgetsInTime, TiesSaved
  <1>8. CASE PassBegin
    <2>1. UNCHANGED <<clock, handlers>>
      BY <1>8 DEF PassBegin
    <2>2. CASE /\ Saved(Expire(Loaded, pass.at))
               /\ pass' = [pass EXCEPT !.pc = "offer", !.retries = FALSE, !.offered = {},
                             !.left = Len(Expire(Loaded, pass.at).pending)]
      <3>1. stored' = outbox' /\ pass'.pc = "offer" /\ pass'.at = pass.at
        BY <2>2, TiesTyped DEF Saved, PassStates
      <3>2. QED
        BY <2>1, <3>1, TiesTyped DEF Ties, LockFree, Range
    <2>3. CASE NotSaved(Expire(Loaded, pass.at)) /\ pass' = IdlePass({}, TRUE)
      <3>1. LockFree' /\ pass'.at = 0 /\ outbox' = Nil
        BY <2>3 DEF NotSaved, IdlePass, LockFree
      <3>2. QED
        BY <2>1, <3>1, TiesTyped, TiesSaved
    <2>4. QED
      BY <1>8, <2>2, <2>3 DEF PassBegin
  <1>9. CASE Checkpoint \/ Finish
    <2>1. UNCHANGED <<clock, handlers, posts>>
      BY <1>9 DEF Checkpoint, Finish
    <2>2. CASE Saved(outbox) /\ pass' = [pass EXCEPT !.pc = "offer"]
      <3>1. stored' = outbox' /\ pass'.pc = "offer" /\ pass'.at = pass.at
        BY <2>2, TiesTyped DEF Saved, PassStates
      <3>2. QED
        BY <2>1, <3>1, TiesTyped DEF Ties, LockFree, Range
    <2>3. CASE /\ outbox' = Nil \/ outbox' = stored'
               /\ \E failed \in BOOLEAN : pass' = IdlePass(pass.offered, failed)
      <3>1. LockFree' /\ pass'.at = 0
        BY <2>3 DEF IdlePass, LockFree
      <3>2. QED
        BY <2>1, <2>3, <3>1, TiesTyped, TiesSaved DEF Forgotten
    <2>4. CASE pass.pc = "offer" /\ ~pass.retries /\ UNCHANGED <<stored, outbox>>
               /\ pass' = IdlePass(pass.offered, FALSE)
      BY <2>3, <2>4 DEF IInv, UnsavedOnlyRetries
    <2>5. QED
      BY <1>9, <2>2, <2>3, <2>4 DEF Checkpoint, Finish, Saved, NotSaved
  <1>10. CASE Offer
    <2> DEFINE entry == Head(outbox.pending)
    <2>1. /\ pass.pc = "offer" /\ pass.left > 0 /\ ~LockFree
          /\ UNCHANGED <<clock, stored, handlers>>
      BY <1>10 DEF Offer, LockFree
    <2>2. /\ outbox \in State /\ Distinct(outbox) /\ outbox.pending # <<>>
          /\ outbox.seen = stored.seen /\ Range(outbox.pending) = Range(stored.pending)
          /\ entry \in Range(stored.pending) /\ entry.copy \in Copies
          /\ posts \in [Copies -> Nat]
      <3>1. outbox \in State /\ Distinct(outbox)
        BY <2>1, PassOutbox
      <3>2. pass.left <= Len(outbox.pending)
        BY <2>1 DEF IInv, OffersEachOnce
      <3>3. outbox.pending # <<>>
        BY <2>1, <3>1, <3>2, TiesTyped, WaitingCopies DEF PassStates
      <3>4. outbox.seen = stored.seen /\ Range(outbox.pending) = Range(stored.pending)
        BY <2>1 DEF Ties
      <3>5. entry \in Range(outbox.pending) /\ entry \in Entries
        BY <3>1, <3>3, TiesTyped, SettleTakesEntry, SettleTakesHead DEF Distinct
      <3>6. QED
        BY <3>1, <3>3, <3>4, <3>5 DEF Entries, IInv, TypeOK
    <2>3. PICK sent \in BOOLEAN :
            /\ Publish(entry.copy, sent)
            /\ \/ /\ KeepsTrying(entry, sent, pass.at)
                  /\ outbox' = Requeue(outbox)
                  /\ pass' = [[pass EXCEPT !.left = @ - 1, !.offered = @ \cup {entry.copy}]
                                EXCEPT !.retries = TRUE]
               \/ /\ ~KeepsTrying(entry, sent, pass.at)
                  /\ outbox' = Settle(outbox, pass.at)
                  /\ pass' = [[pass EXCEPT !.left = @ - 1, !.offered = @ \cup {entry.copy}]
                                EXCEPT !.pc = "checkpoint"]
      BY <1>10 DEF Offer
    <2>4. CASE outbox' = Requeue(outbox) /\
               pass' = [[pass EXCEPT !.left = @ - 1, !.offered = @ \cup {entry.copy}]
                          EXCEPT !.retries = TRUE]
      <3>1. pass'.pc = "offer" /\ pass'.at = pass.at
        <4> HIDE DEF entry
        <4>1. QED
          BY <2>1, <2>4, TiesTyped DEF PassStates
      <3>2. outbox'.seen = stored.seen /\ Range(outbox'.pending) = Range(stored.pending)
        BY <2>2, <2>4, RequeueKeepsEntries, RequeueKeepsAll DEF Distinct
      <3>3. QED
        BY <2>1, <3>1, <3>2, TiesTyped DEF Ties, LockFree, Range
    <2>5. CASE ~KeepsTrying(entry, sent, pass.at) /\ outbox' = Settle(outbox, pass.at) /\
               pass' = [[pass EXCEPT !.left = @ - 1, !.offered = @ \cup {entry.copy}]
                          EXCEPT !.pc = "checkpoint"]
      <3>1. pass'.pc = "checkpoint" /\ pass'.at = pass.at
        <4> HIDE DEF entry
        <4>1. QED
          BY <2>5, TiesTyped DEF PassStates
      <3>2. /\ Range(outbox'.pending) = Range(stored.pending) \ {entry}
            /\ outbox'.seen = [stored.seen EXCEPT ![entry.copy] = pass.at + History]
        BY <2>2, <2>5, TiesTyped, SettleTakesEntry DEF Distinct
      <3>3. posts'[entry.copy] > 0 \/ pass.at - entry.queued >= ChannelRetry
        <4>1. CASE sent
          <5> HIDE DEF entry
          <5>1. posts' = [posts EXCEPT ![entry.copy] = @ + 1]
            BY <2>3, <4>1 DEF Publish
          <5>2. QED
            BY <2>2, <5>1
        <4>2. CASE ~sent
          <5>1. ~(pass.at - entry.queued < ChannelRetry)
            BY <2>5, <4>2 DEF KeepsTrying
          <5>2. entry.queued \in Nat /\ ChannelRetry \in Nat
            BY <2>2, QueueEntries, TiesTyped, OutboxAssumption DEF Entries
          <5> HIDE DEF entry
          <5>3. QED
            BY <5>1, <5>2, TiesTyped
        <4>3. QED
          BY <4>1, <4>2
      <3>4. PICK e \in Range(stored.pending) : e = entry
        BY <2>2
      <3> HIDE DEF entry
      <3>5. Settled(e)'
        <4>1. Range(outbox.pending)' = Range(stored.pending) \ {e}
          BY <3>2, <3>4 DEF Range
        <4>2. Range(stored.pending)' = Range(stored.pending)
          BY <2>1 DEF Range
        <4>3. QED
          BY <2>1, <3>1, <3>2, <3>3, <3>4, <4>1, <4>2 DEF Settled
      <3>6. Range(stored.pending)' = Range(stored.pending)
        BY <2>1 DEF Range
      <3>7. QED
        BY <2>1, <3>1, <3>5, <3>6, TiesTyped DEF Ties, LockFree
    <2>6. QED
      BY <2>3, <2>4, <2>5
  <1>11. CASE Restart
    <2>1. LockFree' /\ pass'.at = 0 /\ outbox' = Nil /\ clock' = clock
          /\ \A h \in Handlers : handlers'[h].at = 0
      BY <1>11 DEF Restart, IdlePass, IdleHandler, LockFree
    <2>2. QED
      BY <2>1, TiesTyped, TiesSaved
  <1>12. QED
    BY <1>1, <1>2, <1>3, <1>4, <1>5, <1>6, <1>7, <1>8, <1>9, <1>10, <1>11
       DEF Next, Handler, Loop
-----------------------------------------------------------------------------
(* Each write of the ConfigMap is one step of the promise, or none.        *)

(* A write that changes no entry, and forgets only keys whose time is up.  *)
LEMMA OnlyForgets ==
  ASSUME UNCHANGED <<clock, posts>>,
         Range(stored'.pending) = Range(stored.pending),
         Forgotten(stored.seen, stored'.seen, clock)
  PROVE  [Promise!Next]_(Promise!promise)
  <1>1. Range(stored.pending)' = Range(stored.pending)
    BY DEF Range
  <1>2. CASE stored'.seen = stored.seen
    BY <1>1, <1>2 DEF Promise!promise
  <1>3. CASE stored'.seen # stored.seen
    BY <1>1, <1>3 DEF Promise!Next, Promise!Forget, Promise!Forgets, Forgotten
  <1>4. QED
    BY <1>2, <1>3

(* The write that has a request's copies.                                  *)
LEMMA SavesAccepted ==
  ASSUME TInv, LockFree, UNCHANGED clock,
         NEW h \in Handlers, handlers[h].pc = "queue", QueuedFor(h) # {},
         NEW order \in Orders(QueuedFor(h)),
         stored' = Accept(Loaded, handlers[h].request, order, handlers[h].at),
         posts' = NewPosts
  PROVE  Promise!Accept
  <1> DEFINE request == handlers[h].request
             channels == handlers[h].channels
             queued == QueuedFor(h)
             now == handlers[h].at
  <1>1. /\ request \in RequestKeys /\ channels \in SUBSET Channels /\ now \in Nat /\ now <= clock
        /\ queued = Unqueued(Loaded, request, channels)
    BY TiesTyped DEF HandlerStates, QueuedFor
  <1>2. /\ Loaded \in State /\ Distinct(Loaded) /\ stored \in State
        /\ Loaded.pending = stored.pending /\ Waiting(Loaded) = Waiting(stored)
    BY LoadedIsSaved DEF TInv
  <1> HIDE DEF request, channels, queued, now
  <1>3. stored' = Accept(Loaded, request, order, now)
    BY DEF request, now
  <1>4. order \in Orders(Unqueued(Loaded, request, channels))
    BY <1>1 DEF queued
  <1>5. /\ stored' \in State /\ stored'.seen = Loaded.seen /\ Once(stored'.pending)
        /\ Waiting(stored') = Waiting(stored) \cup {<<request, c>> : c \in queued}
        /\ \A i \in DOMAIN stored.pending :
             i \in DOMAIN stored'.pending /\ stored'.pending[i] = stored.pending[i]
        /\ \A i \in DOMAIN stored'.pending \ DOMAIN stored.pending :
             stored'.pending[i].queued = now
    <2> HIDE DEF Accept
    <2>1. /\ stored' \in State /\ stored'.seen = Loaded.seen /\ Once(stored'.pending)
          /\ Waiting(stored') = Waiting(stored) \cup {<<request, c>> : c \in queued}
          /\ Cardinality(queued) \in Nat
          /\ Len(stored'.pending) = Len(stored.pending) + Cardinality(queued)
          /\ \A i \in DOMAIN stored.pending : stored'.pending[i] = stored.pending[i]
          /\ \A i \in DOMAIN stored'.pending \ DOMAIN stored.pending :
               stored'.pending[i].queued = now
      BY <1>1, <1>2, <1>3, <1>4, AcceptAdds DEF Distinct
    <2>2. \A i \in DOMAIN stored.pending : i \in DOMAIN stored'.pending
      BY <1>2, <2>1, WaitingCopies
    <2>3. QED
      BY <2>1, <2>2
  <1>6. Distinct(stored')
    BY <1>1, <1>2, <1>3, <1>4, AcceptDistinct
  <1>7. Range(stored.pending)' = Range(stored'.pending)
    BY DEF Range
  <1> DEFINE before == Range(stored.pending)
             after == Range(stored'.pending)
  <1>8. before \subseteq after
    BY <1>5 DEF Range
  <1>9. ASSUME NEW e \in after \ before
        PROVE  /\ e.copy \in Copies \ Waiting(stored) /\ stored'.seen[e.copy] = 0
               /\ e.queued <= clock /\ e.copy \in Waiting(stored')
    <2>1. PICK i \in DOMAIN stored'.pending : e = stored'.pending[i]
      BY DEF Range
    <2>2. i \notin DOMAIN stored.pending
      BY <1>5, <2>1 DEF Range
    <2>3. e.copy \in Waiting(stored')
      BY <2>1 DEF Waiting
    <2>4. e.copy \notin Waiting(stored)
      BY <1>5, <2>1, <2>2 DEF Waiting, Once
    <2>5. e.copy \in Copies
      BY <1>5, <2>3, WaitingCopies
    <2>6. stored'.seen[e.copy] = 0
      BY <1>6, <2>3, <2>5 DEF Distinct, Remembered, NotSeen
    <2>7. QED
      BY <1>1, <1>5, <2>1, <2>2, <2>3, <2>4, <2>5, <2>6
  <1>10. Promise!Owed = Waiting(stored)
    BY <1>2, QueueEntries DEF Promise!Owed
  <1>11. after # before
    <2>1. PICK c \in queued : TRUE
      BY DEF queued
    <2>2. <<request, c>> \in Waiting(stored') /\ <<request, c>> \notin Waiting(stored)
      BY <1>1, <1>2, <1>5, <2>1 DEF Unqueued
    <2>3. QED
      BY <1>2, <1>5, <2>2, QueueEntries
  <1>12. Promise!Forgets(stored'.seen)
    BY <1>5, LoadedForgets DEF Promise!Forgets, Forgotten
  <1>13. posts' = [c \in Copies |-> IF \E e \in after \ before : e.copy = c THEN 0 ELSE posts[c]]
    <2>1. \A c \in Copies :
            (\E e \in after \ before : e.copy = c) <=> c \in Waiting(stored') \ Waiting(stored)
      <3>1. Waiting(stored') = {e.copy : e \in after} /\ Waiting(stored) = {e.copy : e \in before}
        BY <1>2, <1>5, QueueEntries
      <3>2. QED
        BY <1>9, <3>1
    <2>2. QED
      BY <2>1 DEF NewPosts
  <1>14. QED
    BY <1>7, <1>8, <1>9, <1>10, <1>11, <1>12, <1>13 DEF Promise!Accept

(* The checkpoint of a copy that is done.                                  *)
LEMMA SavesSettled ==
  ASSUME TInv, pass.pc = "checkpoint", UNCHANGED <<clock, posts>>, stored' = outbox
  PROVE  Promise!Next
  <1>1. PICK e \in Range(stored.pending) : Settled(e)
    BY DEF TInv, Ties
  <1>2. e.copy \in Copies /\ e.queued \in Nat
    BY <1>1, TiesTyped, QueueEntries DEF Entries
  <1>3. posts[e.copy] > 0 \/ clock - e.queued >= ChannelRetry
    BY <1>1, <1>2, TiesTyped, OutboxAssumption DEF Settled
  <1>4. /\ Range(stored.pending)' = Range(stored.pending) \ {e}
        /\ stored'.seen = [stored.seen EXCEPT ![e.copy] = pass.at + History]
    BY <1>1 DEF Settled, Range
  <1>5. stored'.seen[e.copy] = pass.at + History
    BY <1>2, <1>4, TiesTyped DEF State
  <1>6. stored'.seen[e.copy] \in 1..(clock + History)
    BY <1>5, TiesTyped, OutboxAssumption
  <1>7. Promise!Discharge(e)
    BY <1>1, <1>3, <1>4, <1>5, <1>6 DEF Promise!Discharge
  <1>8. QED
    BY <1>1, <1>7 DEF Promise!Next

(* A publication.                                                          *)
LEMMA PostsOwed ==
  ASSUME TInv, Offer
  PROVE  [Promise!Next]_(Promise!promise)
  <1> DEFINE copy == Head(outbox.pending).copy
  <1>1. /\ pass.pc = "offer" /\ pass.left > 0 /\ ~LockFree /\ UNCHANGED <<clock, stored>>
        /\ posts' = posts \/ posts' = [posts EXCEPT ![copy] = @ + 1]
    BY DEF Offer, Publish, LockFree
  <1>2. copy \in Waiting(stored)
    <2>1. /\ outbox \in State /\ Distinct(outbox) /\ pass.left <= Len(outbox.pending)
          /\ Waiting(outbox) = Waiting(stored)
      BY <1>1, PassOutbox DEF TInv, IInv, OffersEachOnce, CheckpointKeepsOthers
    <2>2. outbox.pending # <<>>
      BY <1>1, <2>1, TiesTyped, WaitingCopies DEF PassStates
    <2>3. QED
      BY <2>1, <2>2, TiesTyped, SettleTakesHead DEF Distinct
  <1>3. Promise!Owed = Waiting(stored)
    BY TiesTyped, QueueEntries DEF Promise!Owed
  <1>4. Range(stored.pending)' = Range(stored.pending)
    BY <1>1 DEF Range
  <1> HIDE DEF copy
  <1>5. CASE posts' = posts
    BY <1>1, <1>4, <1>5 DEF Promise!promise
  <1>6. CASE posts' = [posts EXCEPT ![copy] = @ + 1]
    <2>1. Promise!Post(copy)
      BY <1>1, <1>2, <1>3, <1>4, <1>6 DEF Promise!Post
    <2>2. copy \in Copies
      BY <1>2, TiesTyped, WaitingCopies
    <2>3. QED
      BY <2>1, <2>2 DEF Promise!Next
  <1>7. QED
    BY <1>1, <1>5, <1>6

LEMMA StepKeepsPromise ==
  ASSUME TInv, [Next]_vars
  PROVE  [Promise!Next]_(Promise!promise)
  <1>1. CASE UNCHANGED <<clock, stored, posts>>
    <2>1. Range(stored.pending)' = Range(stored.pending)
      BY <1>1 DEF Range
    <2>2. QED
      BY <1>1, <2>1 DEF Promise!promise
  <1>2. CASE Tick
    <2>1. Range(stored.pending)' = Range(stored.pending)
      BY <1>2 DEF Tick, Range
    <2>2. QED
      BY <1>2, <2>1 DEF Tick, Promise!Next, Promise!Tick
  <1>3. ASSUME NEW h \in Handlers, Queue(h)
        PROVE  [Promise!Next]_(Promise!promise)
    <2>1. PICK order \in Orders(QueuedFor(h)) :
            LET accepted == Accept(Loaded, handlers[h].request, order, handlers[h].at)
            IN  stored' = accepted \/ stored' = stored
      BY <1>3 DEF Queue, Saved, NotSaved
    <2>2. /\ LockFree /\ UNCHANGED clock /\ handlers[h].pc = "queue" /\ QueuedFor(h) # {}
          /\ posts' = NewPosts
      BY <1>3 DEF Queue, InQueue
    <2>3. CASE stored' = stored
      BY <1>1, <2>2, <2>3 DEF NewPosts, TInv, IInv, TypeOK
    <2>4. CASE stored' = Accept(Loaded, handlers[h].request, order, handlers[h].at)
      <3>1. Promise!Accept
        BY <2>2, <2>4, SavesAccepted
      <3>2. QED
        BY <3>1 DEF Promise!Next
    <2>5. QED
      BY <2>1, <2>3, <2>4
  <1>4. CASE PassBegin
    <2>1. /\ LockFree /\ UNCHANGED <<clock, posts>>
          /\ stored' = stored \/ stored' = Expire(Loaded, pass.at)
      BY <1>4 DEF PassBegin, Saved, NotSaved, LockFree
    <2>2. CASE stored' = Expire(Loaded, pass.at)
      <3>1. stored'.pending = stored.pending
        BY <2>1, <2>2, LoadedIsSaved, ExpireForgets, TiesTyped DEF TInv
      <3>2. QED
        BY <2>1, <2>2, <3>1, ExpireForgetsInTime, OnlyForgets
    <2>3. QED
      BY <1>1, <2>1, <2>2
  <1>5. CASE Offer
    BY <1>5, PostsOwed
  <1>6. CASE Checkpoint
    <2>1. /\ pass.pc = "checkpoint" /\ UNCHANGED <<clock, posts>>
          /\ stored' = outbox \/ stored' = stored
      BY <1>6 DEF Checkpoint, Saved, NotSaved
    <2>2. QED
      BY <1>1, <2>1, SavesSettled
  <1>7. CASE Finish
    <2>1. /\ pass.pc = "offer" /\ UNCHANGED <<clock, posts>>
          /\ stored' = outbox \/ stored' = stored
      BY <1>7 DEF Finish, Saved, NotSaved
    <2>2. outbox.seen = stored.seen /\ Range(outbox.pending) = Range(stored.pending)
      BY <2>1 DEF TInv, Ties
    <2>3. QED
      BY <1>1, <2>1, <2>2, OnlyForgets DEF Forgotten
  <1>8. QED
    <2>1. CASE UNCHANGED vars
      BY <1>1, <2>1 DEF vars
    <2>2. CASE \E h \in Handlers : QueueUnread(h) \/ QueueFull(h) \/ QueueNothing(h) \/ Answer(h)
      BY <1>1, <2>2 DEF QueueUnread, QueueFull, QueueNothing, Answer
    <2>3. CASE \E h \in Handlers, request \in RequestKeys, channels \in SUBSET Channels :
                 Request(h, request, channels)
      BY <1>1, <2>3 DEF Request
    <2>4. CASE Woken \/ Timer \/ PassUnread \/ PassNothing \/ Restart
      BY <1>1, <2>4 DEF Woken, Timer, PassUnread, PassNothing, Restart
    <2>5. QED
      BY <1>2, <1>3, <1>4, <1>5, <1>6, <1>7, <2>1, <2>2, <2>3, <2>4 DEF Next, Handler, Loop

(* The service keeps the promise: an accepted copy is owed until it has    *)
(* reached its channel or could not for ChannelRetry, only then is its key *)
(* remembered, and a remembered key is not accepted again before its time. *)
THEOREM PromiseKept == Spec => KeepsPromise
  <1>1. Init => Promise!Init
    BY DEF Init, Promise!Init, EmptyOutbox, NotSeen, Range
  <1>2. Init => TInv
    BY InitIInv, InitTies DEF TInv
  <1>3. TInv /\ [Next]_vars => [Promise!Next]_(Promise!promise)
    BY StepKeepsPromise
  <1>4. Spec => []Ties
    <2>1. IInv /\ Ties /\ [Next]_vars => Ties'
      BY TiesKept DEF TInv
    <2>2. QED
      BY <2>1, InitTies, Invariance, PTL DEF Spec
  <1>5. Spec => []TInv
    BY <1>4, Invariance, PTL DEF TInv
  <1>6. QED
    BY <1>1, <1>3, <1>5, PTL DEF Spec, KeepsPromise, Promise!Spec
=============================================================================
