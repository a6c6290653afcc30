----------------------------- MODULE ApartProofs -----------------------------
(***************************************************************************)
(* What four parts that share nothing promise: the host's heartbeat, the   *)
(* rate limit, the backups and the platform checks, for any number of      *)
(* requests, watched jobs, Jobs of a backup, faults, runs and restarts.    *)
(*                                                                         *)
(* The rate limit: a time is dropped only when it is RateSeconds old, and  *)
(* one still to be counted is at most MaxDelay behind the clock, so counts *)
(* RateCount or more apart in order are RateSeconds - MaxDelay apart in    *)
(* time.                                                                   *)
(*                                                                         *)
(* The heartbeat: its flags say of each job what the operator heard last,  *)
(* but for the jobs that a fault led astray.  Each of those may send one   *)
(* notice out of turn, after which its flag is right again.                *)
(*                                                                         *)
(* The backups: a record is put only by a pod whose own archive the bucket *)
(* took under that stamp, and no object is replaced.                       *)
(*                                                                         *)
(* The checks: a read that is called for stays called for, so a report     *)
(* goes by exactly the facts its judge needs, or lacks one and says so.    *)
(***************************************************************************)
EXTENDS MCApart, Numbers

-----------------------------------------------------------------------------
(* The rate limit.                                                         *)

Dropped == Len(counted) - Len(sent)

(* Times are kept in the order of their counting; what is no longer kept   *)
(* is RateSeconds old.                                                     *)
RateInv ==
  /\ second \in Nat /\ sent \in Seq(Int) /\ counted \in Seq(Int)
  /\ arrived \in [Handlers -> Int]
  /\ \A h \in Handlers : arrived[h] # Rate!NotArrived =>
       arrived[h] <= second /\ second - arrived[h] <= MaxDelay
  /\ Dropped \in Nat
  /\ \A k \in DOMAIN sent : sent[k] = counted[Dropped + k]
  /\ \A i \in 1 .. Dropped : counted[i] + RateSeconds <= second
  /\ \A i, j \in DOMAIN counted : j - i >= RateCount => counted[j] - counted[i] >= RateSeconds - MaxDelay

(* What is dropped of a list is the part before some place in it, and old. *)
LEMMA RecentIsSuffix ==
  ASSUME NEW times \in Seq(Int), NEW at \in Int
  PROVE  \E d \in 0 .. Len(times) :
           /\ Rate!Recent(times, at) \in Seq(Int)
           /\ Len(Rate!Recent(times, at)) = Len(times) - d
           /\ \A k \in 1 .. Len(times) - d : Rate!Recent(times, at)[k] = times[d + k]
           /\ \A k \in 1 .. d : times[k] <= at - RateSeconds
PROOF
  <1> DEFINE kept == {i \in DOMAIN times : times[i] > at - RateSeconds}
  <1>0. Rate!Recent(times, at) = IF kept = {} THEN <<>> ELSE SubSeq(times, Min(kept), Len(times))
    BY DEF Rate!Recent, Rate!Min, Min
  <1>1. RateSeconds \in Nat /\ Len(times) \in Nat /\ DOMAIN times = 1 .. Len(times)
    BY RateAssumption
  <1>2. CASE kept = {}
    <2>1. Rate!Recent(times, at) = <<>>
      BY <1>0, <1>2
    <2>2. \A k \in 1 .. Len(times) : times[k] <= at - RateSeconds
      BY <1>1, <1>2
    <2>3. Len(times) \in 0 .. Len(times)
      BY <1>1
    <2>4. /\ Rate!Recent(times, at) \in Seq(Int)
          /\ Len(Rate!Recent(times, at)) = Len(times) - Len(times)
          /\ \A k \in 1 .. Len(times) - Len(times) : Rate!Recent(times, at)[k] = times[Len(times) + k]
      BY <1>1, <2>1
    <2>5. QED
      BY <2>2, <2>3, <2>4
  <1>3. CASE kept # {}
    <2>1. kept \in SUBSET (0 .. Len(times)) /\ kept \subseteq 1 .. Len(times)
      BY <1>1
    <2>2. PICK m \in 1 .. Len(times) : m = Min(kept) /\ m \in kept /\ \A n \in kept : m <= n
      <3> HIDE DEF kept
      <3>1. Min(kept) \in kept /\ \A n \in kept : Min(kept) <= n
        BY <1>1, <1>3, <2>1, MinAndMax
      <3>2. QED
        BY <2>1, <3>1
    <2>3. m - 1 \in 0 .. Len(times)
      BY <1>1
    <2>4. Rate!Recent(times, at) = SubSeq(times, m, Len(times))
      BY <1>0, <1>3, <2>2
    <2>5. /\ SubSeq(times, m, Len(times)) \in Seq(Int)
          /\ Len(SubSeq(times, m, Len(times))) = Len(times) - (m - 1)
          /\ \A k \in 1 .. Len(times) - (m - 1) : SubSeq(times, m, Len(times))[k] = times[(m - 1) + k]
      OBVIOUS
    <2>6. \A k \in 1 .. m - 1 : times[k] <= at - RateSeconds
      <3> SUFFICES ASSUME NEW k \in 1 .. m - 1
                   PROVE  times[k] <= at - RateSeconds
        OBVIOUS
      <3>1. k \in 1 .. Len(times) /\ k < m
        BY <1>1
      <3>2. k \notin kept
        <4> HIDE DEF kept
        <4>1. QED
          BY <2>2, <3>1
      <3>3. QED
        BY <1>1, <3>1, <3>2
    <2>7. QED
      BY <2>3, <2>4, <2>5, <2>6
  <1>4. QED
    BY <1>2, <1>3

LEMMA RateInit == Rate!Init => RateInv
PROOF
  <1> SUFFICES ASSUME Rate!Init PROVE RateInv
    OBVIOUS
  <1>1. second = 0 /\ sent = <<>> /\ counted = <<>> /\ arrived = [h \in Handlers |-> -1]
    BY DEF Rate!Init, Rate!NotArrived
  <1>2. QED
    BY <1>1 DEF RateInv, Dropped, Rate!NotArrived

(* The request's time is at most MaxDelay behind the clock, and so behind  *)
(* whatever was dropped before.                                            *)
LEMMA TakeStep ==
  ASSUME RateInv, NEW h \in Handlers, Rate!Take(h)
  PROVE  RateInv'
PROOF
  <1> DEFINE at == arrived[h]
             times == Rate!Recent(sent, at)
  <1>1. /\ at \in Int /\ at <= second /\ second - at <= MaxDelay /\ second' = second
        /\ arrived' = [arrived EXCEPT ![h] = Rate!NotArrived]
        /\ \/ sent' = times /\ counted' = counted
           \/ Len(times) < RateCount /\ sent' = Append(times, at) /\ counted' = Append(counted, at)
    <2>1. at \in Int /\ at <= second /\ second - at <= MaxDelay /\ second' = second
          /\ arrived' = [arrived EXCEPT ![h] = Rate!NotArrived]
      BY DEF RateInv, Rate!Take, Rate!NotArrived
    <2>2. /\ Len(times) >= RateCount => sent' = times /\ counted' = counted
          /\ ~(Len(times) >= RateCount) => sent' = Append(times, at) /\ counted' = Append(counted, at)
      BY DEF Rate!Take
    <2>3. times \in Seq(Int)
      <3>1. sent \in Seq(Int)
        BY DEF RateInv
      <3> HIDE DEF times
      <3>2. PICK d \in 0 .. Len(sent) : Rate!Recent(sent, at) \in Seq(Int)
        BY <2>1, <3>1, RecentIsSuffix
      <3>3. QED
        BY <3>2 DEF times
    <2>4. QED
      BY <2>1, <2>2, <2>3, RateAssumption
  <1>2. sent \in Seq(Int) /\ counted \in Seq(Int) /\ second \in Nat
    BY DEF RateInv
  <1>3. PICK d \in 0 .. Len(sent) :
           /\ times \in Seq(Int)
           /\ Len(times) = Len(sent) - d
           /\ \A k \in 1 .. Len(sent) - d : times[k] = sent[d + k]
           /\ \A k \in 1 .. d : sent[k] <= at - RateSeconds
    BY <1>1, <1>2, RecentIsSuffix
  <1> HIDE DEF times
  <1>4. /\ Len(sent) \in Nat /\ Len(counted) \in Nat /\ Dropped \in Nat /\ Dropped + Len(sent) = Len(counted)
        /\ DOMAIN sent = 1 .. Len(sent) /\ DOMAIN counted = 1 .. Len(counted)
    BY <1>2 DEF RateInv, Dropped
  <1>0. d \in Nat /\ d <= Len(sent) /\ Len(times) \in Nat /\ Len(times) = Len(sent) - d /\ DOMAIN times = 1 .. Len(times)
    <2>1. times \in Seq(Int) /\ Len(times) = Len(sent) - d
      BY <1>3
    <2>2. QED
      BY <1>4, <2>1
  <1>5. \A k \in DOMAIN times : times[k] = counted[Dropped + d + k]
    <2> SUFFICES ASSUME NEW k \in DOMAIN times
                 PROVE  times[k] = counted[Dropped + d + k]
      OBVIOUS
    <2>1. k \in 1 .. Len(sent) - d /\ d + k \in DOMAIN sent
      BY <1>0, <1>4
    <2>2. times[k] = sent[d + k] /\ sent[d + k] = counted[Dropped + (d + k)]
      BY <1>3, <2>1 DEF RateInv
    <2>3. QED
      BY <1>4, <2>1, <2>2
  <1>6. \A i \in 1 .. Dropped + d : counted[i] + RateSeconds <= second
    <2> SUFFICES ASSUME NEW i \in 1 .. Dropped + d
                 PROVE  counted[i] + RateSeconds <= second
      OBVIOUS
    <2>1. CASE i <= Dropped
      BY <1>4, <2>1 DEF RateInv
    <2>2. CASE i > Dropped
      <3>1. i - Dropped \in 1 .. d /\ i - Dropped \in DOMAIN sent /\ i \in DOMAIN counted
        BY <1>4, <2>2
      <3>2. sent[i - Dropped] = counted[Dropped + (i - Dropped)] /\ sent[i - Dropped] <= at - RateSeconds
        BY <1>3, <3>1 DEF RateInv
      <3>3. counted[i] <= at - RateSeconds /\ counted[i] \in Int
        BY <1>2, <1>4, <3>1, <3>2
      <3>4. QED
        BY <1>1, <1>2, <3>3, RateAssumption, SMTT(30)
    <2>3. QED
      BY <1>4, <2>1, <2>2
  <1>7. /\ arrived' \in [Handlers -> Int]
        /\ \A g \in Handlers : arrived'[g] # Rate!NotArrived => arrived'[g] <= second' /\ second' - arrived'[g] <= MaxDelay
    BY <1>1 DEF RateInv, Rate!NotArrived
  <1>8. CASE sent' = times /\ counted' = counted
    <2>1. Dropped' = Dropped + d
      BY <1>0, <1>4, <1>8 DEF Dropped
    <2>2. sent' \in Seq(Int) /\ counted' \in Seq(Int) /\ second' \in Nat /\ Dropped' \in Nat
      BY <1>0, <1>1, <1>2, <1>3, <1>4, <1>8, <2>1
    <2>3. \A k \in DOMAIN sent' : sent'[k] = counted'[Dropped' + k]
      BY <1>5, <1>8, <2>1
    <2>4. \A i \in 1 .. Dropped' : counted'[i] + RateSeconds <= second'
      BY <1>1, <1>6, <1>8, <2>1
    <2>5. \A i, j \in DOMAIN counted' : j - i >= RateCount => counted'[j] - counted'[i] >= RateSeconds - MaxDelay
      BY <1>8 DEF RateInv
    <2>6. QED
      BY <1>7, <2>2, <2>3, <2>4, <2>5 DEF RateInv
  <1>9. CASE Len(times) < RateCount /\ sent' = Append(times, at) /\ counted' = Append(counted, at)
    <2>1. /\ sent' \in Seq(Int) /\ counted' \in Seq(Int)
          /\ Len(sent') = Len(times) + 1 /\ Len(counted') = Len(counted) + 1
          /\ DOMAIN sent' = 1 .. Len(times) + 1 /\ DOMAIN counted' = 1 .. Len(counted) + 1
          /\ \A k \in 1 .. Len(times) : sent'[k] = times[k]
          /\ \A k \in 1 .. Len(counted) : counted'[k] = counted[k]
          /\ sent'[Len(times) + 1] = at /\ counted'[Len(counted) + 1] = at
      BY <1>1, <1>2, <1>3, <1>9
    <2>2. Dropped' = Dropped + d /\ Dropped' \in Nat
      BY <1>3, <1>4, <2>1 DEF Dropped
    <2>3. \A k \in DOMAIN sent' : sent'[k] = counted'[Dropped' + k]
      <3> SUFFICES ASSUME NEW k \in DOMAIN sent'
                   PROVE  sent'[k] = counted'[Dropped' + k]
        OBVIOUS
      <3>1. CASE k \in 1 .. Len(times)
        <4>1. k \in DOMAIN times /\ Dropped + d + k \in 1 .. Len(counted)
          BY <1>3, <1>4, <3>1
        <4>2. QED
          BY <1>5, <2>1, <2>2, <3>1, <4>1
      <3>2. CASE k = Len(times) + 1
        <4>1. Dropped' + k = Len(counted) + 1
          BY <1>3, <1>4, <2>2, <3>2
        <4>2. QED
          BY <2>1, <3>2, <4>1
      <3>3. QED
        BY <1>3, <2>1, <3>1, <3>2
    <2>4. \A i \in 1 .. Dropped' : counted'[i] + RateSeconds <= second'
      <3>1. \A i \in 1 .. Dropped + d : i \in 1 .. Len(counted)
        BY <1>0, <1>4
      <3>2. QED
        BY <1>1, <1>6, <2>1, <2>2, <3>1
    <2>5. \A i, j \in DOMAIN counted' : j - i >= RateCount => counted'[j] - counted'[i] >= RateSeconds - MaxDelay
      <3> SUFFICES ASSUME NEW i \in DOMAIN counted', NEW j \in DOMAIN counted', j - i >= RateCount
                   PROVE  counted'[j] - counted'[i] >= RateSeconds - MaxDelay
        OBVIOUS
      <3>1. CASE j \in 1 .. Len(counted)
        <4>1. i \in 1 .. Len(counted)
          BY <1>4, <2>1, <3>1, RateAssumption
        <4>2. QED
          BY <1>4, <2>1, <3>1, <4>1 DEF RateInv
      <3>2. CASE j = Len(counted) + 1
        <4>1. i \in 1 .. Dropped + d /\ i \in 1 .. Len(counted)
          <5>1. i \in Nat /\ i >= 1 /\ j = Len(counted) + 1 /\ j - i >= RateCount
            BY <1>4, <2>1, <3>2
          <5>2. Len(times) < RateCount /\ RateCount \in Nat \ {0}
            BY <1>9, RateAssumption
          <5>3. i <= Dropped + d /\ i <= Len(counted)
            BY <1>0, <1>4, <5>1, <5>2
          <5>4. QED
            BY <1>0, <1>4, <5>1, <5>3
        <4>2. counted[i] + RateSeconds <= second /\ counted'[i] = counted[i] /\ counted'[j] = at /\ counted[i] \in Int
          BY <1>2, <1>4, <1>6, <2>1, <3>2, <4>1
        <4>3. QED
          BY <1>1, <1>2, <4>2, RateAssumption, SMTT(30)
      <3>3. QED
        BY <1>4, <2>1, <3>1, <3>2
    <2>6. QED
      BY <1>1, <1>2, <1>7, <2>1, <2>2, <2>3, <2>4, <2>5 DEF RateInv, Rate!NotArrived
  <1>10. QED
    BY <1>1, <1>8, <1>9

LEMMA RateStep ==
  ASSUME RateInv, Rate!Next \/ UNCHANGED rate
  PROVE  RateInv'
PROOF
  <1>0. MaxDelay \in Nat /\ RateSeconds \in Nat /\ RateCount \in Nat
    BY RateAssumption
  <1>1. CASE UNCHANGED rate
    BY <1>1 DEF rate, RateInv, Dropped
  <1>2. ASSUME NEW h \in Handlers, Rate!Arrive(h)
        PROVE  RateInv'
    <2>1. /\ second' = second /\ sent' = sent /\ counted' = counted
          /\ arrived' = [arrived EXCEPT ![h] = second]
      BY <1>2 DEF Rate!Arrive
    <2>2. QED
      BY <1>0, <2>1 DEF RateInv, Dropped, Rate!NotArrived
  <1>3. ASSUME NEW h \in Handlers, Rate!Take(h)
        PROVE  RateInv'
    BY <1>3, TakeStep
  <1>4. CASE Rate!Restart
    <2>1. second' = second /\ sent' = <<>> /\ counted' = <<>> /\ arrived' = [h \in Handlers |-> -1]
      BY <1>4 DEF Rate!Restart, Rate!NotArrived
    <2>2. QED
      BY <2>1 DEF RateInv, Dropped, Rate!NotArrived
  <1>5. CASE Rate!Tick
    <2>1. /\ second' = second + 1 /\ sent' = sent /\ counted' = counted /\ arrived' = arrived
          /\ \A h \in Handlers : arrived[h] = Rate!NotArrived \/ second - arrived[h] < MaxDelay
      BY <1>5 DEF Rate!Tick, Rate!NotArrived
    <2>2. \A i \in 1 .. Dropped : counted[i] \in Int
      BY DEF RateInv, Dropped
    <2>3. QED
      BY <1>0, <2>1, <2>2 DEF RateInv, Dropped, Rate!NotArrived
  <1>6. QED
    BY <1>1, <1>2, <1>3, <1>4, <1>5 DEF Rate!Next

(* Counts in one window are fewer than RateCount apart in order.           *)
LEMMA WindowHolds == RateInv => RateInShorterWindow
PROOF
  <1> SUFFICES ASSUME RateInv, NEW start \in 0 .. MaxSecond
               PROVE  Cardinality({i \in DOMAIN counted : counted[i] \in start .. (start + (RateSeconds - MaxDelay) - 1)})
                        <= RateCount
    BY DEF RateInShorterWindow, Rate!RateInShorterWindow, Rate!AtMostRateCount, Rate!Cardinality, Cardinality
  <1> DEFINE within == {i \in DOMAIN counted : counted[i] \in start .. (start + (RateSeconds - MaxDelay) - 1)}
  <1>1. /\ Len(counted) \in Nat /\ DOMAIN counted = 1 .. Len(counted)
        /\ RateCount \in Nat \ {0} /\ RateSeconds \in Nat /\ MaxDelay \in Nat
    BY RateAssumption DEF RateInv
  <1>2. CASE within = {}
    BY <1>1, <1>2, FS_EmptySet
  <1>3. CASE within # {}
    <2>1. within \in SUBSET (0 .. Len(counted))
      BY <1>1
    <2>2. Min(within) \in within /\ \A n \in within : Min(within) <= n
      <3> HIDE DEF within
      <3>1. QED
        BY <1>1, <1>3, <2>1, MinAndMax
    <2>3. Min(within) \in Nat
      BY <2>1, <2>2
    <2>4. \A n \in within : n \in Min(within) .. (Min(within) + RateCount - 1)
      <3> SUFFICES ASSUME NEW n \in within
                   PROVE  n \in Min(within) .. (Min(within) + RateCount - 1)
        OBVIOUS
      <3>1. n - Min(within) >= RateCount => counted[n] - counted[Min(within)] >= RateSeconds - MaxDelay
        BY <2>2 DEF RateInv
      <3>2. counted[n] \in Int /\ counted[Min(within)] \in Int
            /\ counted[n] - counted[Min(within)] < RateSeconds - MaxDelay
        BY <1>1, <2>2 DEF RateInv
      <3>3. n \in Nat /\ Min(within) <= n
        BY <1>1, <2>2
      <3>4. QED
        <4> HIDE DEF within
        <4>1. QED
          BY <1>1, <2>3, <3>1, <3>2, <3>3
    <2>5. QED
      <3> DEFINE lo == Min(within)
                 hi == Min(within) + RateCount - 1
      <3>1. within \in SUBSET (lo .. hi)
        BY <2>4
      <3>2. lo \in Int /\ hi \in Int /\ lo <= hi /\ hi - lo + 1 = RateCount
        <4> HIDE DEF within
        <4>1. QED
          BY <1>1, <2>3
      <3> HIDE DEF within, lo, hi
      <3>3. IsFiniteSet(lo .. hi) /\ Cardinality(lo .. hi) = RateCount
        BY <3>2, FS_Interval
      <3>4. Cardinality(within) <= RateCount
        BY <3>1, <3>3, FS_Subset
      <3>5. QED
        BY <3>4 DEF within
  <1>4. QED
    BY <1>2, <1>3

(* No window shorter by the longest delay has more than RateCount messages *)
(* counted in it, however many requests race and in whatever order they    *)
(* are counted (RateLimit.Take, Notifier.take).                            *)
THEOREM RateLimitHolds == ApartSpec => []RateInShorterWindow
PROOF
  <1>1. ApartInit => RateInv
    BY RateInit DEF ApartInit
  <1>2. RateInv /\ [ApartNext]_allvars => RateInv'
    <2> SUFFICES ASSUME RateInv, [ApartNext]_allvars PROVE RateInv'
      OBVIOUS
    <2>1. Rate!Next \/ UNCHANGED rate
      BY DEF ApartNext, allvars
    <2>2. QED
      BY <2>1, RateStep
  <1>3. QED
    BY <1>1, <1>2, WindowHolds, PTL DEF ApartSpec

-----------------------------------------------------------------------------
(* The heartbeat.                                                          *)

Jobwise == Range(Watched)
HeardOf(notices, w) == {i \in DOMAIN notices : notices[i].job = w}

(* A flag says what the operator heard last of a job.                      *)
Agrees(notices, flag, w) ==
  /\ HeardOf(notices, w) = {} => ~flag.alerting
  /\ \A i \in HeardOf(notices, w) : (\A h \in HeardOf(notices, w) : h <= i) =>
       /\ flag.alerting <=> notices[i].action # "recover"
       /\ flag.alerting => notices[i].at = flag.last

(* A flag is of an incident that was told.                                 *)
WasTold(notices, flag, w) ==
  flag.alerting => \E i \in HeardOf(notices, w) : notices[i].action # "recover" /\ notices[i].at = flag.last

(* What Decide can answer when there is something to tell.                 *)
Decides(flag, decision, at) ==
  /\ decision.action = "recover" => flag.alerting /\ ~decision.next.alerting
  /\ decision.action = "alert" => ~flag.alerting /\ decision.next.alerting /\ decision.next.last = at
  /\ decision.action = "remind" =>
       flag.alerting /\ at - flag.last >= Reminder /\ decision.next.alerting /\ decision.next.last = at

(* The jobs of which the file, or the memory of the run, does not say what *)
(* the operator heard last.  The file does not say yet what was just told. *)
Writing(w) == run.pc = "replace" /\ w = Head(run.left)
Astray ==
  {w \in Jobwise : \/ ~Agrees(told, file[w], w) /\ ~Writing(w)
                   \/ run.pc # "idle" /\ ~Agrees(told, memory[w], w)}
Untimely == {i \in DOMAIN told : ~Beat!InTurn(i)}

Tellings == [job : Jobwise, action : {"alert", "remind", "recover"}, at : Nat]
BeatTypes ==
  /\ hour \in Nat /\ lost \in Nat
  /\ stale \in [Jobwise -> BOOLEAN]
  /\ file \in [Jobwise -> Beat!Flags] /\ memory \in [Jobwise -> Beat!Flags]
  /\ run \in [pc : {"idle", "read", "send", "replace"}, now : Nat, left : Seq(Jobwise),
              decision : [action : {"none", "alert", "remind", "recover"}, next : Beat!Flags]]
  /\ told \in Seq(Tellings)

BeatInv ==
  /\ BeatTypes
  /\ run.pc \in {"send", "replace"} => run.left # <<>>
  /\ run.pc = "send" =>
       /\ run.decision.action \in {"alert", "remind", "recover"}
       /\ Decides(memory[Head(run.left)], run.decision, run.now)
  /\ \A w \in Jobwise : WasTold(told, file[w], w) /\ WasTold(told, memory[w], w)
  /\ Cardinality(Untimely) + Cardinality(Astray) <= lost

(* The same jobs and flags, whichever module they are named in.            *)
LEMMA SameNames ==
  /\ Beat!Range(Watched) = Jobwise
  /\ Watched \in Seq(Jobwise) /\ IsFiniteSet(Jobwise)
  /\ \A S : Beat!Cardinality(S) = Cardinality(S)
PROOF
  <1>1. Beat!Range(Watched) = Jobwise
    BY DEF Beat!Range, Range, Jobwise
  <1>2. Watched \in Seq(Jobwise)
    BY HeartbeatAssumption DEF Jobwise
  <1>3. IsFiniteSet(Jobwise)
    <2>1. DOMAIN Watched = 1 .. Len(Watched) /\ Len(Watched) \in Nat
      BY <1>2
    <2>2. Watched \in Surjection(1 .. Len(Watched), Jobwise)
      BY <1>2, <2>1 DEF Surjection, Jobwise, Range
    <2>3. QED
      BY <2>1, <2>2, FS_Interval, FS_Surjection
  <1>4. \A S : Beat!Cardinality(S) = Cardinality(S)
    BY DEF Beat!Cardinality, Cardinality
  <1>5. QED
    BY <1>1, <1>2, <1>3, <1>4

LEMMA LastOf ==
  ASSUME NEW n \in Nat, NEW S \in SUBSET (1 .. n), S # {}
  PROVE  Beat!Last(S) \in S /\ \A g \in S : g <= Beat!Last(S)
PROOF
  <1>1. S \in SUBSET (0 .. n)
    OBVIOUS
  <1>2. Max(S) \in S /\ \A g \in S : g <= Max(S)
    BY <1>1, MinAndMax
  <1>3. QED
    BY <1>2 DEF Beat!Last

(* One notice more.                                                        *)
Adds(v, action, at) == told' = Append(told, [job |-> v, action |-> action, at |-> at])

LEMMA AddsOne ==
  ASSUME told \in Seq(Tellings), NEW v, NEW action, NEW at, Adds(v, action, at)
  PROVE  /\ Len(told) \in Nat /\ DOMAIN told = 1 .. Len(told)
         /\ DOMAIN told' = 1 .. Len(told) + 1
         /\ \A i \in 1 .. Len(told) : told'[i] = told[i]
         /\ told'[Len(told) + 1] = [job |-> v, action |-> action, at |-> at]
         /\ HeardOf(told', v) = HeardOf(told, v) \cup {Len(told) + 1}
         /\ \A w : w # v => HeardOf(told', w) = HeardOf(told, w)
PROOF
  <1>1. /\ Len(told) \in Nat /\ DOMAIN told = 1 .. Len(told)
        /\ DOMAIN told' = 1 .. Len(told) + 1
        /\ \A i \in 1 .. Len(told) : told'[i] = told[i]
        /\ told'[Len(told) + 1] = [job |-> v, action |-> action, at |-> at]
    BY DEF Adds
  <1>2. told'[Len(told) + 1].job = v
    BY <1>1
  <1>3. HeardOf(told', v) = HeardOf(told, v) \cup {Len(told) + 1}
    BY <1>1, <1>2 DEF HeardOf
  <1>4. \A w : w # v => HeardOf(told', w) = HeardOf(told, w)
    BY <1>1, <1>2 DEF HeardOf
  <1>5. QED
    BY <1>1, <1>3, <1>4

(* What was said of other jobs stays so, and so does what was told.        *)
LEMMA OthersAgree ==
  ASSUME told \in Seq(Tellings), NEW v, NEW action, NEW at, Adds(v, action, at), NEW flag, NEW w
  PROVE  /\ w # v => (Agrees(told', flag, w) <=> Agrees(told, flag, w))
         /\ WasTold(told, flag, w) => WasTold(told', flag, w)
PROOF
  <1>1. /\ DOMAIN told = 1 .. Len(told)
        /\ \A i \in 1 .. Len(told) : told'[i] = told[i]
        /\ HeardOf(told', v) = HeardOf(told, v) \cup {Len(told) + 1}
        /\ w # v => HeardOf(told', w) = HeardOf(told, w)
    BY AddsOne
  <1>2. HeardOf(told, w) \subseteq 1 .. Len(told)
    BY <1>1 DEF HeardOf
  <1>3. ASSUME w # v
        PROVE  Agrees(told', flag, w) <=> Agrees(told, flag, w)
    <2>1. \A i \in HeardOf(told, w) : told'[i] = told[i]
      BY <1>1, <1>2
    <2>2. HeardOf(told', w) = HeardOf(told, w)
      BY <1>1, <1>3
    <2>3. QED
      BY <2>1, <2>2 DEF Agrees
  <1>4. ASSUME WasTold(told, flag, w), flag.alerting
        PROVE  \E i \in HeardOf(told', w) : told'[i].action # "recover" /\ told'[i].at = flag.last
    <2>1. PICK i \in HeardOf(told, w) : told[i].action # "recover" /\ told[i].at = flag.last
      BY <1>4 DEF WasTold
    <2>2. i \in HeardOf(told', w) /\ told'[i] = told[i]
      BY <1>1, <1>2
    <2>3. QED
      BY <2>1, <2>2
  <1>5. QED
    BY <1>3, <1>4 DEF WasTold

(* Whether a notice is in turn is settled when it is told.                 *)
LEMMA OldTurns ==
  ASSUME told \in Seq(Tellings), NEW v, NEW action, NEW at, Adds(v, action, at), NEW i \in 1 .. Len(told)
  PROVE  Beat!InTurn(i)' <=> Beat!InTurn(i)
PROOF
  <1>1. /\ Len(told) \in Nat
        /\ \A h \in 1 .. Len(told) : told'[h] = told[h]
    BY AddsOne
  <1>2. told'[i] = told[i] /\ \A h \in 1 .. i - 1 : told'[h] = told[h]
    BY <1>1
  <1>3. Beat!Before(i)' = Beat!Before(i)
    BY <1>2 DEF Beat!Before
  <1>4. ASSUME Beat!Before(i) # {}
        PROVE  told'[Beat!Last(Beat!Before(i))] = told[Beat!Last(Beat!Before(i))]
    <2>1. Beat!Before(i) \in SUBSET (1 .. i - 1) /\ i - 1 \in Nat
      BY <1>1 DEF Beat!Before
    <2>2. Beat!Last(Beat!Before(i)) \in 1 .. i - 1
      BY <1>4, <2>1, LastOf
    <2>3. QED
      BY <1>2, <2>2
  <1>5. Beat!Last(Beat!Before(i)') = Beat!Last(Beat!Before(i))
    BY <1>3
  <1>6. QED
    BY <1>2, <1>3, <1>4 DEF Beat!InTurn

(* Decided by a flag that agrees, a notice is in turn, and its flag agrees. *)
LEMMA NewTurn ==
  ASSUME told \in Seq(Tellings), NEW v \in Jobwise, NEW flag \in Beat!Flags, NEW at \in Nat,
         NEW decision \in [action : {"alert", "remind", "recover"}, next : Beat!Flags],
         Decides(flag, decision, at), Adds(v, decision.action, at), NEW n \in Nat, n = Len(told) + 1
  PROVE  /\ Agrees(told, flag, v) => Beat!InTurn(n)'
         /\ Agrees(told', decision.next, v) /\ WasTold(told', decision.next, v)
PROOF
  <1>1. /\ Len(told) \in Nat /\ DOMAIN told = 1 .. Len(told)
        /\ \A h \in 1 .. Len(told) : told'[h] = told[h]
        /\ told'[n] = [job |-> v, action |-> decision.action, at |-> at]
        /\ HeardOf(told', v) = HeardOf(told, v) \cup {n}
    BY AddsOne
  <1>2. told'[n].job = v /\ told'[n].action = decision.action /\ told'[n].at = at
    BY <1>1
  <1>3. HeardOf(told, v) \subseteq 1 .. Len(told)
    BY <1>1 DEF HeardOf
  <1>4. Beat!Before(n)' = HeardOf(told, v)
    <2>1. n - 1 = Len(told)
      BY <1>1
    <2>2. Beat!Before(n)' = {h \in 1 .. n - 1 : told'[h].job = told'[n].job}
      BY DEF Beat!Before
    <2>3. QED
      BY <1>1, <1>2, <2>1, <2>2 DEF HeardOf
  <1>5. flag.alerting \in BOOLEAN /\ decision.next.alerting \in BOOLEAN
        /\ decision.action \in {"alert", "remind", "recover"}
    BY DEF Beat!Flags
  <1>6. ASSUME Agrees(told, flag, v)
        PROVE  Beat!InTurn(n)'
    <2>1. CASE HeardOf(told, v) = {}
      <3>1. ~flag.alerting
        BY <1>6, <2>1 DEF Agrees
      <3>2. decision.action = "alert"
        BY <1>5, <3>1 DEF Decides
      <3>3. QED
        BY <1>2, <1>4, <2>1, <3>2 DEF Beat!InTurn
    <2>2. CASE HeardOf(told, v) # {}
      <3> DEFINE l == Beat!Last(HeardOf(told, v))
      <3>1. l \in HeardOf(told, v) /\ \A g \in HeardOf(told, v) : g <= l
        BY <1>1, <1>3, <2>2, LastOf
      <3>2. /\ flag.alerting <=> told[l].action # "recover"
            /\ flag.alerting => told[l].at = flag.last
        BY <1>6, <3>1 DEF Agrees
      <3>3. told'[l] = told[l]
        BY <1>1, <1>3, <3>1
      <3> HIDE DEF l
      <3>4. /\ decision.action = "alert" => told'[l].action = "recover"
            /\ decision.action = "recover" => told'[l].action # "recover"
            /\ decision.action = "remind" => told'[l].action # "recover" /\ at - told'[l].at >= Reminder
        BY <1>5, <3>2, <3>3 DEF Decides
      <3>5. Beat!InTurn(n)' <=>
              CASE told'[n].action = "alert" -> told'[l].action = "recover"
                [] told'[n].action = "recover" -> told'[l].action # "recover"
                [] OTHER -> told'[l].action # "recover" /\ told'[n].at - told'[l].at >= Reminder
        BY <1>4, <2>2 DEF Beat!InTurn, l
      <3>6. QED
        BY <1>2, <1>5, <3>4, <3>5
    <2>3. QED
      BY <2>1, <2>2
  <1>7. Agrees(told', decision.next, v)
    <2>1. n \in HeardOf(told', v) /\ \A i \in HeardOf(told', v) : (\A h \in HeardOf(told', v) : h <= i) => i = n
      BY <1>1, <1>3
    <2>2. /\ decision.next.alerting <=> told'[n].action # "recover"
          /\ decision.next.alerting => told'[n].at = decision.next.last
      BY <1>2, <1>5 DEF Decides
    <2>3. QED
      BY <2>1, <2>2 DEF Agrees
  <1>8. WasTold(told', decision.next, v)
    <2>1. n \in HeardOf(told', v)
      BY <1>1
    <2>2. decision.next.alerting => told'[n].action # "recover" /\ told'[n].at = decision.next.last
      BY <1>2, <1>5 DEF Decides
    <2>3. QED
      BY <2>1, <2>2 DEF WasTold
  <1>9. QED
    BY <1>6, <1>7, <1>8

(* How many there are of what is in the sets that are counted.             *)
LEMMA Countable ==
  ASSUME told \in Seq(Tellings)
  PROVE  /\ IsFiniteSet(Untimely) /\ Cardinality(Untimely) \in Nat
         /\ IsFiniteSet(Astray) /\ Cardinality(Astray) \in Nat
PROOF
  <1>1. DOMAIN told = 1 .. Len(told) /\ Len(told) \in Nat
    OBVIOUS
  <1>2. Untimely \in SUBSET (1 .. Len(told)) /\ Astray \in SUBSET Jobwise
    BY <1>1 DEF Untimely, Astray
  <1>3. IsFiniteSet(1 .. Len(told)) /\ IsFiniteSet(Jobwise)
    BY <1>1, FS_Interval, SameNames
  <1>4. IsFiniteSet(Untimely) /\ IsFiniteSet(Astray)
    BY <1>2, <1>3, FS_Subset
  <1>5. QED
    BY <1>4, FS_CardinalityType

LEMMA OneMore ==
  ASSUME NEW S, IsFiniteSet(S), NEW x, NEW T \in SUBSET (S \cup {x})
  PROVE  Cardinality(T) \in Nat /\ Cardinality(T) <= Cardinality(S) + 1
PROOF
  <1>1. IsFiniteSet(S \cup {x}) /\ Cardinality(S \cup {x}) <= Cardinality(S) + 1 /\ Cardinality(S) \in Nat
    BY FS_AddElement, FS_CardinalityType
  <1>2. IsFiniteSet(T) /\ Cardinality(T) <= Cardinality(S \cup {x})
    BY <1>1, FS_Subset
  <1>3. Cardinality(T) \in Nat /\ Cardinality(S \cup {x}) \in Nat
    BY <1>1, <1>2, FS_CardinalityType
  <1>4. QED
    BY <1>1, <1>2, <1>3

LEMMA OneLess ==
  ASSUME NEW S, IsFiniteSet(S), NEW x \in S, NEW T \in SUBSET (S \ {x})
  PROVE  Cardinality(T) \in Nat /\ Cardinality(T) + 1 <= Cardinality(S)
PROOF
  <1>1. IsFiniteSet(S \ {x}) /\ Cardinality(S \ {x}) = Cardinality(S) - 1 /\ Cardinality(S) \in Nat
    BY FS_RemoveElement, FS_CardinalityType
  <1>2. IsFiniteSet(T) /\ Cardinality(T) <= Cardinality(S \ {x})
    BY <1>1, FS_Subset
  <1>3. Cardinality(T) \in Nat
    BY <1>2, FS_CardinalityType
  <1>4. QED
    BY <1>1, <1>2, <1>3

(* A step that tells nothing leads no job astray, or one by a fault.       *)
LEMMA Silent ==
  ASSUME BeatInv, told' = told, lost' \in Nat,
         \/ Astray' \subseteq Astray /\ lost' >= lost
         \/ lost' = lost + 1 /\ \E x : Astray' \subseteq Astray \cup {x}
  PROVE  Cardinality(Untimely') + Cardinality(Astray') <= lost'
PROOF
  <1>1. /\ IsFiniteSet(Untimely) /\ Cardinality(Untimely) \in Nat
        /\ IsFiniteSet(Astray) /\ Cardinality(Astray) \in Nat
    BY Countable DEF BeatInv, BeatTypes
  <1>2. Cardinality(Untimely) + Cardinality(Astray) <= lost /\ lost \in Nat
    BY DEF BeatInv, BeatTypes
  <1>3. Untimely' = Untimely
    BY DEF Untimely, Beat!InTurn, Beat!Before
  <1>4. CASE Astray' \subseteq Astray /\ lost' >= lost
    <2>1. Cardinality(Astray') \in Nat /\ Cardinality(Astray') <= Cardinality(Astray)
      BY <1>1, <1>4, FS_Subset, FS_CardinalityType
    <2>2. QED
      BY <1>1, <1>2, <1>3, <1>4, <2>1
  <1>5. CASE lost' = lost + 1 /\ \E x : Astray' \subseteq Astray \cup {x}
    <2>1. Cardinality(Astray') \in Nat /\ Cardinality(Astray') <= Cardinality(Astray) + 1
      BY <1>1, <1>5, OneMore
    <2>2. QED
      BY <1>1, <1>2, <1>3, <1>5, <2>1
  <1>6. QED
    BY <1>4, <1>5

LEMMA BeatInit == Beat!Init => BeatInv
PROOF
  <1> SUFFICES ASSUME Beat!Init PROVE BeatInv
    OBVIOUS
  <1>1. /\ hour = 1 /\ lost = 0 /\ told = <<>> /\ run = Beat!Resting(0)
        /\ stale = [w \in Jobwise |-> FALSE]
        /\ file = [w \in Jobwise |-> Beat!Quiet] /\ memory = [w \in Jobwise |-> Beat!Quiet]
    BY SameNames DEF Beat!Init, Beat!Unset
  <1>2. Beat!Quiet \in Beat!Flags /\ ~Beat!Quiet.alerting
    BY DEF Beat!Quiet, Beat!Flags
  <1>3. run.pc = "idle" /\ BeatTypes
    BY <1>1, <1>2 DEF Beat!Resting, BeatTypes
  <1>4. \A w \in Jobwise : Agrees(told, file[w], w) /\ WasTold(told, file[w], w) /\ WasTold(told, memory[w], w)
    <2>1. \A w : HeardOf(told, w) = {}
      BY <1>1 DEF HeardOf
    <2>2. QED
      BY <1>1, <1>2, <2>1 DEF Agrees, WasTold
  <1>5. Astray = {} /\ Untimely = {}
    BY <1>1, <1>3, <1>4 DEF Astray, Untimely
  <1>6. Cardinality(Untimely) + Cardinality(Astray) <= lost
    BY <1>1, <1>5, FS_EmptySet
  <1>7. QED
    BY <1>3, <1>4, <1>6 DEF BeatInv

LEMMA BeginStep == ASSUME BeatInv, Beat!Begin PROVE BeatInv'
PROOF
  <1>1. /\ hour' = hour /\ stale' = stale /\ file' = file /\ told' = told
        /\ run.pc = "idle" /\ lost \in Nat /\ lost' \in Nat /\ lost' >= lost
        /\ \/ run' = [Beat!Resting(hour) EXCEPT !.pc = "read", !.left = Watched] /\ memory' = file
           \/ run' = Beat!Resting(hour) /\ memory' = memory
    BY DEF Beat!Begin, Beat!RunDue, Beat!FaultHappens, BeatInv, BeatTypes
  <1>2. run'.pc \in {"idle", "read"} /\ BeatTypes'
    <2>1. hour \in Nat /\ Watched \in Seq(Jobwise) /\ BeatTypes
      BY SameNames DEF BeatInv, BeatTypes
    <2>2. /\ Beat!Resting(hour) = [pc |-> "idle", now |-> hour, left |-> <<>>,
                                   decision |-> [action |-> "none", next |-> Beat!Quiet]]
          /\ Beat!Quiet \in Beat!Flags
      BY DEF Beat!Resting, Beat!Quiet, Beat!Flags
    <2> DEFINE Runs == [pc : {"idle", "read", "send", "replace"}, now : Nat, left : Seq(Jobwise),
                        decision : [action : {"none", "alert", "remind", "recover"}, next : Beat!Flags]]
    <2>3. Beat!Resting(hour) \in Runs /\ Beat!Resting(hour).pc = "idle"
      BY <2>1, <2>2
    <2>4. run' \in Runs /\ run'.pc \in {"idle", "read"}
      <3>1. CASE run' = Beat!Resting(hour)
        BY <2>3, <3>1
      <3>2. CASE run' = [Beat!Resting(hour) EXCEPT !.pc = "read", !.left = Watched]
        BY <2>1, <2>3, <3>2
      <3>3. QED
        BY <1>1, <3>1, <3>2
    <2>5. hour' \in Nat /\ stale' \in [Jobwise -> BOOLEAN] /\ told' \in Seq(Tellings)
          /\ file' \in [Jobwise -> Beat!Flags] /\ memory' \in [Jobwise -> Beat!Flags]
      BY <1>1, <2>1 DEF BeatTypes
    <2>6. QED
      BY <1>1, <2>4, <2>5 DEF BeatTypes
  <1>3. run'.pc = "read" => memory' = file
    BY <1>1 DEF Beat!Resting
  <1>4. Astray' \subseteq Astray
    BY <1>1, <1>2, <1>3 DEF Astray, Writing
  <1>5. Cardinality(Untimely') + Cardinality(Astray') <= lost'
    BY <1>1, <1>4, Silent
  <1>6. QED
    BY <1>1, <1>2, <1>5 DEF BeatInv

(* What Decide answers, in cases.                                          *)
LEMMA DecideCases ==
  ASSUME NEW flag \in Beat!Flags, NEW is \in BOOLEAN, NEW at \in Nat
  PROVE  /\ Beat!Decide(flag, is, at) \in [action : {"none", "alert", "remind", "recover"}, next : Beat!Flags]
         /\ Decides(flag, Beat!Decide(flag, is, at), at)
PROOF
  <1>1. flag.alerting \in BOOLEAN /\ flag.since \in Nat /\ flag.last \in Nat
    BY DEF Beat!Flags
  <1>2. CASE ~is /\ flag.alerting
    BY <1>1, <1>2 DEF Beat!Decide, Decides, Beat!Quiet, Beat!Flags
  <1>3. CASE is /\ ~flag.alerting
    BY <1>1, <1>3 DEF Beat!Decide, Decides, Beat!Flags
  <1>4. CASE is /\ flag.alerting /\ at - flag.last >= Reminder
    <2>1. Beat!Decide(flag, is, at) = [action |-> "remind", next |-> [flag EXCEPT !.last = at]]
      BY <1>1, <1>4 DEF Beat!Decide
    <2>2. [flag EXCEPT !.last = at] \in Beat!Flags /\ [flag EXCEPT !.last = at].alerting
          /\ [flag EXCEPT !.last = at].last = at
      BY <1>1, <1>4 DEF Beat!Flags
    <2>3. [action |-> "remind", next |-> [flag EXCEPT !.last = at]]
            \in [action : {"none", "alert", "remind", "recover"}, next : Beat!Flags]
      BY <2>2
    <2>4. Decides(flag, [action |-> "remind", next |-> [flag EXCEPT !.last = at]], at)
      BY <1>4, <2>2 DEF Decides
    <2>5. QED
      BY <2>1, <2>3, <2>4
  <1>5. CASE \/ ~is /\ ~flag.alerting
             \/ is /\ flag.alerting /\ ~(at - flag.last >= Reminder)
    <2>1. Beat!Decide(flag, is, at) = [action |-> "none", next |-> flag]
      BY <1>1, <1>5 DEF Beat!Decide
    <2>2. QED
      BY <2>1 DEF Decides
  <1>6. QED
    BY <1>1, <1>2, <1>3, <1>4, <1>5

LEMMA ReadStep == ASSUME BeatInv, Beat!Read PROVE BeatInv'
PROOF
  <1>0. BeatTypes
    BY DEF BeatInv
  <1>1. /\ run.pc = "read" /\ run.left # <<>> /\ run.left \in Seq(Jobwise) /\ run.now \in Nat
        /\ hour' = hour /\ stale' = stale /\ file' = file /\ memory' = memory /\ told' = told
    BY DEF Beat!Read, Beat!Working, BeatInv, BeatTypes
  <1>2. PICK v \in Jobwise : v = Head(run.left)
    BY <1>1
  <1>3. PICK d : d = Beat!Decide(memory[v], stale[v], run.now)
    OBVIOUS
  <1>4. d \in [action : {"none", "alert", "remind", "recover"}, next : Beat!Flags] /\ Decides(memory[v], d, run.now)
    BY <1>0, <1>1, <1>3, DecideCases DEF BeatTypes
  <1>5. /\ lost' \in Nat /\ lost' >= lost
        /\ \/ run' = [run EXCEPT !.pc = "read", !.left = Tail(@)]
           \/ d.action # "none" /\ run' = [run EXCEPT !.pc = "send", !.decision = d]
    BY <1>0, <1>2, <1>3 DEF Beat!Read, Beat!Job, Beat!NextJob, Beat!FaultHappens, BeatTypes
  <1>6. /\ BeatTypes' /\ run'.pc \in {"read", "send"}
        /\ run'.pc = "send" => run'.left = run.left /\ run'.decision = d /\ run'.now = run.now /\ d.action # "none"
    <2>1. Tail(run.left) \in Seq(Jobwise)
      BY <1>1
    <2>2. QED
      BY <1>0, <1>1, <1>4, <1>5, <2>1 DEF BeatTypes
  <1>7. Astray' \subseteq Astray
    BY <1>1, <1>6 DEF Astray, Writing
  <1>8. Cardinality(Untimely') + Cardinality(Astray') <= lost'
    BY <1>1, <1>5, <1>7, Silent
  <1>9. run'.pc = "send" => /\ run'.left # <<>> /\ run'.decision.action \in {"alert", "remind", "recover"}
                            /\ Decides(memory'[Head(run'.left)], run'.decision, run'.now)
    BY <1>1, <1>2, <1>4, <1>6
  <1>10. \A w \in Jobwise : WasTold(told', file'[w], w) /\ WasTold(told', memory'[w], w)
    BY <1>1 DEF BeatInv
  <1>11. QED
    BY <1>6, <1>8, <1>9, <1>10 DEF BeatInv

LEMMA ReplaceStep == ASSUME BeatInv, Beat!Replace PROVE BeatInv'
PROOF
  <1>0. BeatTypes
    BY DEF BeatInv
  <1>1. /\ run.pc = "replace" /\ run.left # <<>> /\ run.left \in Seq(Jobwise)
        /\ hour' = hour /\ stale' = stale /\ memory' = memory /\ told' = told
        /\ run' = [run EXCEPT !.pc = "read", !.left = Tail(@)]
        /\ lost \in Nat /\ lost' \in Nat
        /\ \/ file' = memory /\ lost' = lost
           \/ file' = file /\ lost' = lost + 1
    BY <1>0 DEF Beat!Replace, Beat!Working, Beat!NextJob, Beat!FaultHappens, BeatTypes
  <1>2. BeatTypes' /\ run'.pc = "read"
    <2>1. Tail(run.left) \in Seq(Jobwise)
      BY <1>1
    <2>2. QED
      BY <1>0, <1>1, <2>1 DEF BeatTypes
  <1>3. file' = memory => Astray' \subseteq Astray
    BY <1>1, <1>2 DEF Astray, Writing
  <1>4. file' = file => Astray' \subseteq Astray \cup {Head(run.left)}
    BY <1>1, <1>2 DEF Astray, Writing
  <1>5. Cardinality(Untimely') + Cardinality(Astray') <= lost'
    <2>1. CASE file' = memory /\ lost' = lost
      BY <1>1, <1>3, <2>1, Silent
    <2>2. CASE file' = file /\ lost' = lost + 1
      <3>1. \E x : Astray' \subseteq Astray \cup {x}
        BY <1>4, <2>2
      <3>2. QED
        BY <1>1, <2>2, <3>1, Silent
    <2>3. QED
      BY <1>1, <2>1, <2>2
  <1>6. QED
    BY <1>1, <1>2, <1>5 DEF BeatInv

LEMMA EndStep == ASSUME BeatInv, Beat!Finish \/ Beat!Stop PROVE BeatInv'
PROOF
  <1>0. BeatTypes
    BY DEF BeatInv
  <1>1. /\ hour' = hour /\ stale' = stale /\ file' = file /\ told' = told
        /\ run' = Beat!Resting(run.now) /\ memory' = [w \in Jobwise |-> Beat!Quiet]
        /\ lost \in Nat /\ lost' \in Nat
        /\ \/ run.pc = "read" /\ lost' = lost
           \/ lost' = lost + 1
    BY <1>0, SameNames DEF Beat!Finish, Beat!Stop, Beat!Unset, Beat!FaultHappens, BeatTypes
  <1>2. BeatTypes' /\ run'.pc = "idle"
    BY <1>0, <1>1 DEF BeatTypes, Beat!Resting, Beat!Quiet, Beat!Flags
  <1>3. run.pc = "read" => Astray' \subseteq Astray
    BY <1>1, <1>2 DEF Astray, Writing
  <1>4. Astray' \subseteq Astray \cup {Head(run.left)}
    BY <1>1, <1>2 DEF Astray, Writing
  <1>5. Cardinality(Untimely') + Cardinality(Astray') <= lost'
    <2>1. CASE run.pc = "read" /\ lost' = lost
      BY <1>1, <1>3, <2>1, Silent
    <2>2. CASE lost' = lost + 1
      <3>1. \E x : Astray' \subseteq Astray \cup {x}
        BY <1>4
      <3>2. QED
        BY <1>1, <2>2, <3>1, Silent
    <2>3. QED
      BY <1>1, <2>1, <2>2
  <1>6. \A w \in Jobwise : WasTold(told', file'[w], w) /\ WasTold(told', memory'[w], w)
    BY <1>1 DEF BeatInv, WasTold, Beat!Quiet
  <1>7. QED
    BY <1>2, <1>5, <1>6 DEF BeatInv

LEMMA WorldStep ==
  ASSUME BeatInv, Beat!Tick \/ (\E w \in Jobwise : Beat!Turn(w)) \/ UNCHANGED beat
  PROVE  BeatInv'
PROOF
  <1>0. BeatTypes
    BY DEF BeatInv
  <1>1. /\ file' = file /\ memory' = memory /\ run' = run /\ told' = told /\ lost' = lost
        /\ hour' \in Nat /\ stale' \in [Jobwise -> BOOLEAN]
    <2>1. CASE Beat!Tick \/ UNCHANGED beat
      BY <1>0, <2>1 DEF Beat!Tick, beat, BeatTypes
    <2>2. CASE \E w \in Jobwise : Beat!Turn(w)
      <3>1. PICK w \in Jobwise : Beat!Turn(w)
        BY <2>2
      <3>2. file' = file /\ memory' = memory /\ run' = run /\ told' = told /\ lost' = lost /\ hour' = hour
        BY <3>1 DEF Beat!Turn
      <3>3. stale' = [stale EXCEPT ![w] = ~stale[w]]
        BY <3>1 DEF Beat!Turn
      <3>4. (~stale[w]) \in BOOLEAN
        OBVIOUS
      <3>5. stale' \in [Jobwise -> BOOLEAN]
        BY <1>0, <3>3, <3>4 DEF BeatTypes
      <3>6. QED
        BY <1>0, <3>2, <3>5 DEF BeatTypes
    <2>3. QED
      BY <2>1, <2>2
  <1>2. BeatTypes'
    BY <1>0, <1>1 DEF BeatTypes
  <1>3. Astray' = Astray
    BY <1>1 DEF Astray, Writing
  <1>4. Cardinality(Untimely') + Cardinality(Astray') <= lost'
    BY <1>0, <1>1, <1>3, Silent DEF BeatTypes
  <1>5. QED
    BY <1>1, <1>2, <1>4 DEF BeatInv

(* A notice told of a job whose flag in memory agrees is in turn.  Of any  *)
(* other it may not be, but such a job is astray.                          *)
LEMMA Telling ==
  ASSUME BeatInv, NEW v \in Jobwise, NEW at \in Nat,
         NEW d \in [action : {"alert", "remind", "recover"}, next : Beat!Flags],
         Decides(memory[v], d, at), Adds(v, d.action, at), run.pc # "idle"
  PROVE  /\ told' \in Seq(Tellings)
         /\ \/ v \in Astray /\ \E n : Untimely' \subseteq Untimely \cup {n}
            \/ Untimely' \subseteq Untimely
         /\ Agrees(told', d.next, v) /\ WasTold(told', d.next, v)
         /\ \A flag, w : w # v => (Agrees(told', flag, w) <=> Agrees(told, flag, w))
         /\ \A flag, w : WasTold(told, flag, w) => WasTold(told', flag, w)
PROOF
  <1>0. BeatTypes /\ told \in Seq(Tellings) /\ memory[v] \in Beat!Flags
    BY DEF BeatInv, BeatTypes
  <1>1. told' \in Seq(Tellings)
    <2>1. [job |-> v, action |-> d.action, at |-> at] \in Tellings
      BY DEF Tellings
    <2>2. QED
      BY <1>0, <2>1 DEF Adds
  <1>2. PICK n \in Nat : n = Len(told) + 1
    BY <1>0
  <1>3. DOMAIN told = 1 .. Len(told) /\ DOMAIN told' = 1 .. n /\ Len(told) \in Nat
    BY <1>0, <1>2, AddsOne
  <1>4. /\ Agrees(told, memory[v], v) => Beat!InTurn(n)'
        /\ Agrees(told', d.next, v) /\ WasTold(told', d.next, v)
    BY <1>0, <1>2, NewTurn
  <1>5. \A i \in 1 .. Len(told) : Beat!InTurn(i)' <=> Beat!InTurn(i)
    BY <1>0, OldTurns
  <1>6. Untimely' \subseteq Untimely \cup {n}
    <2>1. \A i \in 1 .. n : i = n \/ i \in 1 .. Len(told)
      BY <1>2, <1>3
    <2>2. QED
      BY <1>3, <1>5, <2>1 DEF Untimely
  <1>7. Agrees(told, memory[v], v) => Untimely' \subseteq Untimely
    <2>1. Agrees(told, memory[v], v) => n \notin Untimely'
      BY <1>4 DEF Untimely
    <2>2. QED
      BY <1>6, <2>1
  <1>8. ~Agrees(told, memory[v], v) => v \in Astray
    BY DEF Astray
  <1>9. /\ \A flag, w : w # v => (Agrees(told', flag, w) <=> Agrees(told, flag, w))
        /\ \A flag, w : WasTold(told, flag, w) => WasTold(told', flag, w)
    BY <1>0, OthersAgree
  <1>10. QED
    BY <1>1, <1>4, <1>6, <1>7, <1>8, <1>9

LEMMA SendStep == ASSUME BeatInv, Beat!Send PROVE BeatInv'
PROOF
  <1>0. /\ BeatTypes /\ told \in Seq(Tellings) /\ lost \in Nat
        /\ IsFiniteSet(Untimely) /\ Cardinality(Untimely) \in Nat
        /\ IsFiniteSet(Astray) /\ Cardinality(Astray) \in Nat
        /\ Cardinality(Untimely) + Cardinality(Astray) <= lost
    BY Countable DEF BeatInv, BeatTypes
  <1>1. /\ run.pc = "send" /\ run.left # <<>> /\ run.left \in Seq(Jobwise) /\ run.now \in Nat
        /\ hour' = hour /\ stale' = stale /\ file' = file
        /\ run.decision \in [action : {"alert", "remind", "recover"}, next : Beat!Flags]
    BY DEF Beat!Send, Beat!Working, BeatInv, BeatTypes
  <1>2. PICK v \in Jobwise : v = Head(run.left)
    BY <1>1
  <1>3. PICK d \in [action : {"alert", "remind", "recover"}, next : Beat!Flags] : d = run.decision
    BY <1>1
  <1>4. PICK at \in Nat : at = run.now
    BY <1>1
  <1>5. Decides(memory[v], d, at)
    BY <1>1, <1>2, <1>3, <1>4 DEF BeatInv
  <1>6. \/ /\ Adds(v, d.action, at) /\ memory' = [memory EXCEPT ![v] = d.next]
           /\ run' = [run EXCEPT !.pc = "replace"] /\ lost' = lost
        \/ /\ Adds(v, d.action, at) \/ told' = told
           /\ memory' = memory
           /\ run' = [run EXCEPT !.pc = "read", !.left = Tail(@)] /\ lost' = lost + 1
    BY <1>2, <1>3, <1>4 DEF Beat!Send, Beat!Decided, Beat!Telling, Beat!Job, Beat!NextJob, Beat!FaultHappens, Adds
  <1>7. ASSUME Adds(v, d.action, at)
        PROVE  /\ told' \in Seq(Tellings)
               /\ \/ v \in Astray /\ \E n : Untimely' \subseteq Untimely \cup {n}
                  \/ Untimely' \subseteq Untimely
               /\ Agrees(told', d.next, v) /\ WasTold(told', d.next, v)
               /\ \A flag, w : w # v => (Agrees(told', flag, w) <=> Agrees(told, flag, w))
               /\ \A flag, w : WasTold(told, flag, w) => WasTold(told', flag, w)
    BY <1>1, <1>5, <1>7, Telling
  <1>8. CASE /\ Adds(v, d.action, at) /\ memory' = [memory EXCEPT ![v] = d.next]
             /\ run' = [run EXCEPT !.pc = "replace"] /\ lost' = lost
    <2>1. /\ run'.pc = "replace" /\ run'.left = run.left /\ memory'[v] = d.next
          /\ \A w \in Jobwise : w # v => memory'[w] = memory[w]
          /\ memory' \in [Jobwise -> Beat!Flags]
      BY <1>0, <1>8 DEF BeatTypes
    <2>2. BeatTypes'
      BY <1>0, <1>1, <1>7, <1>8, <2>1 DEF BeatTypes
    <2>3. Astray' \subseteq Astray \ {v}
      <3> SUFFICES ASSUME NEW w \in Jobwise, w \in Astray'
                   PROVE  w \in Astray /\ w # v
        BY DEF Astray
      <3>1. \/ ~Agrees(told', file'[w], w) /\ w # v
            \/ ~Agrees(told', memory'[w], w)
        BY <1>2, <2>1 DEF Astray, Writing
      <3>2. w # v
        BY <1>7, <1>8, <2>1, <3>1
      <3>3. ~Agrees(told, file[w], w) \/ ~Agrees(told, memory[w], w)
        BY <1>1, <1>7, <1>8, <2>1, <3>1, <3>2
      <3>4. QED
        BY <1>1, <3>2, <3>3 DEF Astray, Writing
    <2>4. Cardinality(Untimely') + Cardinality(Astray') <= lost'
      <3>1. CASE Untimely' \subseteq Untimely
        <4>1. Cardinality(Untimely') \in Nat /\ Cardinality(Untimely') <= Cardinality(Untimely)
          BY <1>0, <3>1, FS_Subset, FS_CardinalityType
        <4>2. Astray' \subseteq Astray
          BY <2>3
        <4>3. Cardinality(Astray') \in Nat /\ Cardinality(Astray') <= Cardinality(Astray)
          BY <1>0, <4>2, FS_Subset, FS_CardinalityType
        <4>4. QED
          BY <1>0, <1>8, <4>1, <4>3
      <3>2. CASE v \in Astray /\ \E n : Untimely' \subseteq Untimely \cup {n}
        <4>1. Cardinality(Untimely') \in Nat /\ Cardinality(Untimely') <= Cardinality(Untimely) + 1
          BY <1>0, <3>2, OneMore
        <4>2. Cardinality(Astray') \in Nat /\ Cardinality(Astray') + 1 <= Cardinality(Astray)
          BY <1>0, <2>3, <3>2, OneLess
        <4>3. QED
          BY <1>0, <1>8, <4>1, <4>2
      <3>3. QED
        BY <1>7, <1>8, <3>1, <3>2
    <2>5. \A w \in Jobwise : WasTold(told', file'[w], w) /\ WasTold(told', memory'[w], w)
      <3> SUFFICES ASSUME NEW w \in Jobwise
                   PROVE  WasTold(told', file'[w], w) /\ WasTold(told', memory'[w], w)
        OBVIOUS
      <3>1. WasTold(told, file[w], w) /\ WasTold(told, memory[w], w)
        BY DEF BeatInv
      <3>2. QED
        BY <1>1, <1>7, <1>8, <2>1, <3>1
    <2>6. QED
      BY <1>1, <2>1, <2>2, <2>4, <2>5 DEF BeatInv
  <1>9. CASE /\ Adds(v, d.action, at) \/ told' = told
             /\ memory' = memory
             /\ run' = [run EXCEPT !.pc = "read", !.left = Tail(@)] /\ lost' = lost + 1
    <2>1. run'.pc = "read" /\ told' \in Seq(Tellings) /\ BeatTypes'
      <3>1. told' \in Seq(Tellings)
        BY <1>0, <1>7, <1>9
      <3>2. Tail(run.left) \in Seq(Jobwise)
        BY <1>1
      <3>3. /\ run' \in [pc : {"idle", "read", "send", "replace"}, now : Nat, left : Seq(Jobwise),
                         decision : [action : {"none", "alert", "remind", "recover"}, next : Beat!Flags]]
            /\ run'.pc = "read"
        BY <1>0, <1>9, <3>2 DEF BeatTypes
      <3>4. lost' \in Nat /\ memory' \in [Jobwise -> Beat!Flags]
        BY <1>0, <1>9 DEF BeatTypes
      <3>5. QED
        BY <1>0, <1>1, <3>1, <3>3, <3>4 DEF BeatTypes
    <2>2. \A w \in Jobwise : WasTold(told', file'[w], w) /\ WasTold(told', memory'[w], w)
      BY <1>1, <1>7, <1>9 DEF BeatInv
    <2>3. CASE told' = told
      <3>1. Astray' \subseteq Astray
        BY <1>1, <1>9, <2>1, <2>3 DEF Astray, Writing
      <3>2. Cardinality(Untimely') + Cardinality(Astray') <= lost'
        BY <1>0, <1>9, <2>3, <3>1, Silent
      <3>3. QED
        BY <2>1, <2>2, <3>2 DEF BeatInv
    <2>4. CASE Adds(v, d.action, at)
      <3>1. Astray' \subseteq Astray \cup {v}
        <4> SUFFICES ASSUME NEW w \in Jobwise, w \in Astray', w # v
                     PROVE  w \in Astray
          BY DEF Astray
        <4>1. ~Agrees(told', file'[w], w) \/ ~Agrees(told', memory'[w], w)
          BY DEF Astray
        <4>2. ~Agrees(told, file[w], w) \/ ~Agrees(told, memory[w], w)
          BY <1>1, <1>7, <1>9, <2>4, <4>1
        <4>3. QED
          BY <1>1, <4>2 DEF Astray, Writing
      <3>2. Cardinality(Untimely') + Cardinality(Astray') <= lost'
        <4>1. CASE Untimely' \subseteq Untimely
          <5>1. Cardinality(Untimely') \in Nat /\ Cardinality(Untimely') <= Cardinality(Untimely)
            BY <1>0, <4>1, FS_Subset, FS_CardinalityType
          <5>2. Cardinality(Astray') \in Nat /\ Cardinality(Astray') <= Cardinality(Astray) + 1
            BY <1>0, <3>1, OneMore
          <5>3. QED
            BY <1>0, <1>9, <5>1, <5>2
        <4>2. CASE v \in Astray /\ \E n : Untimely' \subseteq Untimely \cup {n}
          <5>1. Cardinality(Untimely') \in Nat /\ Cardinality(Untimely') <= Cardinality(Untimely) + 1
            BY <1>0, <4>2, OneMore
          <5>2. Astray' \subseteq Astray
            BY <3>1, <4>2
          <5>3. Cardinality(Astray') \in Nat /\ Cardinality(Astray') <= Cardinality(Astray)
            BY <1>0, <5>2, FS_Subset, FS_CardinalityType
          <5>4. QED
            BY <1>0, <1>9, <5>1, <5>3
        <4>3. QED
          BY <1>7, <2>4, <4>1, <4>2
      <3>3. QED
        BY <2>1, <2>2, <3>2 DEF BeatInv
    <2>5. QED
      BY <1>9, <2>3, <2>4
  <1>10. QED
    BY <1>6, <1>8, <1>9

(* The heartbeat's file says only what the operator was told, and no more  *)
(* notices come out of turn than there were faults, for any watched jobs,  *)
(* however its runs are stopped (NotificationsHeartbeat).                  *)
THEOREM HeartbeatHolds == ApartSpec => []HeartbeatIsTruthful
PROOF
  <1>1. ApartInit => BeatInv
    BY BeatInit DEF ApartInit
  <1>2. BeatInv /\ [ApartNext]_allvars => BeatInv'
    <2> SUFFICES ASSUME BeatInv, [ApartNext]_allvars PROVE BeatInv'
      OBVIOUS
    <2>1. Beat!Next \/ UNCHANGED beat
      BY DEF ApartNext, allvars
    <2>2. \/ Beat!Begin \/ Beat!Read \/ Beat!Send \/ Beat!Replace \/ Beat!Finish \/ Beat!Stop
          \/ Beat!Tick \/ (\E w \in Jobwise : Beat!Turn(w)) \/ UNCHANGED beat
      BY <2>1, SameNames DEF Beat!Next, Beat!Run
    <2>3. QED
      BY <2>2, BeginStep, ReadStep, SendStep, ReplaceStep, EndStep, WorldStep
  <1>3. BeatInv => HeartbeatIsTruthful
    <2> SUFFICES ASSUME BeatInv PROVE HeartbeatIsTruthful
      OBVIOUS
    <2>1. Beat!RemembersOnlyTold
      BY SameNames DEF BeatInv, WasTold, HeardOf, Beat!RemembersOnlyTold
    <2>2. Beat!OutOfTurnNeedsFaults
      <3>1. Cardinality(Untimely) \in Nat /\ Cardinality(Astray) \in Nat /\ lost \in Nat
            /\ Cardinality(Untimely) + Cardinality(Astray) <= lost
        BY Countable DEF BeatInv, BeatTypes
      <3>2. Cardinality(Untimely) <= lost
        BY <3>1
      <3>3. QED
        BY <3>2, SameNames DEF Untimely, Beat!OutOfTurnNeedsFaults
    <2>3. QED
      BY <2>1, <2>2 DEF HeartbeatIsTruthful
  <1>4. QED
    BY <1>1, <1>2, <1>3, PTL DEF ApartSpec

-----------------------------------------------------------------------------
(* The backups: what counts as one verifies.                               *)

(* The metadata in the bucket is that of the archive beside it.            *)
Paired ==
  \A s \in DOMAIN records : s \in DOMAIN archives /\ records[s].of = archives[s].by

(* A pod that is to publish its metadata has published its archive.        *)
Earned ==
  \A j \in Jobs : pod[j].pc = "record" =>
    pod[j].stamp \in DOMAIN archives /\ archives[pod[j].stamp].by = Made(j)

PodsTyped ==
  pod \in [Jobs -> Pods] /\ now \in Nat

Inv == PodsTyped /\ Paired /\ Earned

(* Objects are added to the bucket and never replaced.                     *)
Kept ==
  \A s \in DOMAIN archives : s \in DOMAIN archives' /\ archives'[s] = archives[s]

LEMMA InitInv == Init => Inv
PROOF
  <1> SUFFICES ASSUME Init PROVE Inv
    OBVIOUS
  <1>1. PodsTyped
    <2>1. NoPod \in Pods
      BY DEF NoPod, Pods
    <2> QED BY <2>1 DEF Init, PodsTyped
  <1>2. DOMAIN records = {}
    BY DEF Init
  <1>3. Earned
    BY DEF Init, Earned, NoPod
  <1> QED BY <1>1, <1>2, <1>3 DEF Inv, Paired

(* A pod that is to publish its metadata after a step was to before it.    *)
Onwards(j) ==
  pod'[j].pc = "record" =>
    pod[j].pc = "record" /\ pod'[j].stamp = pod[j].stamp /\ pod'[j].try = pod[j].try

LEMMA EarnedStays ==
  ASSUME Earned, Kept, \A j \in Jobs : Onwards(j)
  PROVE  Earned'
  BY DEF Earned, Kept, Onwards, Made

LEMMA BucketLeft ==
  ASSUME UNCHANGED bucket
  PROVE  Kept /\ (Paired => Paired')
  BY DEF bucket, Kept, Paired

(* The steps of a Job and of its pod that touch no object.                 *)
LEMMA SetsOnePod ==
  ASSUME NEW j \in Jobs, PodsTyped, NEW p \in Pods, p.pc # "record",
         pod' = [pod EXCEPT ![j] = p], now' = now
  PROVE  PodsTyped' /\ \A k \in Jobs : Onwards(k)
  BY DEF PodsTyped, Onwards

LEMMA KeepsPods ==
  ASSUME PodsTyped, UNCHANGED <<pod, now>>
  PROVE  PodsTyped' /\ \A k \in Jobs : Onwards(k)
  BY DEF PodsTyped, Onwards

LEMMA ToTyped ==
  ASSUME PodsTyped, NEW j \in Jobs, NEW pc \in {"archive", "record", "failed", "succeeded"}, To(j, pc)
  PROVE  /\ pod' \in [Jobs -> Pods]
         /\ pod'[j].pc = pc /\ pod'[j].stamp = pod[j].stamp /\ pod'[j].try = pod[j].try
         /\ pod'[j].at = pod[j].at
         /\ \A k \in Jobs \ {j} : pod'[k] = pod[k]
PROOF
  <1>1. pod[j] \in Pods
    BY DEF PodsTyped
  <1>3. [pod[j] EXCEPT !.pc = pc, !.tries = 0] \in Pods
    BY <1>1 DEF Pods
  <1>4. pod' = [pod EXCEPT ![j] = [pod[j] EXCEPT !.pc = pc, !.tries = 0]]
    BY DEF To, PodsTyped
  <1> QED BY <1>1, <1>3, <1>4 DEF PodsTyped, Pods

(* A pod's put, whose object the bucket takes only under a stamp it has    *)
(* none for: an archive that is not answered leaves its pod where it was,  *)
(* and one that is answered is the pod's own.                              *)
LEMMA StoresKeeps ==
  ASSUME NEW j \in Jobs, PodsTyped, pod[j].pc \in {"archive", "record"}, Stores(j), Paired, Earned
  PROVE  Kept /\ Paired'
PROOF
  <1>1. CASE Here(j)
    BY <1>1, BucketLeft DEF Stores
  <1>2. CASE ~Here(j) /\ pod[j].pc = "archive"
    <2>1. pod[j].stamp \notin DOMAIN archives
      BY <1>2 DEF Here
    <2>2. archives' = With(archives, pod[j].stamp, Archive(j)) /\ records' = records
      BY <1>2 DEF Stores
    <2> QED BY <2>1, <2>2 DEF With, Kept, Paired
  <1>3. CASE ~Here(j) /\ pod[j].pc = "record"
    <2>1. records' = With(records, pod[j].stamp, Record(j)) /\ archives' = archives
      BY <1>3 DEF Stores
    <2>2. pod[j].stamp \in DOMAIN archives /\ archives[pod[j].stamp].by = Made(j)
      BY <1>3 DEF Earned
    <2> QED BY <2>1, <2>2 DEF With, Kept, Paired, Record
  <1> QED BY <1>1, <1>2, <1>3

LEMMA PutInv ==
  ASSUME Inv, NEW j \in Jobs, Put(j)
  PROVE  Inv'
PROOF
  <1> USE DEF Inv
  <1>0. pod[j] \in Pods /\ pod[j].pc \in {"archive", "record"} /\ now' = now
    BY DEF PodsTyped, Put
  <1>1. ASSUME Kept, Paired', PodsTyped', \A k \in Jobs : Onwards(k)
        PROVE  Inv'
    BY <1>1, EarnedStays
  <1>2. ASSUME Fails(j)
        PROVE  PodsTyped' /\ \A k \in Jobs : Onwards(k)
    <2>1. To(j, "failed")
      BY <1>2 DEF Fails
    <2> QED BY <2>1, <1>0, ToTyped DEF PodsTyped, Onwards
  <1>3. ASSUME Unanswered(j)
        PROVE  PodsTyped' /\ \A k \in Jobs : Onwards(k)
    <2>1. CASE pod' = [pod EXCEPT ![j].tries = @ + 1]
      <3>1. [pod[j] EXCEPT !.tries = @ + 1] \in Pods
        BY <1>0 DEF Pods
      <3>2. pod' = [pod EXCEPT ![j] = [pod[j] EXCEPT !.tries = @ + 1]]
        BY <2>1 DEF PodsTyped
      <3> QED BY <3>1, <3>2, <1>0 DEF PodsTyped, Onwards, Pods
    <2> QED BY <2>1, <1>2, <1>3 DEF Unanswered
  <1>4. CASE Stores(j) /\ Answered(j)
    <2>1. Kept /\ Paired'
      BY <1>4, <1>0, StoresKeeps
    <2>2. CASE Fails(j)
      BY <2>1, <2>2, <1>1, <1>2
    <2>3. CASE ~Here(j) /\ Onward(j) /\ pod[j].pc = "record"
      <3>1. To(j, "succeeded")
        BY <2>3 DEF Onward
      <3>2. PodsTyped' /\ \A k \in Jobs : Onwards(k)
        BY <3>1, <1>0, ToTyped DEF PodsTyped, Onwards
      <3> QED BY <3>2, <2>1, <1>1
    <2>4. CASE ~Here(j) /\ Onward(j) /\ pod[j].pc = "archive"
      <3>1. To(j, "record")
        BY <2>4 DEF Onward
      <3>2. /\ pod' \in [Jobs -> Pods]
            /\ pod'[j].stamp = pod[j].stamp /\ pod'[j].try = pod[j].try
            /\ \A k \in Jobs \ {j} : pod'[k] = pod[k]
        BY <3>1, ToTyped
      <3>3. archives' = With(archives, pod[j].stamp, Archive(j))
        BY <2>4, <1>4 DEF Stores
      <3>4. pod[j].stamp \in DOMAIN archives' /\ archives'[pod[j].stamp].by = Made(j)
        BY <3>3 DEF With, Archive
      <3>5. Earned'
        BY <3>2, <3>4, <2>1 DEF Earned, Kept, Made
      <3> QED BY <3>2, <3>5, <2>1, <1>0 DEF PodsTyped
    <2> QED BY <2>2, <2>3, <2>4, <1>4, <1>0 DEF Answered
  <1>5. CASE Stores(j) /\ Unanswered(j)
    BY <1>5, <1>3, <1>1, <1>0, StoresKeeps
  <1>6. CASE UNCHANGED bucket /\ Unanswered(j)
    BY <1>6, <1>3, <1>1, BucketLeft
  <1>7. CASE UNCHANGED bucket /\ Fails(j)
    BY <1>7, <1>2, <1>1, BucketLeft
  <1> QED BY <1>4, <1>5, <1>6, <1>7 DEF Put

LEMMA NextInv == Inv /\ [Next]_vars => Inv'
PROOF
  <1> SUFFICES ASSUME Inv, [Next]_vars PROVE Inv'
    OBVIOUS
  <1> USE DEF Inv
  <1>1. ASSUME UNCHANGED bucket, PodsTyped', \A k \in Jobs : Onwards(k)
        PROVE  Inv'
    BY <1>1, BucketLeft, EarnedStays
  <1>2. ASSUME NEW j \in Jobs, pod' = [pod EXCEPT ![j] = NewPod(j)], now' = now, UNCHANGED bucket
        PROVE  Inv'
    <2>1. NewPod(j) \in Pods /\ NewPod(j).pc # "record"
      BY DEF PodsTyped, NewPod, Pods
    <2> QED BY <2>1, <1>1, <1>2, SetsOnePod
  <1>3. ASSUME NEW j \in Jobs, NEW p \in Pods, p.pc # "record", pod' = [pod EXCEPT ![j] = p],
               now' = now, UNCHANGED bucket
        PROVE  Inv'
    BY <1>1, <1>3, SetsOnePod
  <1>4. ASSUME NEW j \in Jobs, Fails(j), now' = now, UNCHANGED bucket
        PROVE  Inv'
    <2>1. To(j, "failed")
      BY <1>4 DEF Fails
    <2> QED BY <2>1, <1>1, <1>4, ToTyped DEF PodsTyped, Onwards
  <1>5. ASSUME UNCHANGED <<pod, now, bucket>>
        PROVE  Inv'
    BY <1>5, <1>1, KeepsPods
  <1>6. ASSUME NEW j \in Jobs, Start(j)
        PROVE  Inv'
    BY <1>6, <1>2 DEF Start, bucket
  <1>7. ASSUME NEW j \in Jobs, Retry(j)
        PROVE  Inv'
    BY <1>7, <1>2 DEF Retry, bucket
  <1>8. ASSUME NEW j \in Jobs, JobEnds(j)
        PROVE  Inv'
    BY <1>8, <1>5 DEF JobEnds, bucket
  <1>9. ASSUME NEW j \in Jobs, JobExpires(j)
        PROVE  Inv'
    <2>1. CASE UNCHANGED pod
      BY <2>1, <1>9, <1>5 DEF JobExpires, bucket
    <2>2. CASE pod' = [pod EXCEPT ![j].pc = "failed"]
      <3>1. pod[j] \in Pods
        BY DEF PodsTyped
      <3>2. [pod[j] EXCEPT !.pc = "failed"] \in Pods
        BY <3>1 DEF Pods
      <3>3. pod' = [pod EXCEPT ![j] = [pod[j] EXCEPT !.pc = "failed"]]
        BY <2>2 DEF PodsTyped
      <3>4. [pod[j] EXCEPT !.pc = "failed"].pc # "record"
        BY <3>1 DEF Pods
      <3> QED BY <3>2, <3>3, <3>4, <1>9, <1>3 DEF JobExpires, bucket
    <2> QED BY <2>1, <2>2, <1>9 DEF JobExpires
  <1>10. ASSUME NEW j \in Jobs, CronSees(j)
         PROVE  Inv'
    BY <1>10, <1>5 DEF CronSees, bucket
  <1>11. ASSUME NEW j \in Jobs, CleanUp(j)
         PROVE  Inv'
    BY <1>11, <1>5 DEF CleanUp, bucket
  <1>12. ASSUME NEW j \in Jobs, Copy(j)
         PROVE  Inv'
    <2>1. CASE pod' = [pod EXCEPT ![j].pc = "archive", ![j].at = now]
      <3>1. pod[j] \in Pods /\ now \in Nat
        BY DEF PodsTyped
      <3>2. [pod[j] EXCEPT !.pc = "archive", !.at = now] \in Pods
        BY <3>1 DEF Pods
      <3>3. pod' = [pod EXCEPT ![j] = [pod[j] EXCEPT !.pc = "archive", !.at = now]]
        BY <2>1 DEF PodsTyped
      <3>4. [pod[j] EXCEPT !.pc = "archive", !.at = now].pc # "record"
        BY <3>1 DEF Pods
      <3> QED BY <3>2, <3>3, <3>4, <1>12, <1>3 DEF Copy, bucket
    <2>2. CASE Fails(j)
      BY <2>2, <1>12, <1>4 DEF Copy, bucket
    <2> QED BY <2>1, <2>2, <1>12 DEF Copy
  <1>13. ASSUME NEW j \in Jobs, PodLost(j)
         PROVE  Inv'
    BY <1>13, <1>4 DEF PodLost, bucket
  <1>14. ASSUME NEW j \in Jobs, Put(j)
         PROVE  Inv'
    BY <1>14, PutInv
  <1>15. CASE Status
    BY <1>15, <1>5 DEF Status, bucket
  <1>16. CASE Tick
    BY <1>16, <1>1 DEF Tick, PodsTyped, Onwards, bucket
  <1>17. CASE UNCHANGED vars
    BY <1>17, <1>5 DEF vars, bucket
  <1> QED BY <1>6, <1>7, <1>8, <1>9, <1>10, <1>11, <1>12, <1>13, <1>14, <1>15, <1>16, <1>17 DEF Next

(* The metadata beside an archive is that archive's, whatever the Jobs do: *)
(* what is counted, and what a ready plan names, can be restored.          *)
THEOREM BackupVerifies == Spec => []WhatCountsVerifies
PROOF
  <1>1. Inv => WhatCountsVerifies
    BY DEF Inv, Paired, WhatCountsVerifies, Complete, PlanState
  <1> QED BY <1>1, InitInv, NextInv, PTL DEF Spec

-----------------------------------------------------------------------------
(* What is called current is backed up.  The argument: a complete Job's    *)
(* archive was made while the Job ran, so it is at most Deadline older     *)
(* than the success the CronJob and the status note.                       *)

(* A complete backup of what the database held at this time or later.      *)
Holds(time) == \E s \in Complete : archives[s].at >= time

Phases == {"none", "active", "complete", "failed", "expired", "gone"}
JobsTyped ==
  /\ job \in [Jobs -> [phase : Phases, scheduled : BOOLEAN, started : Nat, ended : Nat]]
  /\ DOMAIN archives \subseteq Nat /\ \A s \in DOMAIN archives : archives[s].at \in Nat
  /\ succeeded \in Nat
  /\ status \in [pc : {"start", "pods", "run"}, succeeded : Nat, owner : SUBSET Jobs]

TimelyJob(j) ==
  /\ Active(j) => job[j].started <= now /\ now <= job[j].started + Deadline
  /\ pod[j].pc \in {"archive", "record"} => pod[j].at >= job[j].started
  /\ pod[j].pc = "record" => archives[pod[j].stamp].at >= job[j].started
  /\ pod[j].pc = "succeeded" => Holds(job[j].started)
  /\ job[j].phase = "complete" => Holds(job[j].ended - Deadline)

Noted == \A at \in {succeeded, status.succeeded} : at # 0 => Holds(at - Deadline)

Timely == JobsTyped /\ (\A j \in Jobs : TimelyJob(j)) /\ Noted

Grows == Kept /\ DOMAIN records \subseteq DOMAIN records'

LEMMA HoldsStays ==
  ASSUME Grows, NEW time, Holds(time)
  PROVE  Holds(time)'
  BY DEF Grows, Kept, Holds, Complete

LEMMA NotedStays ==
  ASSUME Grows, Noted, UNCHANGED readers
  PROVE  Noted'
  BY HoldsStays DEF Noted, readers

(* A Job whose phase, start and pod a step leaves alone.                   *)
LEMMA TimelyStays ==
  ASSUME NEW j \in Jobs, Grows, Earned, TimelyJob(j),
         job'[j] = job[j], pod'[j] = pod[j], now' = now
  PROVE  TimelyJob(j)'
  BY HoldsStays DEF TimelyJob, Earned, Grows, Kept, Active

LEMMA BucketGrows ==
  ASSUME UNCHANGED bucket
  PROVE  Grows
  BY DEF bucket, Grows, Kept

LEMMA StoresGrows ==
  ASSUME NEW j \in Jobs, Inv, pod[j].pc \in {"archive", "record"}, Stores(j)
  PROVE  Grows
PROOF
  <1>1. Kept
    BY StoresKeeps DEF Inv
  <1>2. CASE UNCHANGED bucket
    BY <1>2, BucketGrows
  <1>3. CASE UNCHANGED records
    BY <1>1, <1>3 DEF Grows
  <1>4. CASE records' = With(records, pod[j].stamp, Record(j))
    BY <1>1, <1>4 DEF Grows, With
  <1> QED BY <1>2, <1>3, <1>4 DEF Stores

LEMMA InitTimely == Init => Timely
PROOF
  <1> SUFFICES ASSUME Init PROVE Timely
    OBVIOUS
  <1>1. JobsTyped
    <2>1. NoJob \in [phase : Phases, scheduled : BOOLEAN, started : Nat, ended : Nat]
      BY DEF NoJob, Phases
    <2>2. /\ DOMAIN archives = {} /\ succeeded = 0
          /\ status \in [pc : {"start", "pods", "run"}, succeeded : Nat, owner : SUBSET Jobs]
      BY DEF Init, NoStatus
    <2> QED BY <2>1, <2>2 DEF Init, JobsTyped
  <1>2. ASSUME NEW j \in Jobs PROVE TimelyJob(j)
    BY DEF Init, TimelyJob, NoJob, NoPod, Active
  <1>3. Noted
    BY DEF Init, Noted, NoStatus
  <1> QED BY <1>1, <1>2, <1>3 DEF Timely

(* The steps of one Job, each of which leaves the readers alone.           *)
LEMMA OfOneJob ==
  ASSUME NEW j \in Jobs, Inv, Timely, Grows, UNCHANGED readers, now' = now,
         JobsTyped', \A k \in Jobs \ {j} : job'[k] = job[k] /\ pod'[k] = pod[k],
         TimelyJob(j)'
  PROVE  Timely'
PROOF
  <1>1. \A k \in Jobs \ {j} : TimelyJob(k)'
    BY TimelyStays DEF Timely, Inv
  <1> QED BY <1>1, NotedStays DEF Timely

LEMMA TimelyPut ==
  ASSUME NEW j \in Jobs, Inv, Timely, Put(j)
  PROVE  Timely'
PROOF
  <1>0. /\ pod[j] \in Pods /\ pod[j].pc \in {"archive", "record"} /\ now' = now /\ job' = job
        /\ UNCHANGED readers /\ now \in Nat /\ TimelyJob(j) /\ JobsTyped /\ Paired /\ Earned
        /\ PodsTyped
    BY DEF PodsTyped, Put, Inv, Timely
  <1>1. Grows
    BY <1>0, StoresGrows, BucketGrows DEF Put
  <1>2. JobsTyped'
    <2>1. CASE UNCHANGED archives
      BY <2>1, <1>0 DEF JobsTyped, readers
    <2>2. CASE archives' = With(archives, pod[j].stamp, Archive(j))
      <3>1. pod[j].stamp \in Nat /\ pod[j].at \in Nat
        BY <1>0 DEF Pods
      <3>2. DOMAIN archives' = DOMAIN archives \cup {pod[j].stamp}
        BY <2>2 DEF With
      <3>3. \A s \in DOMAIN archives' : archives'[s].at \in Nat
        BY <2>2, <3>1, <1>0 DEF With, Archive, JobsTyped
      <3> QED BY <3>1, <3>2, <3>3, <1>0 DEF JobsTyped, readers
    <2> QED BY <2>1, <2>2 DEF Put, Stores, bucket
  <1>3. ASSUME Fails(j)
        PROVE  Timely'
    <2>1. pod'[j].pc = "failed" /\ \A k \in Jobs \ {j} : pod'[k] = pod[k]
      BY <1>3, <1>0, ToTyped DEF Fails
    <2>2. TimelyJob(j)'
      BY <2>1, <1>0, <1>1, HoldsStays DEF TimelyJob, Active
    <2> QED BY <2>1, <2>2, <1>0, <1>1, <1>2, OfOneJob
  <1>4. ASSUME pod' = [pod EXCEPT ![j].tries = @ + 1]
        PROVE  Timely'
    <2>1. /\ pod'[j].pc = pod[j].pc /\ pod'[j].at = pod[j].at /\ pod'[j].stamp = pod[j].stamp
          /\ \A k \in Jobs \ {j} : pod'[k] = pod[k]
      BY <1>4, <1>0 DEF PodsTyped, Pods
    <2>2. TimelyJob(j)'
      BY <2>1, <1>0, <1>1, HoldsStays DEF TimelyJob, Active, Earned, Grows, Kept
    <2> QED BY <2>1, <2>2, <1>0, <1>1, <1>2, OfOneJob
  <1>5. CASE Stores(j) /\ ~Here(j) /\ Onward(j) /\ pod[j].pc = "archive"
    <2>1. To(j, "record")
      BY <1>5 DEF Onward
    <2>2. /\ pod'[j].pc = "record" /\ pod'[j].at = pod[j].at /\ pod'[j].stamp = pod[j].stamp
          /\ \A k \in Jobs \ {j} : pod'[k] = pod[k]
      BY <2>1, <1>0, ToTyped
    <2>3. archives' = With(archives, pod[j].stamp, Archive(j))
      BY <1>5 DEF Stores
    <2>4. archives'[pod[j].stamp].at = pod[j].at
      BY <2>3 DEF With, Archive
    <2>5. TimelyJob(j)'
      BY <2>2, <2>4, <1>0, <1>1, HoldsStays DEF TimelyJob, Active
    <2> QED BY <2>2, <2>5, <1>0, <1>1, <1>2, OfOneJob
  <1>6. CASE Stores(j) /\ ~Here(j) /\ Onward(j) /\ pod[j].pc = "record"
    <2>1. To(j, "succeeded")
      BY <1>6 DEF Onward
    <2>2. pod'[j].pc = "succeeded" /\ \A k \in Jobs \ {j} : pod'[k] = pod[k]
      BY <2>1, <1>0, ToTyped
    <2>3. records' = With(records, pod[j].stamp, Record(j)) /\ archives' = archives
      BY <1>6 DEF Stores
    <2>4. pod[j].stamp \in Complete'
      BY <2>3, <1>6, <1>0 DEF With, Complete, Earned
    <2>5. archives'[pod[j].stamp].at >= job[j].started
      BY <2>3, <1>6, <1>0 DEF TimelyJob
    <2>6. Holds(job[j].started)'
      BY <2>4, <2>5, <1>0 DEF Holds
    <2>7. TimelyJob(j)'
      BY <2>2, <2>6, <1>0, <1>1, HoldsStays DEF TimelyJob, Active
    <2> QED BY <2>2, <2>7, <1>0, <1>1, <1>2, OfOneJob
  <1> QED BY <1>3, <1>4, <1>5, <1>6, <1>0 DEF Put, Answered, Unanswered

(* The steps of the Jobs and their pods that touch no object.              *)
LEMMA TimelyJobs ==
  ASSUME NEW j \in Jobs, Inv, Timely, UNCHANGED <<bucket, readers>>, now' = now,
         NEW J, J \in [phase : Phases, scheduled : BOOLEAN, started : Nat, ended : Nat],
         NEW p, p \in Pods,
         job' = [job EXCEPT ![j] = J], pod' = [pod EXCEPT ![j] = p],
         J.phase = "active" => J.started <= now /\ now <= J.started + Deadline,
         p.pc = "archive" => p.at >= J.started,
         p.pc # "record",
         p.pc = "succeeded" => Holds(J.started),
         J.phase = "complete" => Holds(J.ended - Deadline)
  PROVE  Timely'
PROOF
  <1>1. job \in [Jobs -> [phase : Phases, scheduled : BOOLEAN, started : Nat, ended : Nat]]
        /\ pod \in [Jobs -> Pods] /\ JobsTyped
    BY DEF Inv, PodsTyped, Timely, JobsTyped
  <1>2. job'[j] = J /\ pod'[j] = p /\ \A k \in Jobs \ {j} : job'[k] = job[k] /\ pod'[k] = pod[k]
    BY <1>1
  <1>3. JobsTyped'
    <2>1. job' \in [Jobs -> [phase : Phases, scheduled : BOOLEAN, started : Nat, ended : Nat]]
      BY <1>1
    <2> QED BY <2>1, <1>1 DEF JobsTyped, bucket, readers
  <1>4. Grows
    BY BucketGrows
  <1>5. TimelyJob(j)'
    BY <1>2, <1>4, HoldsStays DEF TimelyJob, Active
  <1> QED BY <1>2, <1>3, <1>4, <1>5, OfOneJob

LEMMA TimelyNext == Inv /\ Timely /\ [Next]_vars => Timely'
PROOF
  <1> SUFFICES ASSUME Inv, Timely, [Next]_vars PROVE Timely'
    OBVIOUS
  <1> DEFINE JobType == [phase : Phases, scheduled : BOOLEAN, started : Nat, ended : Nat]
  <1>0. /\ job \in [Jobs -> JobType] /\ pod \in [Jobs -> Pods] /\ now \in Nat
        /\ Deadline \in Nat /\ \A j \in Jobs : TimelyJob(j)
    BY BackupAssumption DEF Inv, PodsTyped, Timely, JobsTyped
  <1>1. ASSUME NEW j \in Jobs, Start(j)
        PROVE  Timely'
    <2>1. PICK scheduled \in BOOLEAN :
            job' = [job EXCEPT ![j] = [phase |-> "active", scheduled |-> scheduled,
                                       started |-> now, ended |-> 0]]
      BY <1>1 DEF Start
    <2>2. [phase |-> "active", scheduled |-> scheduled, started |-> now, ended |-> 0] \in JobType
      BY <1>0 DEF Phases
    <2>3. NewPod(j) \in Pods /\ NewPod(j).pc = "copy"
      BY <1>0 DEF NewPod, Pods
    <2>4. now <= now /\ now <= now + Deadline
      BY <1>0
    <2>5. pod' = [pod EXCEPT ![j] = NewPod(j)] /\ UNCHANGED <<now, bucket, readers>>
      BY <1>1 DEF Start
    <2> HIDE DEF JobType
    <2> DEFINE J == [phase |-> "active", scheduled |-> scheduled, started |-> now, ended |-> 0]
    <2>6. J \in JobType /\ J.phase = "active" /\ J.started = now /\ job' = [job EXCEPT ![j] = J]
      BY <2>1, <2>2
    <2> HIDE DEF J
    <2> QED BY <2>3, <2>4, <2>5, <2>6, TimelyJobs DEF JobType
  <1>2. ASSUME NEW j \in Jobs, NEW p \in Pods, pod' = [pod EXCEPT ![j] = p], UNCHANGED job,
               Active(j), p.pc \in {"copy", "failed", "archive"}, p.pc = "archive" => p.at = now,
               UNCHANGED <<now, bucket, readers>>
        PROVE  Timely'
    <2>1. job' = [job EXCEPT ![j] = job[j]] /\ job[j] \in JobType
      BY <1>0, <1>2
    <2>2. TimelyJob(j)
      BY <1>0
    <2>3. job[j].started \in Nat
      BY <2>1
    <2>4. job[j].phase = "active" /\ job[j].started <= now /\ now <= job[j].started + Deadline
      BY <2>2, <1>2 DEF TimelyJob, Active
    <2> QED BY <2>1, <2>4, <1>2, TimelyJobs
  <1>3. ASSUME NEW j \in Jobs, Retry(j)
        PROVE  Timely'
    <2>1. NewPod(j) \in Pods /\ NewPod(j).pc = "copy"
      BY <1>0 DEF NewPod, Pods
    <2> QED BY <2>1, <1>2, <1>3 DEF Retry
  <1>4. ASSUME NEW j \in Jobs, JobEnds(j)
        PROVE  Timely'
    <2>1. TimelyJob(j) /\ job[j] \in JobType /\ pod[j] \in Pods
      BY <1>0
    <2>2. pod' = [pod EXCEPT ![j] = pod[j]]
      BY <1>0, <1>4 DEF JobEnds
    <2>3. CASE pod[j].pc = "succeeded" /\ EndJob(j, "complete")
      <3>1. job' = [job EXCEPT ![j] = [job[j] EXCEPT !.phase = "complete", !.ended = now]]
        BY <2>3, <1>0 DEF EndJob
      <3>2. [job[j] EXCEPT !.phase = "complete", !.ended = now] \in JobType
        BY <2>1, <1>0 DEF Phases
      <3>3. Holds(job[j].started) /\ now - Deadline <= job[j].started
        BY <2>1, <2>3, <1>4, <1>0 DEF TimelyJob, JobEnds
      <3>4. Holds(now - Deadline)
        BY <3>3, <2>1, <1>0 DEF Holds, Timely, JobsTyped, Complete
      <3> QED BY <3>1, <3>2, <3>3, <3>4, <2>1, <2>2, <2>3, <1>4, TimelyJobs DEF JobEnds
    <2>4. CASE pod[j].pc = "failed" /\ EndJob(j, "failed")
      <3>1. job' = [job EXCEPT ![j] = [job[j] EXCEPT !.phase = "failed", !.ended = now]]
        BY <2>4, <1>0 DEF EndJob
      <3>2. [job[j] EXCEPT !.phase = "failed", !.ended = now] \in JobType
        BY <2>1, <1>0 DEF Phases
      <3> QED BY <3>1, <3>2, <2>1, <2>2, <2>4, <1>4, TimelyJobs DEF JobEnds
    <2> QED BY <2>3, <2>4, <1>4 DEF JobEnds
  <1>5. ASSUME NEW j \in Jobs, JobExpires(j)
        PROVE  Timely'
    <2> DEFINE J == [job[j] EXCEPT !.phase = "expired", !.ended = now]
    <2>1. TimelyJob(j) /\ job[j] \in JobType /\ pod[j] \in Pods
      BY <1>0
    <2>2. job' = [job EXCEPT ![j] = J]
      BY <1>5, <1>0 DEF JobExpires, EndJob
    <2>3. J \in JobType /\ J.phase = "expired" /\ J.started = job[j].started
      BY <2>1, <1>0 DEF Phases
    <2> HIDE DEF J
    <2>4. CASE pod[j].pc \in {"failed", "succeeded"}
      <3>1. pod' = [pod EXCEPT ![j] = pod[j]]
        BY <2>4, <1>5, <1>0 DEF JobExpires
      <3>2. pod[j].pc = "succeeded" => Holds(J.started)
        BY <2>1, <2>3 DEF TimelyJob
      <3> QED BY <3>1, <3>2, <2>1, <2>2, <2>3, <2>4, <1>5, TimelyJobs DEF JobExpires
    <2>5. CASE pod[j].pc \notin {"failed", "succeeded"}
      <3>1. pod' = [pod EXCEPT ![j] = [pod[j] EXCEPT !.pc = "failed"]]
        BY <2>5, <1>5, <1>0 DEF JobExpires
      <3>2. [pod[j] EXCEPT !.pc = "failed"] \in Pods /\ [pod[j] EXCEPT !.pc = "failed"].pc = "failed"
        BY <2>1 DEF Pods
      <3> QED BY <3>1, <3>2, <2>2, <2>3, <1>5, TimelyJobs DEF JobExpires
    <2> QED BY <2>4, <2>5
  <1>6. ASSUME NEW j \in Jobs, CronSees(j)
        PROVE  Timely'
    <2>1. Holds(succeeded' - Deadline) /\ succeeded' \in Nat /\ UNCHANGED <<now, job, pod, bucket, status>>
      BY <1>6, <1>0 DEF CronSees, TimelyJob
    <2>2. \A k \in Jobs : TimelyJob(k)'
      BY <2>1, <1>0, BucketGrows, TimelyStays DEF Inv
    <2>3. Noted'
      BY <2>1, BucketGrows, HoldsStays DEF Timely, Noted
    <2>4. JobsTyped'
      BY <2>1 DEF Timely, JobsTyped, bucket
    <2> QED BY <2>2, <2>3, <2>4 DEF Timely
  <1>7. ASSUME NEW j \in Jobs, CleanUp(j)
        PROVE  Timely'
    <2> DEFINE J == [job[j] EXCEPT !.phase = "gone"]
    <2>1. TimelyJob(j) /\ job[j] \in JobType /\ pod[j] \in Pods
      BY <1>0
    <2>2. pod' = [pod EXCEPT ![j] = pod[j]] /\ UNCHANGED <<now, bucket, readers>>
      BY <1>7, <1>0 DEF CleanUp
    <2>3. CASE job' = [job EXCEPT ![j].phase = "gone"]
      <3>1. job' = [job EXCEPT ![j] = J]
        BY <2>3, <1>0
      <3>2. J \in JobType /\ J.phase = "gone" /\ J.started = job[j].started
        BY <2>1 DEF Phases
      <3> HIDE DEF J
      <3>3. CASE pod[j].pc # "record"
        BY <3>1, <3>2, <3>3, <2>1, <2>2, TimelyJobs DEF TimelyJob
      <3>4. CASE pod[j].pc = "record"
        <4>1. job'[j] = J /\ \A k \in Jobs \ {j} : job'[k] = job[k]
          BY <3>1, <1>0
        <4>2. pod' = pod /\ Grows
          BY <2>2, <1>7, BucketGrows DEF CleanUp
        <4>3. JobsTyped'
          BY <3>1, <3>2, <2>2, <1>0 DEF Timely, JobsTyped, bucket, readers
        <4>4. TimelyJob(j)'
          BY <4>1, <4>2, <3>2, <3>4, <2>1, <2>2 DEF TimelyJob, Active, bucket
        <4> QED BY <4>1, <4>2, <4>3, <4>4, <2>2, OfOneJob
      <3> QED BY <3>3, <3>4
    <2>4. CASE UNCHANGED job
      <3>1. \A k \in Jobs : TimelyJob(k)'
        BY <2>2, <2>4, <1>7, <1>0, BucketGrows, TimelyStays DEF Inv, CleanUp
      <3>2. Noted' /\ JobsTyped'
        BY <2>2, <2>4, BucketGrows, NotedStays DEF Timely, JobsTyped, bucket, readers
      <3> QED BY <3>1, <3>2 DEF Timely
    <2> QED BY <2>3, <2>4, <1>7 DEF CleanUp
  <1>8. ASSUME NEW j \in Jobs, Copy(j)
        PROVE  Timely'
    <2>1. pod[j] \in Pods
      BY <1>0
    <2>2. CASE pod' = [pod EXCEPT ![j].pc = "archive", ![j].at = now]
      <3>1. [pod[j] EXCEPT !.pc = "archive", !.at = now] \in Pods
        BY <2>1, <1>0 DEF Pods
      <3>2. pod' = [pod EXCEPT ![j] = [pod[j] EXCEPT !.pc = "archive", !.at = now]]
        BY <2>2, <1>0
      <3>3. /\ [pod[j] EXCEPT !.pc = "archive", !.at = now].pc = "archive"
            /\ [pod[j] EXCEPT !.pc = "archive", !.at = now].at = now
        BY <2>1 DEF Pods
      <3> QED BY <3>1, <3>2, <3>3, <1>2, <1>8 DEF Copy
    <2>3. CASE Fails(j)
      <3>1. [pod[j] EXCEPT !.pc = "failed", !.tries = 0] \in Pods
        BY <2>1 DEF Pods
      <3>2. pod' = [pod EXCEPT ![j] = [pod[j] EXCEPT !.pc = "failed", !.tries = 0]]
        BY <2>3, <1>0 DEF Fails, To
      <3> QED BY <3>1, <3>2, <2>1, <1>2, <1>8 DEF Copy, Pods
    <2> QED BY <2>2, <2>3, <1>8 DEF Copy
  <1>9. ASSUME NEW j \in Jobs, PodLost(j)
        PROVE  Timely'
    <2>1. pod[j] \in Pods
      BY <1>0
    <2>2. [pod[j] EXCEPT !.pc = "failed", !.tries = 0] \in Pods
      BY <2>1 DEF Pods
    <2>3. pod' = [pod EXCEPT ![j] = [pod[j] EXCEPT !.pc = "failed", !.tries = 0]]
      BY <1>9, <1>0 DEF PodLost, Fails, To
    <2> QED BY <2>1, <2>2, <2>3, <1>2, <1>9 DEF PodLost, Pods
  <1>10. CASE Status
    <2>1. UNCHANGED <<now, job, pod, bucket, succeeded>>
      BY <1>10 DEF Status
    <2>2. /\ status'.succeeded \in {0, succeeded, status.succeeded}
          /\ status' \in [pc : {"start", "pods", "run"}, succeeded : Nat, owner : SUBSET Jobs]
      <3>1. /\ status \in [pc : {"start", "pods", "run"}, succeeded : Nat, owner : SUBSET Jobs]
            /\ succeeded \in Nat
        BY DEF Timely, JobsTyped
      <3>2. CASE StatusCron
        BY <3>1, <3>2 DEF StatusCron, NoStatus
      <3>3. CASE StatusPods
        <4>1. CASE status' = NoStatus
          BY <4>1 DEF NoStatus
        <4>2. CASE \E j \in NewestRuns : status' = [status EXCEPT !.pc = "run", !.owner = {j}]
          BY <4>2, <3>1 DEF NewestRuns
        <4> QED BY <4>1, <4>2, <3>3 DEF StatusPods
      <3>4. CASE StatusRun
        BY <3>1, <3>4 DEF StatusRun, NoStatus
      <3> QED BY <3>2, <3>3, <3>4, <1>10 DEF Status
    <2>3. \A k \in Jobs : TimelyJob(k)'
      BY <2>1, <1>0, BucketGrows, TimelyStays DEF Inv
    <2>4. Noted'
      BY <2>1, <2>2, BucketGrows, HoldsStays DEF Timely, Noted
    <2>5. JobsTyped'
      BY <2>1, <2>2 DEF Timely, JobsTyped, bucket
    <2> QED BY <2>3, <2>4, <2>5 DEF Timely
  <1>11. CASE Tick
    <2>1. now' = now + 1 /\ UNCHANGED <<job, pod, bucket, readers>>
      BY <1>11 DEF Tick
    <2>2. ASSUME NEW k \in Jobs
          PROVE  TimelyJob(k)'
      <3>1. TimelyJob(k) /\ job[k].started \in Nat
        BY <1>0
      <3>2. Active(k) => now - job[k].started < Deadline
        BY <1>11 DEF Tick
      <3>3. Active(k)' => job[k].started <= now' /\ now' <= job[k].started + Deadline
        BY <3>1, <3>2, <2>1, <1>0 DEF TimelyJob, Active
      <3>4. Grows
        BY <2>1, BucketGrows
      <3> QED BY <3>1, <3>3, <3>4, <2>1, HoldsStays DEF TimelyJob, bucket, Active
    <2>3. Noted' /\ JobsTyped'
      BY <2>1, BucketGrows, NotedStays DEF Timely, JobsTyped, bucket, readers
    <2> QED BY <2>2, <2>3 DEF Timely
  <1>12. CASE UNCHANGED vars
    <2>1. UNCHANGED <<now, job, pod, bucket, readers>>
      BY <1>12 DEF vars, bucket, readers
    <2>2. \A k \in Jobs : TimelyJob(k)'
      BY <2>1, <1>0, BucketGrows, TimelyStays DEF Inv
    <2>3. Noted' /\ JobsTyped'
      BY <2>1, BucketGrows, NotedStays DEF Timely, JobsTyped, bucket, readers
    <2> QED BY <2>2, <2>3 DEF Timely
  <1> QED BY <1>1, <1>3, <1>4, <1>5, <1>6, <1>7, <1>8, <1>9, <1>10, <1>11, <1>12, TimelyPut DEF Next

(* An instance whose backup is called current has one, complete and of     *)
(* what the database held at most a run before MaxAge ago, for any Jobs,   *)
(* deadline and age, however the status' reads fall between their steps.   *)
THEOREM CurrentHasBackup == Spec => []CurrentIsBackedUp
PROOF
  <1>1. ASSUME Inv, Timely
        PROVE  CurrentIsBackedUp
    <2> SUFFICES ASSUME NEW j \in status.owner, BackupState(j) = "current"
                 PROVE  \E s \in Complete : /\ records[s].of = archives[s].by
                                            /\ archives[s].at >= now - MaxAge - Deadline
      BY DEF CurrentIsBackedUp
    <2>0. j \in Jobs
      <3>1. status.owner \in SUBSET Jobs
        BY <1>1 DEF Timely, JobsTyped
      <3> QED BY <3>1
    <2>1. /\ j \in Jobs /\ now \in Nat /\ {MaxAge, Deadline} \subseteq Nat /\ TimelyJob(j)
          /\ job[j].ended \in Nat /\ status.succeeded \in Nat /\ Paired
          /\ \A s \in DOMAIN archives : archives[s].at \in Nat
      BY <1>1, <2>0, BackupAssumption DEF Inv, PodsTyped, Timely, JobsTyped
    <2>2. SucceededAt(j) \in Nat
      BY <2>1 DEF SucceededAt
    <2>3. SucceededAt(j) # 0 /\ now - SucceededAt(j) <= MaxAge
      BY <2>1, <2>2 DEF BackupState, SuccessState
    <2>4. Holds(SucceededAt(j) - Deadline)
      <3>1. CASE status.succeeded = 0 /\ job[j].phase = "complete"
        BY <3>1, <2>1 DEF SucceededAt, TimelyJob
      <3>2. CASE ~(status.succeeded = 0 /\ job[j].phase = "complete")
        BY <1>1, <3>2, <2>3 DEF SucceededAt, Timely, Noted
      <3> QED BY <3>1, <3>2
    <2>5. PICK s \in Complete : archives[s].at >= SucceededAt(j) - Deadline
      BY <2>4 DEF Holds
    <2>6. archives[s].at >= now - MaxAge - Deadline
      BY <2>1, <2>2, <2>3, <2>5 DEF Complete
    <2>7. records[s].of = archives[s].by
      BY <2>1 DEF Paired, Complete
    <2> QED BY <2>6, <2>7
  <1> QED BY <1>1, InitInv, NextInv, InitTimely, TimelyNext, PTL DEF Spec

-----------------------------------------------------------------------------
(* A Job fails only in trouble.  The argument: every fault is charged to   *)
(* the stamp of the pod it met.  The first pod to publish under a stamp    *)
(* fails only by a fault of its own, so a pod that finds its stamp taken   *)
(* either meets the Job that published under it, or a stamp that is        *)
(* charged; and the pods of one Job have stamps of their own.              *)

Tried(j) == job[j].phase \in {"active", "failed"}

(* The stamps of the Job's pods that have failed.                          *)
Lost(j) == {s \in left[j] : s # pod[j].stamp \/ pod[j].pc = "failed"}

Excused(F, j) ==
  Tried(j) => \A s \in Lost(j) : s \in F \/ (s \in DOMAIN archives /\ archives[s].by[1] # j)

PublishedBy(s, k) ==
  /\ archives[s].by = Made(k) /\ pod[k].stamp = s
  /\ pod[k].pc \notin {"none", "copy", "archive"}
  /\ Active(k) => pod[k].pc # "failed"

Unrecorded(F, j) ==
  pod[j].pc = "record" => pod[j].stamp \in F \/ pod[j].stamp \notin DOMAIN records

Charged(F) ==
  /\ \A j \in Jobs : Excused(F, j) /\ Unrecorded(F, j)
  /\ \A s \in DOMAIN archives \ F : \E k \in Jobs : PublishedBy(s, k)

Charges ==
  /\ faults \in Nat
  /\ \E F \in SUBSET Nat : IsFiniteSet(F) /\ Cardinality(F) <= faults /\ Charged(F)

(* A Job's pods have a stamp each, the latest the last.                    *)
ListedJob(j) ==
  /\ job[j].phase = "none" => pod[j] = NoPod
  /\ Tried(j) => /\ left[j] \subseteq 0 .. now /\ pod[j].stamp \in left[j]
                 /\ \A s \in left[j] : s <= pod[j].stamp
                 /\ Cardinality(left[j]) = pod[j].try
  /\ job[j].phase = "failed" => pod[j].pc = "failed" /\ pod[j].try = Attempts

Listed == left \in [Jobs -> SUBSET Nat] /\ \A j \in Jobs : ListedJob(j)

LEMMA MaxIs ==
  ASSUME NEW S \in SUBSET Nat, NEW m \in S, \A s \in S : s <= m
  PROVE  Max(S) = m
PROOF
  <1>1. \A y \in S : m >= y
    OBVIOUS
  <1>2. Max(S) \in S /\ \A y \in S : Max(S) >= y
    BY <1>1 DEF Max
  <1>3. Max(S) \in Nat /\ m \in Nat /\ Max(S) <= m /\ Max(S) >= m
    BY <1>2
  <1> HIDE DEF Max
  <1> QED BY <1>3

(* A step of Job j, which charges its faults to stamps in G.               *)
LEMMA ChargedStep ==
  ASSUME NEW F, NEW G, F \subseteq G, NEW j \in Jobs, Charged(F), Kept,
         \A k \in Jobs \ {j} : job'[k] = job[k] /\ pod'[k] = pod[k] /\ left'[k] = left[k],
         Excused(G, j)', Unrecorded(G, j)',
         \A s \in DOMAIN archives' \ G :
           s \notin DOMAIN archives \/ archives[s].by[1] = j => PublishedBy(s, j)',
         \A k \in Jobs \ {j} : pod[k].pc = "record" /\ pod[k].stamp \in DOMAIN records' =>
           pod[k].stamp \in G \/ pod[k].stamp \in DOMAIN records
  PROVE  Charged(G)'
PROOF
  <1>1. ASSUME NEW k \in Jobs
        PROVE  Excused(G, k)' /\ Unrecorded(G, k)'
    <2>1. CASE k = j
      BY <2>1
    <2>2. CASE k # j
      <3>1. Excused(F, k) /\ Unrecorded(F, k)
        BY DEF Charged
      <3> QED BY <2>2, <3>1 DEF Excused, Unrecorded, Tried, Lost, Kept
    <2> QED BY <2>1, <2>2
  <1>2. ASSUME NEW s \in DOMAIN archives' \ G
        PROVE  \E k \in Jobs : PublishedBy(s, k)'
    <2>1. CASE s \notin DOMAIN archives \/ archives[s].by[1] = j
      BY <2>1
    <2>2. CASE s \in DOMAIN archives /\ archives[s].by[1] # j
      <3>1. PICK k \in Jobs : PublishedBy(s, k)
        BY <2>2 DEF Charged
      <3>2. k # j
        BY <3>1, <2>2 DEF PublishedBy, Made
      <3>3. PublishedBy(s, k)'
        BY <3>1, <3>2, <2>2 DEF PublishedBy, Made, Kept, Active
      <3> QED BY <3>3
    <2> QED BY <2>1, <2>2
  <1> QED BY <1>1, <1>2 DEF Charged

(* The stamps charged after a fault of Job j's pod.                        *)
LEMMA OneMoreAnswer ==
  ASSUME NEW F \in SUBSET Nat, NEW s \in Nat, IsFiniteSet(F), faults \in Nat,
         Cardinality(F) <= faults, faults' = faults + 1
  PROVE  F \cup {s} \in SUBSET Nat /\ IsFiniteSet(F \cup {s}) /\ Cardinality(F \cup {s}) <= faults'
PROOF
  <1>1. IsFiniteSet(F \cup {s}) /\ Cardinality(F) \in Nat
        /\ Cardinality(F \cup {s}) \in {Cardinality(F), Cardinality(F) + 1}
    BY FS_AddElement, FS_CardinalityType
  <1> QED BY <1>1

(* What a fault of j's pod leaves of it: lost, or about to try again.      *)
LEMMA ChargedFault ==
  ASSUME NEW F, NEW j \in Jobs, NEW G, G = F \cup {pod[j].stamp},
         Charged(F), Kept, job' = job, left' = left, Active(j),
         \A k \in Jobs \ {j} : pod'[k] = pod[k],
         pod'[j].stamp = pod[j].stamp,
         pod'[j].pc # "failed" => pod'[j].pc = pod[j].pc,
         DOMAIN archives' \subseteq DOMAIN archives \cup {pod[j].stamp},
         DOMAIN records' \subseteq DOMAIN records \cup {pod[j].stamp}
  PROVE  Charged(G)'
PROOF
  <1>1. Excused(F, j) /\ Tried(j)
    BY DEF Charged, Active, Tried
  <1>2. Excused(G, j)'
    <2>1. \A s \in left[j] : s # pod[j].stamp => s \in F \/ (s \in DOMAIN archives /\ archives[s].by[1] # j)
      BY <1>1 DEF Excused, Lost
    <2> QED BY <2>1 DEF Excused, Lost, Kept
  <1>3. Unrecorded(G, j)'
    BY DEF Unrecorded
  <1>4. ASSUME NEW s \in DOMAIN archives' \ G
        PROVE  ~(s \notin DOMAIN archives \/ archives[s].by[1] = j)
    <2>1. s \in DOMAIN archives \ F
      BY <1>4
    <2>2. PICK k \in Jobs : PublishedBy(s, k)
      BY <2>1 DEF Charged
    <2>3. k # j
      BY <2>2, <1>4 DEF PublishedBy
    <2> QED BY <2>1, <2>2, <2>3 DEF PublishedBy, Made
  <1>5. \A k \in Jobs \ {j} : pod[k].stamp \in DOMAIN records' => pod[k].stamp \in G \/ pod[k].stamp \in DOMAIN records
    OBVIOUS
  <1> QED BY <1>2, <1>3, <1>4, <1>5, ChargedStep

(* A put without a fault: its object is taken, or there is one already.    *)
LEMMA ChargedPut ==
  ASSUME NEW F, NEW j \in Jobs, Inv, Charged(F), job' = job, left' = left, Active(j),
         pod[j].pc \in {"archive", "record"}, Stores(j), Answered(j)
  PROVE  Charged(F)'
PROOF
  <1>0. PodsTyped /\ Paired /\ Earned /\ pod[j] \in Pods
    BY DEF Inv, PodsTyped
  <1>1. Kept
    BY <1>0, StoresKeeps
  <1>2. Excused(F, j) /\ Unrecorded(F, j) /\ Tried(j)
    BY DEF Charged, Active, Tried
  <1>3. ASSUME NEW s \in DOMAIN archives \ F, archives[s].by[1] = j
        PROVE  PublishedBy(s, j) /\ archives[s].by = Made(j)
    BY <1>3 DEF Charged, PublishedBy, Made
  <1>4. CASE Here(j)
    <2>1. To(j, "failed") /\ UNCHANGED bucket
      BY <1>4 DEF Answered, Fails, Stores
    <2>2. /\ pod'[j].pc = "failed" /\ pod'[j].stamp = pod[j].stamp /\ pod'[j].try = pod[j].try
          /\ \A k \in Jobs \ {j} : pod'[k] = pod[k]
      BY <2>1, <1>0, ToTyped
    <2>3. ASSUME pod[j].stamp \notin F
          PROVE  pod[j].stamp \in DOMAIN archives /\ archives[pod[j].stamp].by[1] # j
      <3>1. pod[j].pc = "archive"
        BY <2>3, <1>2, <1>4 DEF Here, Unrecorded
      <3>2. pod[j].stamp \in DOMAIN archives
        BY <3>1, <1>4 DEF Here
      <3> QED BY <3>1, <3>2, <2>3, <1>3 DEF PublishedBy
    <2>4. Excused(F, j)'
      <3>1. \A s \in left[j] : s # pod[j].stamp => s \in F \/ (s \in DOMAIN archives /\ archives[s].by[1] # j)
        BY <1>2 DEF Excused, Lost
      <3> QED BY <3>1, <2>1, <2>3 DEF Excused, Lost, bucket
    <2>5. Unrecorded(F, j)'
      BY <2>2 DEF Unrecorded
    <2>6. ASSUME NEW s \in DOMAIN archives' \ F
          PROVE  ~(s \notin DOMAIN archives \/ archives[s].by[1] = j)
      <3>1. s \in DOMAIN archives \ F
        BY <2>1 DEF bucket
      <3>2. ASSUME archives[s].by[1] = j
            PROVE  FALSE
        <4>1. PublishedBy(s, j)
          BY <3>1, <3>2, <1>3
        <4>2. s = pod[j].stamp /\ pod[j].pc = "record"
          BY <4>1 DEF PublishedBy
        <4> QED BY <4>2, <3>1, <1>2, <1>4 DEF Here, Unrecorded
      <3> QED BY <3>1, <3>2
    <2>7. \A k \in Jobs \ {j} : pod[k].stamp \in DOMAIN records' => pod[k].stamp \in DOMAIN records
      BY <2>1 DEF bucket
    <2> QED BY <1>1, <2>2, <2>4, <2>5, <2>6, <2>7, ChargedStep
  <1>5. CASE ~Here(j) /\ pod[j].pc = "archive"
    <2>1. To(j, "record") /\ archives' = With(archives, pod[j].stamp, Archive(j)) /\ UNCHANGED records
      BY <1>5 DEF Answered, Onward, Stores
    <2>2. /\ pod'[j].pc = "record" /\ pod'[j].stamp = pod[j].stamp /\ pod'[j].try = pod[j].try
          /\ \A k \in Jobs \ {j} : pod'[k] = pod[k]
      BY <2>1, <1>0, ToTyped
    <2>3. pod[j].stamp \notin DOMAIN archives
      BY <1>5 DEF Here
    <2>4. Excused(F, j)'
      BY <1>2, <2>1, <2>2, <1>1, <1>5 DEF Excused, Lost, Kept
    <2>5. Unrecorded(F, j)'
      BY <2>1, <2>2, <2>3, <1>0 DEF Unrecorded, Paired
    <2>6. ASSUME NEW s \in DOMAIN archives' \ F, s \notin DOMAIN archives \/ archives[s].by[1] = j
          PROVE  PublishedBy(s, j)'
      <3>1. CASE s \notin DOMAIN archives
        <4>1. s = pod[j].stamp /\ archives'[s].by = Made(j)
          BY <3>1, <2>1, <2>6 DEF With, Archive
        <4> QED BY <4>1, <2>2 DEF PublishedBy, Made
      <3>2. CASE s \in DOMAIN archives /\ archives[s].by[1] = j
        <4>1. PublishedBy(s, j)
          BY <3>2, <1>3
        <4> QED BY <4>1, <1>5 DEF PublishedBy
      <3> QED BY <3>1, <3>2, <2>6
    <2> QED BY <1>1, <2>1, <2>2, <2>4, <2>5, <2>6, ChargedStep
  <1>6. CASE ~Here(j) /\ pod[j].pc = "record"
    <2>1. To(j, "succeeded") /\ records' = With(records, pod[j].stamp, Record(j)) /\ UNCHANGED archives
      BY <1>6 DEF Answered, Onward, Stores
    <2>2. /\ pod'[j].pc = "succeeded" /\ pod'[j].stamp = pod[j].stamp /\ pod'[j].try = pod[j].try
          /\ \A k \in Jobs \ {j} : pod'[k] = pod[k]
      BY <2>1, <1>0, ToTyped
    <2>3. Excused(F, j)'
      BY <1>2, <2>1, <2>2, <1>6 DEF Excused, Lost
    <2>4. Unrecorded(F, j)'
      BY <2>2 DEF Unrecorded
    <2>5. ASSUME NEW s \in DOMAIN archives' \ F, s \notin DOMAIN archives \/ archives[s].by[1] = j
          PROVE  PublishedBy(s, j)'
      <3>1. PublishedBy(s, j)
        BY <2>1, <2>5, <1>3
      <3> QED BY <3>1, <2>1, <2>2 DEF PublishedBy, Made
    <2>6. ASSUME NEW k \in Jobs \ {j}, pod[k].pc = "record", pod[k].stamp \in DOMAIN records'
          PROVE  pod[k].stamp \in DOMAIN records
      <3>1. pod[k].stamp # pod[j].stamp
        <4>1. archives[pod[k].stamp].by = Made(k) /\ archives[pod[j].stamp].by = Made(j)
          BY <2>6, <1>6, <1>0 DEF Earned
        <4> QED BY <4>1 DEF Made
      <3> QED BY <3>1, <2>1, <2>6 DEF With
    <2> QED BY <1>1, <2>2, <2>3, <2>4, <2>5, <2>6, ChargedStep
  <1> QED BY <1>4, <1>5, <1>6

LEMMA ListedStep ==
  ASSUME NEW j \in Jobs, Listed, now' = now, left' \in [Jobs -> SUBSET Nat],
         \A k \in Jobs \ {j} : job'[k] = job[k] /\ pod'[k] = pod[k] /\ left'[k] = left[k],
         ListedJob(j)'
  PROVE  Listed'
PROOF
  <1>1. ASSUME NEW k \in Jobs \ {j}
        PROVE  ListedJob(k)'
    BY DEF Listed, ListedJob, Tried
  <1> QED BY <1>1 DEF Listed

(* A step of Job j's running pod.                                          *)
LEMMA ListedPod ==
  ASSUME NEW j \in Jobs, Listed, now' = now, job' = job, left' = left, Active(j),
         \A k \in Jobs \ {j} : pod'[k] = pod[k],
         pod'[j].stamp = pod[j].stamp, pod'[j].try = pod[j].try
  PROVE  Listed'
PROOF
  <1>1. ListedJob(j)'
    BY DEF Listed, ListedJob, Tried, Active
  <1> QED BY <1>1, ListedStep DEF Listed

(* A put, as a pod makes it, and whatever else befalls a running pod.      *)
PodStep(j) ==
  /\ Active(j) /\ pod[j].pc \notin {"failed", "succeeded"}
  /\ UNCHANGED <<now, job, left, readers>>
  /\ pod'[j].stamp = pod[j].stamp /\ pod'[j].try = pod[j].try
  /\ \A k \in Jobs \ {j} : pod'[k] = pod[k]

LEMMA PodSteps ==
  ASSUME NEW j \in Jobs, Inv, Copy(j) \/ PodLost(j) \/ Put(j)
  PROVE  PodStep(j)
PROOF
  <1>0. PodsTyped /\ pod[j] \in Pods
    BY DEF Inv, PodsTyped
  <1>1. ASSUME NEW pc \in {"archive", "record", "failed", "succeeded"}, To(j, pc)
        PROVE  /\ pod'[j].stamp = pod[j].stamp /\ pod'[j].try = pod[j].try
               /\ \A k \in Jobs \ {j} : pod'[k] = pod[k]
    BY <1>0, <1>1, ToTyped
  <1>2. CASE Copy(j)
    <2>1. CASE pod' = [pod EXCEPT ![j].pc = "archive", ![j].at = now]
      BY <2>1, <1>2, <1>0 DEF Copy, PodsTyped, Pods, PodStep
    <2>2. CASE Fails(j)
      BY <2>2, <1>2, <1>1 DEF Copy, PodStep, Fails
    <2> QED BY <2>1, <2>2, <1>2 DEF Copy
  <1>3. CASE PodLost(j)
    BY <1>3, <1>1 DEF PodLost, PodStep, Fails, bucket
  <1>4. CASE Put(j)
    <2>1. CASE Fails(j)
      BY <2>1, <1>4, <1>1 DEF Put, PodStep, Fails
    <2>2. CASE Onward(j)
      BY <2>2, <1>4, <1>1 DEF Put, PodStep, Onward
    <2>3. CASE pod' = [pod EXCEPT ![j].tries = @ + 1]
      BY <2>3, <1>4, <1>0 DEF Put, PodStep, PodsTyped, Pods
    <2> QED BY <2>1, <2>2, <2>3, <1>4 DEF Put, Answered, Unanswered
  <1> QED BY <1>2, <1>3, <1>4

(* A new pod's stamp is later than those of its Job's earlier pods.        *)
LEMMA ListedNew ==
  ASSUME NEW j \in Jobs, Inv, JobsTyped, Listed, Start(j) \/ Retry(j)
  PROVE  Listed'
PROOF
  <1>0. /\ pod \in [Jobs -> Pods] /\ now \in Nat /\ left \in [Jobs -> SUBSET Nat] /\ ListedJob(j)
        /\ job \in [Jobs -> [phase : Phases, scheduled : BOOLEAN, started : Nat, ended : Nat]]
    BY DEF Inv, PodsTyped, Listed, JobsTyped
  <1>1. /\ pod'[j] = NewPod(j) /\ now' = now
        /\ \A k \in Jobs \ {j} : job'[k] = job[k] /\ pod'[k] = pod[k] /\ left'[k] = left[k]
    BY <1>0 DEF Start, Retry
  <1>2. /\ pod'[j].stamp = now /\ pod'[j].try = pod[j].try + 1 /\ pod[j].try \in Nat
        /\ job'[j].phase = "active"
    BY <1>0, <1>1 DEF NewPod, Pods, Start, Retry, Active
  <1>3. CASE Start(j)
    <2>1. left'[j] = {now} /\ left' \in [Jobs -> SUBSET Nat]
      BY <1>3, <1>0 DEF Start
    <2>2. Cardinality(left'[j]) = 1
      BY <2>1, FS_Singleton
    <2>3. pod[j].try = 0
      BY <1>0, <1>3 DEF Start, ListedJob, NoPod
    <2>4. ListedJob(j)'
      BY <2>1, <2>2, <2>3, <1>2, <1>1, <1>0 DEF ListedJob, Tried
    <2> QED BY <2>1, <2>4, <1>1, ListedStep
  <1>4. CASE Retry(j)
    <2>1. left'[j] = left[j] \cup {now} /\ left' \in [Jobs -> SUBSET Nat]
      BY <1>4, <1>0 DEF Retry
    <2>2. /\ left[j] \subseteq 0 .. now /\ pod[j].stamp \in left[j]
          /\ \A s \in left[j] : s <= pod[j].stamp
          /\ Cardinality(left[j]) = pod[j].try
      BY <1>0, <1>4 DEF Retry, Active, ListedJob, Tried
    <2>3. Max(left[j]) = pod[j].stamp
      BY <2>2, <1>0, MaxIs
    <2>4. now \notin left[j]
      <3>1. pod[j].stamp < now /\ pod[j].stamp \in Nat
        BY <2>3, <1>4, <1>0 DEF Retry, Pods
      <3> QED BY <3>1, <2>2, <1>0
    <2>5. IsFiniteSet(left[j])
      <3>1. IsFiniteSet(0 .. now)
        BY <1>0, FS_Interval
      <3> QED BY <3>1, <2>2, FS_Subset
    <2>6. Cardinality(left'[j]) = pod[j].try + 1
      <3>1. Cardinality(left[j] \cup {now}) = Cardinality(left[j]) + 1
        BY <2>4, <2>5, FS_AddElement
      <3> QED BY <3>1, <2>1, <2>2
    <2>7. \A s \in left'[j] : s <= now
      BY <2>1, <2>2, <1>0
    <2>8. left'[j] \subseteq 0 .. now
      BY <2>1, <2>2, <1>0
    <2>9. ListedJob(j)'
      BY <2>1, <2>6, <2>7, <2>8, <1>2, <1>1 DEF ListedJob, Tried
    <2> QED BY <2>1, <2>9, <1>1, ListedStep
  <1> QED BY <1>3, <1>4

LEMMA ListedNext == Inv /\ JobsTyped /\ Listed /\ [Next]_vars => Listed'
PROOF
  <1> SUFFICES ASSUME Inv, JobsTyped, Listed, [Next]_vars PROVE Listed'
    OBVIOUS
  <1>0. /\ pod \in [Jobs -> Pods] /\ now \in Nat /\ left \in [Jobs -> SUBSET Nat]
        /\ job \in [Jobs -> [phase : Phases, scheduled : BOOLEAN, started : Nat, ended : Nat]]
        /\ \A j \in Jobs : ListedJob(j)
    BY DEF Inv, PodsTyped, Listed, JobsTyped
  <1>1. ASSUME NEW j \in Jobs, Start(j) \/ Retry(j)
        PROVE  Listed'
    BY <1>1, ListedNew
  <1>2. ASSUME NEW j \in Jobs, Copy(j) \/ PodLost(j) \/ Put(j)
        PROVE  Listed'
    <2>1. PodStep(j)
      BY <1>2, PodSteps
    <2> QED BY <2>1, ListedPod DEF PodStep
  <1>3. ASSUME NEW j \in Jobs, JobEnds(j)
        PROVE  Listed'
    <2>1. UNCHANGED <<now, pod, left>> /\ Active(j)
      BY <1>3 DEF JobEnds
    <2>2. \A k \in Jobs \ {j} : job'[k] = job[k]
      BY <1>3, <1>0 DEF JobEnds, EndJob
    <2>3. \/ job'[j].phase = "complete"
          \/ job'[j].phase = "failed" /\ pod[j].pc = "failed" /\ pod[j].try = Attempts
      BY <1>3, <1>0 DEF JobEnds, EndJob
    <2>4. ListedJob(j)'
      BY <2>1, <2>3, <1>0 DEF ListedJob, Tried, Active
    <2> QED BY <2>1, <2>2, <2>4, <1>0, ListedStep
  <1>4. ASSUME NEW j \in Jobs, JobExpires(j)
        PROVE  Listed'
    <2>1. job'[j].phase = "expired" /\ \A k \in Jobs \ {j} : job'[k] = job[k]
      BY <1>4, <1>0 DEF JobExpires, EndJob
    <2>2. now' = now /\ \A k \in Jobs \ {j} : pod'[k] = pod[k] /\ left'[k] = left[k]
      BY <1>4, <1>0 DEF JobExpires
    <2>3. left' \in [Jobs -> SUBSET Nat]
      BY <1>4, <1>0 DEF JobExpires
    <2>4. ListedJob(j)'
      BY <2>1 DEF ListedJob, Tried
    <2> QED BY <2>1, <2>2, <2>3, <2>4, ListedStep
  <1>5. ASSUME NEW j \in Jobs, CleanUp(j)
        PROVE  Listed'
    <2>1. UNCHANGED <<now, pod>> /\ \A k \in Jobs \ {j} : job'[k] = job[k] /\ left'[k] = left[k]
      BY <1>5, <1>0 DEF CleanUp
    <2>2. job'[j].phase = "gone"
      BY <1>5, <1>0 DEF CleanUp
    <2>3. left' \in [Jobs -> SUBSET Nat]
      BY <1>5, <1>0 DEF CleanUp
    <2>4. ListedJob(j)'
      BY <2>2 DEF ListedJob, Tried
    <2> QED BY <2>1, <2>3, <2>4, ListedStep
  <1>6. ASSUME UNCHANGED <<job, pod, left>>, now' \in {now, now + 1}
        PROVE  Listed'
    <2>1. 0 .. now \subseteq 0 .. now'
      BY <1>6, <1>0
    <2>2. ASSUME NEW k \in Jobs
          PROVE  ListedJob(k)'
      <3>1. left[k] \subseteq 0 .. now => left[k] \subseteq 0 .. now'
        BY <2>1
      <3> QED BY <3>1, <1>6, <1>0 DEF ListedJob, Tried
    <2> QED BY <2>2, <1>6, <1>0 DEF Listed
  <1>7. ASSUME NEW j \in Jobs, CronSees(j)
        PROVE  Listed'
    BY <1>6, <1>7 DEF CronSees
  <1>8. CASE Status
    BY <1>6, <1>8 DEF Status
  <1>9. CASE Tick
    BY <1>6, <1>9 DEF Tick
  <1>10. CASE UNCHANGED vars
    BY <1>6, <1>10 DEF vars
  <1> QED BY <1>1, <1>2, <1>3, <1>4, <1>5, <1>7, <1>8, <1>9, <1>10 DEF Next

LEMMA ChargesNext ==
  Inv /\ JobsTyped /\ Listed /\ Charges /\ [Next]_vars => Charges'
PROOF
  <1> SUFFICES ASSUME Inv, JobsTyped, Listed, Charges, [Next]_vars PROVE Charges'
    OBVIOUS
  <1>0. /\ pod \in [Jobs -> Pods] /\ now \in Nat /\ left \in [Jobs -> SUBSET Nat] /\ faults \in Nat
        /\ job \in [Jobs -> [phase : Phases, scheduled : BOOLEAN, started : Nat, ended : Nat]]
        /\ \A j \in Jobs : ListedJob(j)
    BY DEF Inv, PodsTyped, Listed, JobsTyped, Charges
  <1>f. PICK F \in SUBSET Nat : IsFiniteSet(F) /\ Cardinality(F) <= faults /\ Charged(F)
    BY DEF Charges
  <1>1. ASSUME Charged(F)', UNCHANGED faults
        PROVE  Charges'
    BY <1>0, <1>1, <1>f DEF Charges
  <1>2. ASSUME NEW j \in Jobs, NEW G, G = F \cup {pod[j].stamp}, Charged(G)', faults' = faults + 1
        PROVE  Charges'
    <2>1. pod[j].stamp \in Nat
      BY <1>0 DEF Pods
    <2>2. G \in SUBSET Nat /\ IsFiniteSet(G) /\ Cardinality(G) <= faults'
      BY <2>1, <1>0, <1>2, <1>f, OneMoreAnswer
    <2>3. faults' \in Nat
      BY <1>0, <1>2
    <2> QED BY <2>2, <2>3, <1>2 DEF Charges
  <1>3. ASSUME NEW j \in Jobs, NEW s \in DOMAIN archives \ F, archives[s].by[1] = j
        PROVE  PublishedBy(s, j)
    BY <1>3, <1>f DEF Charged, PublishedBy, Made
  <1>4. ASSUME NEW j \in Jobs, PodStep(j), faults' = faults + 1, Kept,
               pod'[j].pc # "failed" => pod'[j].pc = pod[j].pc,
               DOMAIN archives' \subseteq DOMAIN archives \cup {pod[j].stamp},
               DOMAIN records' \subseteq DOMAIN records \cup {pod[j].stamp}
        PROVE  Charges'
    <2>1. PICK G : G = F \cup {pod[j].stamp}
      OBVIOUS
    <2>2. Charged(G)'
      BY <2>1, <1>4, <1>f, ChargedFault DEF PodStep
    <2> QED BY <2>1, <2>2, <1>4, <1>2
  <1>5. ASSUME NEW j \in Jobs, UNCHANGED <<bucket, faults>>, Excused(F, j)', Unrecorded(F, j)',
               \A s \in DOMAIN archives \ F : archives[s].by[1] = j => PublishedBy(s, j)',
               \A k \in Jobs \ {j} : job'[k] = job[k] /\ pod'[k] = pod[k] /\ left'[k] = left[k]
        PROVE  Charges'
    <2>1. Kept /\ DOMAIN archives' = DOMAIN archives /\ DOMAIN records' = DOMAIN records
      BY <1>5, BucketLeft DEF bucket
    <2>2. Charged(F)'
      BY <2>1, <1>5, <1>f, ChargedStep
    <2> QED BY <2>2, <1>1, <1>5
  <1>6. ASSUME NEW j \in Jobs, Start(j)
        PROVE  Charges'
    <2>1. /\ pod'[j] = NewPod(j) /\ left'[j] = {now} /\ UNCHANGED <<bucket, faults>>
          /\ \A k \in Jobs \ {j} : job'[k] = job[k] /\ pod'[k] = pod[k] /\ left'[k] = left[k]
      BY <1>6, <1>0 DEF Start
    <2>2. Excused(F, j)' /\ Unrecorded(F, j)'
      BY <2>1 DEF Excused, Lost, Unrecorded, NewPod
    <2>3. pod[j].pc = "none"
      BY <1>0, <1>6 DEF Start, ListedJob, NoPod
    <2>4. \A s \in DOMAIN archives \ F : archives[s].by[1] # j
      BY <2>3, <1>3 DEF PublishedBy
    <2> QED BY <2>1, <2>2, <2>4, <1>5
  <1>7. ASSUME NEW j \in Jobs, Retry(j)
        PROVE  Charges'
    <2>1. /\ pod'[j] = NewPod(j) /\ left'[j] = left[j] \cup {now} /\ UNCHANGED <<job, bucket, faults>>
          /\ \A k \in Jobs \ {j} : pod'[k] = pod[k] /\ left'[k] = left[k]
      BY <1>7, <1>0 DEF Retry
    <2>2. Excused(F, j) /\ Active(j) /\ pod[j].pc = "failed"
      BY <1>7, <1>f DEF Retry, Charged
    <2>3. Excused(F, j)' /\ Unrecorded(F, j)'
      BY <2>1, <2>2 DEF Excused, Lost, Unrecorded, NewPod, Tried, Active, bucket
    <2>4. \A s \in DOMAIN archives \ F : archives[s].by[1] # j
      BY <2>2, <1>3 DEF PublishedBy
    <2> QED BY <2>1, <2>3, <2>4, <1>5
  <1>8. ASSUME NEW j \in Jobs, JobEnds(j)
        PROVE  Charges'
    <2>1. /\ UNCHANGED <<pod, left, bucket, faults>> /\ Active(j)
          /\ \A k \in Jobs \ {j} : job'[k] = job[k]
          /\ job'[j].phase \in {"complete", "failed"}
      BY <1>8, <1>0 DEF JobEnds, EndJob
    <2>2. Excused(F, j) /\ Unrecorded(F, j)
      BY <1>f DEF Charged
    <2>3. Excused(F, j)' /\ Unrecorded(F, j)'
      BY <2>1, <2>2 DEF Excused, Lost, Unrecorded, Tried, Active, bucket
    <2>4. \A s \in DOMAIN archives \ F : archives[s].by[1] = j => PublishedBy(s, j)'
      BY <2>1, <1>3 DEF PublishedBy, Made, Active, bucket
    <2> QED BY <2>1, <2>3, <2>4, <1>5
  <1>9. ASSUME NEW j \in Jobs, JobExpires(j)
        PROVE  Charges'
    <2>1. /\ UNCHANGED <<bucket, faults>> /\ job'[j].phase = "expired"
          /\ \A k \in Jobs \ {j} : job'[k] = job[k] /\ pod'[k] = pod[k] /\ left'[k] = left[k]
      BY <1>9, <1>0 DEF JobExpires, EndJob
    <2>2. /\ pod'[j].pc \in {pod[j].pc, "failed"}
          /\ pod'[j].stamp = pod[j].stamp /\ pod'[j].try = pod[j].try
      BY <1>9, <1>0 DEF JobExpires, Pods
    <2>3. Unrecorded(F, j)
      BY <1>f DEF Charged
    <2>4. Excused(F, j)' /\ Unrecorded(F, j)'
      BY <2>1, <2>2, <2>3 DEF Excused, Unrecorded, Tried, bucket
    <2>5. \A s \in DOMAIN archives \ F : archives[s].by[1] = j => PublishedBy(s, j)'
      BY <2>1, <2>2, <1>3 DEF PublishedBy, Made, Active, bucket
    <2> QED BY <2>1, <2>4, <2>5, <1>5
  <1>10. ASSUME NEW j \in Jobs, CleanUp(j)
         PROVE  Charges'
    <2>1. /\ UNCHANGED <<pod, bucket, faults>> /\ job'[j].phase = "gone"
          /\ \A k \in Jobs \ {j} : job'[k] = job[k] /\ left'[k] = left[k]
      BY <1>10, <1>0 DEF CleanUp
    <2>2. Unrecorded(F, j)
      BY <1>f DEF Charged
    <2>3. Excused(F, j)' /\ Unrecorded(F, j)'
      BY <2>1, <2>2 DEF Excused, Unrecorded, Tried, bucket
    <2>4. \A s \in DOMAIN archives \ F : archives[s].by[1] = j => PublishedBy(s, j)'
      BY <2>1, <1>3 DEF PublishedBy, Made, Active, bucket
    <2> QED BY <2>1, <2>3, <2>4, <1>5
  <1>11. ASSUME NEW j \in Jobs, Copy(j)
         PROVE  Charges'
    <2>0. PodStep(j) /\ UNCHANGED bucket
      BY <1>11, PodSteps DEF Copy
    <2>1. CASE pod' = [pod EXCEPT ![j].pc = "archive", ![j].at = now] /\ NoFault
      <3>1. pod'[j].pc = "archive" /\ pod[j].pc = "copy"
        BY <2>1, <1>11, <1>0 DEF Copy, Pods
      <3>2. Excused(F, j)
        BY <1>f DEF Charged
      <3>3. Excused(F, j)' /\ Unrecorded(F, j)'
        BY <3>1, <3>2, <2>0 DEF Excused, Lost, Unrecorded, PodStep, Tried, bucket
      <3>4. \A s \in DOMAIN archives \ F : archives[s].by[1] # j
        BY <3>1, <1>3 DEF PublishedBy
      <3> QED BY <3>3, <3>4, <2>0, <2>1, <1>5 DEF PodStep, NoFault
    <2>2. CASE Fails(j) /\ Fault
      <3>1. pod'[j].pc = "failed"
        BY <2>2, ToTyped DEF Fails, Inv
      <3> QED BY <3>1, <2>0, <2>2, <1>4, BucketLeft DEF Fault, bucket
    <2> QED BY <2>1, <2>2, <1>11 DEF Copy
  <1>12. ASSUME NEW j \in Jobs, PodLost(j)
         PROVE  Charges'
    <2>1. pod'[j].pc = "failed"
      BY <1>12, ToTyped DEF PodLost, Fails, Inv
    <2> QED BY <2>1, <1>12, <1>4, PodSteps, BucketLeft DEF PodLost, Fault, bucket
  <1>13. ASSUME NEW j \in Jobs, Put(j)
         PROVE  Charges'
    <2>0. PodStep(j) /\ Active(j) /\ pod[j].pc \in {"archive", "record"}
      BY <1>13, PodSteps DEF Put
    <2>1. CASE Stores(j) /\ Answered(j) /\ NoFault
      <3>1. Charged(F)'
        BY <2>0, <2>1, <1>f, ChargedPut DEF PodStep
      <3> QED BY <3>1, <2>1, <1>1 DEF NoFault
    <2>2. Fails(j) \/ Unanswered(j) => (pod'[j].pc # "failed" => pod'[j].pc = pod[j].pc)
      <3>1. CASE Fails(j)
        BY <3>1, ToTyped DEF Fails, Inv
      <3>2. CASE pod' = [pod EXCEPT ![j].tries = @ + 1]
        BY <3>2, <1>0 DEF Pods
      <3> QED BY <3>1, <3>2 DEF Unanswered
    <2>3. CASE Stores(j) /\ Unanswered(j) /\ Fault
      <3>1. Kept
        BY <2>0, <2>3, StoresKeeps DEF Inv
      <3>2. /\ DOMAIN archives' \subseteq DOMAIN archives \cup {pod[j].stamp}
            /\ DOMAIN records' \subseteq DOMAIN records \cup {pod[j].stamp}
        BY <2>3 DEF Stores, With, bucket
      <3> QED BY <3>1, <3>2, <2>0, <2>2, <2>3, <1>4 DEF Fault
    <2>4. CASE UNCHANGED bucket /\ (Unanswered(j) \/ Fails(j)) /\ Fault
      BY <2>0, <2>2, <2>4, <1>4, BucketLeft DEF Fault, bucket
    <2> QED BY <2>1, <2>3, <2>4, <1>13 DEF Put
  <1>14. ASSUME UNCHANGED <<job, pod, left, bucket, faults>>
         PROVE  Charges'
    <2>1. Charged(F)'
      BY <1>14, <1>f DEF Charged, Excused, Unrecorded, PublishedBy, Lost, Tried, Made, Active, bucket
    <2> QED BY <2>1, <1>1, <1>14
  <1>15. ASSUME NEW j \in Jobs, CronSees(j)
         PROVE  Charges'
    BY <1>14, <1>15 DEF CronSees
  <1>16. CASE Status
    BY <1>14, <1>16 DEF Status
  <1>17. CASE Tick
    BY <1>14, <1>17 DEF Tick
  <1>18. CASE UNCHANGED vars
    BY <1>14, <1>18 DEF vars, bucket
  <1> QED BY <1>6, <1>7, <1>8, <1>9, <1>10, <1>11, <1>12, <1>13, <1>15, <1>16, <1>17, <1>18 DEF Next

(* A Job fails only when each of its pods met a fault or another Job's pod *)
(* with its stamp: a put that was applied and lost its answer costs one    *)
(* pod, for any Jobs, Attempts and Tries.                                  *)
THEOREM FailureNeedsTrouble == Spec => []FailsOnlyInTrouble
PROOF
  <1>1. Init => Listed /\ Charges
    <2> SUFFICES ASSUME Init PROVE Listed /\ Charges
      OBVIOUS
    <2>1. Listed
      BY DEF Init, Listed, ListedJob, NoJob, NoPod, Tried
    <2>2. Charged({})
      BY DEF Init, Charged, Excused, Unrecorded, NoJob, NoPod, Tried
    <2>3. IsFiniteSet({}) /\ Cardinality({}) = 0
      BY FS_EmptySet
    <2> QED BY <2>1, <2>2, <2>3 DEF Init, Charges
  <1>2. ASSUME Inv, Listed, Charges, NEW j \in Jobs, job[j].phase = "failed"
        PROVE  faults + Cardinality(Shared(j)) >= Attempts
    <2>1. PICK F \in SUBSET Nat : IsFiniteSet(F) /\ Cardinality(F) <= faults /\ Charged(F)
      BY <1>2 DEF Charges
    <2>2. /\ left[j] \subseteq 0 .. now /\ pod[j].pc = "failed" /\ now \in Nat /\ faults \in Nat
          /\ Cardinality(left[j]) = Attempts
      BY <1>2 DEF Listed, ListedJob, Tried, Inv, PodsTyped, Charges
    <2>3. IsFiniteSet(left[j])
      <3>1. IsFiniteSet(0 .. now)
        <4>1. 0 \in Int /\ now \in Int
          BY <2>2
        <4> QED BY <4>1, FS_Interval
      <3> QED BY <3>1, <2>2, FS_Subset
    <2>4. ASSUME NEW s \in left[j], s \notin F
          PROVE  s \in Shared(j)
      <3>1. s \in DOMAIN archives /\ archives[s].by[1] # j
        BY <2>1, <2>2, <2>4, <1>2 DEF Charged, Excused, Lost, Tried
      <3>2. PICK k \in Jobs : PublishedBy(s, k)
        BY <2>1, <2>4, <3>1 DEF Charged
      <3>3. k # j /\ pod[k].stamp = s
        BY <3>1, <3>2 DEF PublishedBy, Made
      <3> QED BY <3>3, <2>4 DEF Shared
    <2>5. Shared(j) \subseteq left[j]
      BY DEF Shared
    <2>6. IsFiniteSet(Shared(j)) /\ left[j] \subseteq F \cup Shared(j)
      BY <2>3, <2>4, <2>5, FS_Subset
    <2>7. /\ IsFiniteSet(F \cup Shared(j)) /\ IsFiniteSet(F \cap Shared(j))
          /\ Cardinality(F \cup Shared(j))
               = Cardinality(F) + Cardinality(Shared(j)) - Cardinality(F \cap Shared(j))
      BY <2>1, <2>6, FS_Union, FS_Intersection
    <2>8. Cardinality(left[j]) <= Cardinality(F \cup Shared(j))
      BY <2>6, <2>7, FS_Subset
    <2>9. {Cardinality(F), Cardinality(Shared(j)), Cardinality(F \cap Shared(j))} \subseteq Nat
      BY <2>1, <2>6, <2>7, FS_CardinalityType
    <2>10. Attempts \in Nat
      BY BackupAssumption
    <2> HIDE DEF Shared
    <2> QED BY <2>1, <2>2, <2>7, <2>8, <2>9, <2>10
  <1>3. Inv /\ Listed /\ Charges => FailsOnlyInTrouble
    BY <1>2 DEF FailsOnlyInTrouble
  <1>4. Timely => JobsTyped
    BY DEF Timely
  <1> QED BY <1>1, <1>3, <1>4, InitInv, NextInv, InitTimely, TimelyNext, ListedNext, ChargesNext, PTL
          DEF Spec

-----------------------------------------------------------------------------
(***************************************************************************)
(* The platform checks: for any limit on age and any hour, and whatever of *)
(* the reads fail.                                                         *)
(***************************************************************************)

Found == Platform!Evidence
Given(f) == f \in Platform!GivenTo(check)

(* A run asked for what it was not given only once it was called for.      *)
CheckInv ==
  /\ check \in DOMAIN Platform!Worlds
  /\ world \in Platform!Worlds[check]
  /\ asked \subseteq DOMAIN world
  /\ failed \subseteq asked
  /\ \A f \in DOMAIN world : Given(f) => f \in asked /\ f \notin failed
  /\ clock \in Until - 1 .. Until
  /\ \A f \in asked : Given(f) \/ Platform!Wanted(f)
  /\ report = "judged" => \A f \in DOMAIN world \ asked : ~Platform!Wanted(f)

(* What the judges go by once every read that was called for is done.      *)
Read(f) == f \in asked /\ f \notin failed /\ Found[f] = world[f]
Failed(f) == ~Given(f) /\ f \in failed /\ Found[f] = Platform!Unread
Skipped(f) == ~Given(f) /\ f \notin asked /\ f \notin failed /\ Found[f] = Platform!Unread

LEMMA Settled ==
  ASSUME CheckInv, report = "judged", NEW f \in DOMAIN world
  PROVE  /\ Given(f) => Read(f)
         /\ Platform!Wanted(f) => Read(f) \/ Failed(f)
         /\ ~Platform!Wanted(f) /\ ~Given(f) => Skipped(f)
         /\ Found[f] \in {world[f], Platform!Unread}
PROOF
  <1>1. Found[f] = IF f \in asked \ failed THEN world[f] ELSE Platform!Unread
    BY DEF Found, Platform!Evidence
  <1> QED BY <1>1 DEF CheckInv, Read, Failed, Skipped

(* What a read may find.                                                   *)
LEMMA Kinds ==
  /\ \A v : Platform!Present(Platform!There(v)) /\ ~Platform!Absent(Platform!There(v)) /\ Platform!There(v).is = v
  /\ ~Platform!Present(Platform!Gone) /\ Platform!Absent(Platform!Gone)
  /\ ~Platform!Present(Platform!Unread) /\ ~Platform!Absent(Platform!Unread)
  /\ \A v : Platform!There(v) # Platform!Gone /\ Platform!There(v) # Platform!Unread
  /\ Platform!Gone # Platform!Unread
PROOF
  BY DEF Platform!Present, Platform!Absent, Platform!There, Platform!Gone, Platform!Unread

MustBe(x, V) == x.is \in V /\ x = Platform!There(x.is)
MayBe(x, V) == x = Platform!Gone \/ (x.is \in V /\ x = Platform!There(x.is))

LEMMA OfListed ==
  ASSUME NEW V, NEW x \in Platform!Listed(V)
  PROVE  MustBe(x, V)
PROOF
  <1>1. PICK v \in V : x = Platform!There(v)
    BY DEF Platform!Listed
  <1> QED BY <1>1, Kinds DEF MustBe

LEMMA OfMaybe ==
  ASSUME NEW V, NEW x \in Platform!Maybe(V)
  PROVE  MayBe(x, V)
PROOF
  <1>1. x \in Platform!Listed(V) \/ x = Platform!Gone
    BY DEF Platform!Maybe
  <1> QED BY <1>1, OfListed DEF MayBe, MustBe

(* What VerdictIsTruth says of a report.                                   *)
Verdict ==
  /\ Platform!Judge(Found) # {}
  /\ Platform!Passed <=> failed \subseteq {"newest", "hooks"} /\ Platform!Promised

-----------------------------------------------------------------------------
(* Most reads are always called for.                                       *)
Asked(f) == Read(f) \/ Failed(f)

LEMMA AllAsked ==
  ASSUME CheckInv, report = "judged", NEW f \in DOMAIN world, Platform!GivenTo(check) = {},
         check \notin {"images", "isolation", "events", "backups", "databases", "pushWebhook", "imageWebhooks",
                      "consoleToken", "controllers", "registration", "retention"}
  PROVE  Asked(f)
PROOF
  <1>1. Platform!Wanted(f)
    BY DEF Platform!Wanted
  <1> QED BY <1>1, Settled DEF Asked

LEMMA IngressTrue ==
  ASSUME CheckInv, report = "judged", check = "ingress" PROVE Verdict
PROOF
  <1>1. world \in [traefik : Platform!Maybe(BOOLEAN)]
    BY DEF CheckInv, Platform!Worlds
  <1>2. DOMAIN world = {"traefik"} /\ world.traefik \in Platform!Maybe(BOOLEAN)
    BY <1>1
  <1>3. Platform!Judge(Found) = Platform!Ingress(Found) /\ (Platform!Promised <=> world.traefik = Platform!There(TRUE))
    BY DEF Platform!Judge, Platform!Promised
  <1>4. Platform!Wanted("traefik")
    BY DEF Platform!Wanted
  <1>5. Read("traefik") \/ Failed("traefik")
    BY <1>2, <1>4, Settled
  <1>6. MayBe(world.traefik, BOOLEAN)
    BY <1>2, OfMaybe
  <1>7. failed \subseteq {"newest", "hooks"} <=> "traefik" \notin failed
    BY <1>2 DEF CheckInv
  <1>8. Platform!Judge(Found) = {IF Read("traefik") /\ world.traefik = Platform!There(TRUE) THEN "ok" ELSE "bad"}
    BY <1>3, <1>5, <1>6, Kinds DEF Platform!Ingress, Platform!Level, Read, Failed, MayBe
  <1> QED BY <1>3, <1>5, <1>7, <1>8 DEF Verdict, Platform!Passed, Found, Read, Failed



LEMMA FluxUnitsTrue ==
  ASSUME CheckInv, report = "judged", check = "fluxUnits" PROVE Verdict
PROOF
  <1>1. world \in [units : Platform!Maybe(SUBSET BOOLEAN)]
    BY DEF CheckInv, Platform!Worlds
  <1>2. DOMAIN world = {"units"}
    BY <1>1
  <1>3. Asked("units")
    BY <1>2, AllAsked DEF Platform!GivenTo, Platform!Given
  <1>4. /\ MayBe(world.units, SUBSET BOOLEAN)
    BY <1>1, OfMaybe
  <1>5. Platform!Judge(Found) = Platform!FluxUnits(Found)
    BY DEF Platform!Judge
  <1>6. CASE Failed("units") \/ ~Platform!Present(world.units) \/ world.units.is = {}
    <2>1. Platform!Judge(Found) = {"bad"}
      BY <1>3, <1>5, <1>6, Kinds DEF Platform!FluxUnits, Asked, Read, Failed
    <2> QED BY <1>2, <1>4, <1>6, <2>1, Kinds DEF Verdict, Platform!Passed, Platform!Promised, Failed, Found,
               MayBe, MustBe
  <1>7. CASE Read("units") /\ Platform!Present(world.units) /\ world.units.is # {}
    <2>1. Platform!Judge(Found) = {IF ready THEN "ok" ELSE "bad" : ready \in world.units.is}
      BY <1>5, <1>7, Kinds DEF Platform!FluxUnits, Read, Platform!Level
    <2>2. world.units.is \subseteq BOOLEAN
      BY <1>4, <1>7, Kinds DEF MayBe, MustBe
    <2>3. failed \subseteq {"newest", "hooks"}
      BY <1>2, <1>7 DEF CheckInv, Read
    <2>4. "bad" \notin Platform!Judge(Found) <=> FALSE \notin world.units.is
      BY <2>1, <2>2
    <2>5. Platform!Judge(Found) # {}
      BY <1>7, <2>1
    <2>6. Platform!Promised <=> FALSE \notin world.units.is
      BY <1>4, <1>7, <2>2, Kinds DEF Platform!Promised, MayBe
    <2> QED BY <2>3, <2>4, <2>5, <2>6 DEF Verdict, Platform!Passed, Found
  <1> QED BY <1>3, <1>6, <1>7 DEF Asked

LEMMA AlertsTrue ==
  ASSUME CheckInv, report = "judged", check = "alerts" PROVE Verdict
PROOF
  <1>1. world \in [alerts : Platform!Maybe({"none", "provider", "other"}),
                   providers : Platform!Maybe(SUBSET {"provider"})]
    BY DEF CheckInv, Platform!Worlds
  <1>2. DOMAIN world = {"alerts", "providers"}
    BY <1>1
  <1>3. Asked("alerts") /\ Asked("providers")
    BY <1>2, AllAsked DEF Platform!GivenTo, Platform!Given
  <1>4. /\ MayBe(world.alerts, {"none", "provider", "other"})
        /\ MayBe(world.providers, SUBSET {"provider"})
    BY <1>1, OfMaybe
  <1> QED BY <1>2, <1>3, <1>4, Kinds DEF Verdict, Platform!Passed, Platform!Judge, Platform!Promised,
             Platform!Alerts,
             Platform!Level, Platform!Warned, Asked, Read, Failed, CheckInv, Found, MayBe, MustBe

LEMMA NotifyServiceTrue ==
  ASSUME CheckInv, report = "judged", check = "notifyService" PROVE Verdict
PROOF
  <1>1. world \in [deployment : Platform!Maybe([ready : 0..1, image : {"a", "b", "none"}]),
                   console : Platform!Maybe({"a", "b", "none"})]
    BY DEF CheckInv, Platform!Worlds
  <1>2. DOMAIN world = {"deployment", "console"}
    BY <1>1
  <1>3. Asked("deployment") /\ Asked("console")
    BY <1>2, AllAsked DEF Platform!GivenTo, Platform!Given
  <1>4. /\ MayBe(world.deployment, [ready : 0..1, image : {"a", "b", "none"}])
        /\ MayBe(world.console, {"a", "b", "none"})
    BY <1>1, OfMaybe
  <1> QED BY <1>2, <1>3, <1>4, Kinds DEF Verdict, Platform!Passed, Platform!Judge, Platform!Promised,
             Platform!NotifyService,
             Platform!Level, Platform!Warned, Asked, Read, Failed, CheckInv, Found, MayBe, MustBe

LEMMA RuntimeSecretsTrue ==
  ASSUME CheckInv, report = "judged", check = "secrets" PROVE Verdict
PROOF
  <1>1. world \in [collector : Platform!Maybe({"a", "b", "empty"})]
    BY DEF CheckInv, Platform!Worlds
  <1>2. DOMAIN world = {"collector"}
    BY <1>1
  <1>3. Asked("collector")
    BY <1>2, AllAsked DEF Platform!GivenTo, Platform!Given
  <1>4. /\ MayBe(world.collector, {"a", "b", "empty"})
    BY <1>1, OfMaybe
  <1> QED BY <1>2, <1>3, <1>4, Kinds DEF Verdict, Platform!Passed, Platform!Judge, Platform!Promised,
             Platform!RuntimeSecrets,
             Platform!Held, Platform!Level, Platform!Warned, Asked, Read, Failed, CheckInv, Found, MayBe, MustBe


LEMMA SigningTrue ==
  ASSUME CheckInv, report = "judged", check = "signing" PROVE Verdict
PROOF
  <1>1. world \in [profile : Platform!Maybe(SUBSET {"keys", "issuer"}), keys : Platform!Listed({TRUE})]
    BY DEF CheckInv, Platform!Worlds, Platform!SigningFacts, Platform!Queries, Platform!Workload,
           Platform!Running, Platform!Hooks
  <1>2. DOMAIN world = {"profile", "keys"}
    BY <1>1
  <1>3. /\ Read("profile")
        /\ Asked("keys")
    BY <1>2, Settled DEF Given, Platform!GivenTo, Platform!Given, Platform!Wanted, Asked, Found
  <1>4. /\ MayBe(world.profile, SUBSET {"keys", "issuer"})
        /\ MustBe(world.keys, {TRUE})
    BY <1>1, OfMaybe, OfListed
  <1> QED BY <1>2, <1>3, <1>4, Kinds DEF Verdict, Platform!Passed, Platform!Judge, Platform!Promised,
             Platform!Signing,
             Platform!Level, Platform!Warned, Platform!Said, Asked, Read, Failed, Skipped, CheckInv, Found,
             MayBe, MustBe

LEMMA EgressTrue ==
  ASSUME CheckInv, report = "judged", check = "egress" PROVE Verdict
PROOF
  <1>1. world \in [allocation : Platform!Maybe({"each", "shared", "short"}),
                   proxy : Platform!Maybe([ready : 0 .. 2, wanted : {2}])]
    BY DEF CheckInv, Platform!Worlds, Platform!PortFacts, Platform!Queries, Platform!Workload,
           Platform!Running, Platform!Hooks
  <1>2. DOMAIN world = {"allocation", "proxy"}
    BY <1>1
  <1>3. /\ Read("allocation")
        /\ Asked("proxy")
    BY <1>2, Settled DEF Given, Platform!GivenTo, Platform!Given, Platform!Wanted, Asked, Found
  <1>4. /\ MayBe(world.allocation, {"each", "shared", "short"})
        /\ MayBe(world.proxy, [ready : 0 .. 2, wanted : {2}])
    BY <1>1, OfMaybe, OfListed
  <1> QED BY <1>2, <1>3, <1>4, Kinds DEF Verdict, Platform!Passed, Platform!Judge, Platform!Promised,
             Platform!Egress,
             Platform!Level, Platform!Warned, Platform!Said, Asked, Read, Failed, Skipped, CheckInv, Found,
             Platform!Workload, MayBe, MustBe

LEMMA ChannelsTrue ==
  ASSUME CheckInv, report = "judged", check = "channels" PROVE Verdict
PROOF
  <1>1. world \in [teams : Platform!Maybe({"none", "routed", "unrouted"}),
                   routes : Platform!Maybe({"same", "other", "garbled"}), secrets : Platform!Listed(BOOLEAN)]
    BY DEF CheckInv, Platform!Worlds, Platform!ChannelFacts, Platform!Queries, Platform!Workload,
           Platform!Running, Platform!Hooks
  <1>2. DOMAIN world = {"teams", "routes", "secrets"}
    BY <1>1
  <1>3. /\ Read("teams")
        /\ Asked("routes")
        /\ Asked("secrets")
    BY <1>2, Settled DEF Given, Platform!GivenTo, Platform!Given, Platform!Wanted, Asked, Found
  <1>4. /\ MayBe(world.teams, {"none", "routed", "unrouted"})
        /\ MayBe(world.routes, {"same", "other", "garbled"})
        /\ MustBe(world.secrets, BOOLEAN)
    BY <1>1, OfMaybe, OfListed
  <1> QED BY <1>2, <1>3, <1>4, Kinds DEF Verdict, Platform!Passed, Platform!Judge, Platform!Promised,
             Platform!Channels,
             Platform!Level, Platform!Warned, Platform!Said, Asked, Read, Failed, Skipped, CheckInv, Found,
             MayBe, MustBe

LEMMA IngestionTrue ==
  ASSUME CheckInv, report = "judged", check = "ingestion" PROVE Verdict
PROOF
  <1>1. world \in [collector : Platform!Maybe({"a", "b", "empty"}), team : Platform!Maybe({"a", "two"})]
    BY DEF CheckInv, Platform!Worlds, Platform!KeyFacts, Platform!Queries, Platform!Workload, Platform!Running,
           Platform!Hooks
  <1>2. DOMAIN world = {"collector", "team"}
    BY <1>1
  <1>3. /\ Asked("collector")
        /\ Asked("team")
    BY <1>2, Settled DEF Given, Platform!GivenTo, Platform!Given, Platform!Wanted, Asked, Found
  <1>4. /\ MayBe(world.collector, {"a", "b", "empty"})
        /\ MayBe(world.team, {"a", "two"})
    BY <1>1, OfMaybe, OfListed
  <1> QED BY <1>2, <1>3, <1>4, Kinds DEF Verdict, Platform!Passed, Platform!Judge, Platform!Promised,
             Platform!Ingestion,
             Platform!Level, Platform!Warned, Platform!Said, Asked, Read, Failed, Skipped, CheckInv, Found,
             Platform!Held, MayBe, MustBe

LEMMA RegistrationTrue ==
  ASSUME CheckInv, report = "judged", check = "registration" PROVE Verdict
PROOF
  <1>1. world \in [deployment : Platform!Maybe(BOOLEAN), pods : Platform!Maybe(BOOLEAN),
                   team : Platform!Listed({"exists", "none", "garbled"})]
    BY DEF CheckInv, Platform!Worlds, Platform!TeamFacts, Platform!Queries, Platform!Workload,
           Platform!Running, Platform!Hooks
  <1>2. DOMAIN world = {"deployment", "pods", "team"}
    BY <1>1
  <1>3. /\ Asked("deployment")
        /\ IF Platform!Said(Found.deployment, TRUE) THEN Asked("pods") ELSE Skipped("pods")
        /\ IF Platform!Said(Found.pods, TRUE) THEN Asked("team") ELSE Skipped("team")
    BY <1>2, Settled DEF Given, Platform!GivenTo, Platform!Given, Platform!Wanted, Asked, Found,
       Platform!ReadsPods
  <1>4. /\ MayBe(world.deployment, BOOLEAN)
        /\ MayBe(world.pods, BOOLEAN)
        /\ MustBe(world.team, {"exists", "none", "garbled"})
    BY <1>1, OfMaybe, OfListed
  <1>5. Platform!Judge(Found) = Platform!Registration(Found)
    BY DEF Platform!Judge
  <1>6. Platform!Promised <=>
          (/\ world.deployment = Platform!There(TRUE) /\ world.pods = Platform!There(TRUE) /\ world.team.is = "exists")
    BY DEF Platform!Promised
  <1>7. failed \subseteq {"newest", "hooks"} <=>
          "deployment" \notin failed /\ "pods" \notin failed /\ "team" \notin failed
    BY <1>2 DEF CheckInv
  <1>8. CASE ~(Read("deployment") /\ world.deployment = Platform!There(TRUE))
    <2>1. ~Platform!Said(Found.deployment, TRUE)
      BY <1>3, <1>4, <1>8, Kinds DEF Platform!Said, Asked, Read, Failed, MayBe, MustBe
    <2>2. Skipped("pods") /\ ~Platform!Said(Found.pods, TRUE)
      BY <1>3, <2>1, Kinds DEF Platform!Said, Skipped
    <2>3. Platform!Judge(Found) = {"bad"}
      BY <1>3, <1>5, <2>2, Kinds DEF Platform!Registration, Platform!Level, Skipped
    <2> QED BY <1>3, <1>6, <1>7, <1>8, <2>3 DEF Verdict, Platform!Passed, Found, Asked, Read, Failed
  <1>9. CASE Read("deployment") /\ world.deployment = Platform!There(TRUE)
    <2>1. Asked("pods")
      BY <1>3, <1>9, Kinds DEF Platform!Said, Read
    <2>2. CASE ~(Read("pods") /\ world.pods = Platform!There(TRUE))
      <3>1. ~Platform!Said(Found.pods, TRUE)
        BY <1>4, <2>1, <2>2, Kinds DEF Platform!Said, Asked, Read, Failed, MayBe, MustBe
      <3>2. Platform!Judge(Found) = {"bad"}
        BY <1>3, <1>5, <3>1, Kinds DEF Platform!Registration, Platform!Level, Skipped
      <3> QED BY <1>6, <1>7, <2>1, <2>2, <3>2 DEF Verdict, Platform!Passed, Found, Asked, Read, Failed
    <2>3. CASE Read("pods") /\ world.pods = Platform!There(TRUE)
      <3>1. Asked("team")
        BY <1>3, <2>3, Kinds DEF Platform!Said, Read
      <3>2. Platform!Judge(Found) = {IF Read("team") /\ world.team.is = "exists" THEN "ok" ELSE "bad"}
        BY <1>4, <1>5, <3>1, Kinds DEF Platform!Registration, Platform!Level, Asked, Read, Failed, MayBe, MustBe
      <3> QED BY <1>6, <1>7, <1>9, <2>3, <3>1, <3>2 DEF Verdict, Platform!Passed, Found, Asked, Read, Failed
    <2> QED BY <2>2, <2>3
  <1> QED BY <1>8, <1>9

LEMMA RetentionTrue ==
  ASSUME CheckInv, report = "judged", check = "retention" PROVE Verdict
PROOF
  <1>1. world \in [telemetry : Platform!Listed({"met", "unmet", "garbled"}),
                   system : Platform!Listed({"met", "unmet", "garbled"}),
                   merges : Platform!Listed({"met", "unmet", "garbled"}), claim : Platform!Maybe(BOOLEAN),
                   volume : Platform!Maybe(BOOLEAN)]
    BY DEF CheckInv, Platform!Worlds, Platform!RetentionFacts, Platform!Queries, Platform!Workload,
           Platform!Running, Platform!Hooks
  <1>2. DOMAIN world = {"telemetry", "system", "merges", "claim", "volume"}
    BY <1>1
  <1>3. /\ Asked("telemetry")
        /\ Asked("system")
        /\ Asked("merges")
        /\ Asked("claim")
        /\ IF Platform!Said(Found.claim, TRUE) THEN Asked("volume") ELSE Skipped("volume")
    BY <1>2, Settled DEF Given, Platform!GivenTo, Platform!Given, Platform!Wanted, Asked, Found,
       Platform!ReadsPods
  <1>4. /\ MustBe(world.telemetry, {"met", "unmet", "garbled"})
        /\ MustBe(world.system, {"met", "unmet", "garbled"})
        /\ MustBe(world.merges, {"met", "unmet", "garbled"})
        /\ MayBe(world.claim, BOOLEAN)
        /\ MayBe(world.volume, BOOLEAN)
    BY <1>1, OfMaybe, OfListed
  <1>5. Platform!Judge(Found) = Platform!Retention(Found)
    BY DEF Platform!Judge
  <1>6. Platform!Promised <=>
          (/\ world.telemetry.is = "met" /\ world.system.is = "met" /\ world.merges.is = "met"
                            /\ world.claim = Platform!There(TRUE) /\ world.volume = Platform!There(TRUE))
    BY DEF Platform!Promised
  <1>7. failed \subseteq {"newest", "hooks"} <=>
          "telemetry" \notin failed /\ "system" \notin failed /\ "merges" \notin failed
          /\ "claim" \notin failed /\ "volume" \notin failed
    BY <1>2 DEF CheckInv
  <1> DEFINE Met(f) == Read(f) /\ world[f].is = "met"
  <1>8. \A f \in {"telemetry", "system", "merges"} : Platform!Query(Found[f]) = IF Met(f) THEN "ok" ELSE "bad"
    BY <1>3, <1>4, Kinds DEF Platform!Query, Platform!Level, Asked, Read, Failed, MayBe, MustBe
  <1>9. (Platform!Present(Found.volume) /\ Found.volume.is) <=>
           (/\ Read("claim") /\ world.claim = Platform!There(TRUE) /\ Read("volume") /\ world.volume = Platform!There(TRUE))
    <2>1. Platform!Said(Found.claim, TRUE) <=> Read("claim") /\ world.claim = Platform!There(TRUE)
      BY <1>3, <1>4, Kinds DEF Platform!Said, Asked, Read, Failed, MayBe, MustBe
    <2> QED BY <1>3, <1>4, <2>1, Kinds DEF Asked, Read, Failed, Skipped, MayBe, MustBe
  <1>10. Platform!Judge(Found) = {IF Met("telemetry") THEN "ok" ELSE "bad", IF Met("system") THEN "ok" ELSE "bad",
                                 IF Met("merges") THEN "ok" ELSE "bad",
                                 IF Platform!Present(Found.volume) /\ Found.volume.is THEN "ok" ELSE "bad"}
    BY <1>5, <1>8 DEF Platform!Retention, Platform!Level
  <1>11. (Met("telemetry") /\ Met("system") /\ Met("merges") /\ Platform!Present(Found.volume) /\ Found.volume.is)
           <=> (failed \subseteq {"newest", "hooks"} /\ Platform!Promised)
    <2>1. \A f \in {"telemetry", "system", "merges"} : Met(f) <=> (f \notin failed /\ world[f].is = "met")
      BY <1>3 DEF Asked, Read, Failed
    <2>2. Read("claim") <=> "claim" \notin failed
      BY <1>3 DEF Asked, Read, Failed
    <2>3. Read("claim") /\ world.claim = Platform!There(TRUE) => (Read("volume") <=> "volume" \notin failed)
      BY <1>3, Kinds DEF Asked, Read, Failed, Platform!Said
    <2> QED BY <1>6, <1>7, <1>9, <2>1, <2>2, <2>3 DEF Read
  <1> HIDE DEF Met
  <1>12. "bad" \notin Platform!Judge(Found)
           <=> (Met("telemetry") /\ Met("system") /\ Met("merges") /\ Platform!Present(Found.volume) /\ Found.volume.is)
    BY <1>10
  <1> QED BY <1>10, <1>11, <1>12 DEF Verdict, Platform!Passed, Found

LEMMA EventsTrue ==
  ASSUME CheckInv, report = "judged", check = "events" PROVE Verdict
PROOF
  <1>1. world \in [compiled : Platform!Maybe(BOOLEAN),
                   server : Platform!Maybe({[ready |-> r, wanted |-> 1] : r \in 0 .. 1}),
                   controller : Platform!Maybe({[ready |-> r, wanted |-> 1] : r \in 0 .. 1}),
                   objects : Platform!Listed({"none", "unready", "ready"})]
    BY DEF CheckInv, Platform!Worlds, Platform!EventFacts, Platform!Queries, Platform!Workload,
           Platform!Running, Platform!Hooks
  <1>2. DOMAIN world = {"compiled", "server", "controller", "objects"}
    BY <1>1
  <1>3. /\ Read("compiled")
        /\ Asked("server")
        /\ Asked("controller")
        /\ IF Platform!Said(Found.compiled, TRUE) THEN Asked("objects") ELSE Skipped("objects")
    BY <1>2, Settled DEF Given, Platform!GivenTo, Platform!Given, Platform!Wanted, Asked, Found,
       Platform!ReadsEvents
  <1>4. /\ MayBe(world.compiled, BOOLEAN)
        /\ MayBe(world.server, {[ready |-> r, wanted |-> 1] : r \in 0 .. 1})
        /\ MayBe(world.controller, {[ready |-> r, wanted |-> 1] : r \in 0 .. 1})
        /\ MustBe(world.objects, {"none", "unready", "ready"})
    BY <1>1, OfMaybe, OfListed
  <1> QED BY <1>2, <1>3, <1>4, Kinds DEF Verdict, Platform!Passed, Platform!Judge, Platform!Promised,
             Platform!Events,
             Platform!Level, Platform!Warned, Platform!Said, Asked, Read, Failed, Skipped, CheckInv, Found,
             Platform!EventWorkload, MayBe, MustBe

LEMMA IsolationTrue ==
  ASSUME CheckInv, report = "judged", check = "isolation" PROVE Verdict
PROOF
  <1>1. world \in [compiled : Platform!Maybe(BOOLEAN), teams : Platform!Maybe(BOOLEAN),
                   namespaces : Platform!Maybe({"none", "same", "moved"}), quotas : Platform!Listed(BOOLEAN),
                   policies : Platform!Listed(BOOLEAN)]
    BY DEF CheckInv, Platform!Worlds, Platform!IsolationFacts, Platform!Queries, Platform!Workload,
           Platform!Running, Platform!Hooks
  <1>2. DOMAIN world = {"compiled", "teams", "namespaces", "quotas", "policies"}
    BY <1>1
  <1>3. /\ Read("compiled")
        /\ Read("teams")
        /\ Asked("namespaces")
        /\ IF Platform!Said(Found.compiled, TRUE) THEN Asked("quotas") ELSE Skipped("quotas")
        /\ IF Platform!Said(Found.compiled, TRUE) THEN Asked("policies") ELSE Skipped("policies")
    BY <1>2, Settled DEF Given, Platform!GivenTo, Platform!Given, Platform!Wanted, Asked, Found,
       Platform!ReadsIsolation
  <1>4. /\ MayBe(world.compiled, BOOLEAN)
        /\ MayBe(world.teams, BOOLEAN)
        /\ MayBe(world.namespaces, {"none", "same", "moved"})
        /\ MustBe(world.quotas, BOOLEAN)
        /\ MustBe(world.policies, BOOLEAN)
    BY <1>1, OfMaybe, OfListed
  <1> QED BY <1>2, <1>3, <1>4, Kinds DEF Verdict, Platform!Passed, Platform!Judge, Platform!Promised,
             Platform!Isolation,
             Platform!Level, Platform!Warned, Platform!Said, Asked, Read, Failed, Skipped, CheckInv, Found,
             MayBe, MustBe

LEMMA ControllersTrue ==
  ASSUME CheckInv, report = "judged", check = "controllers" PROVE Verdict
PROOF
  <1>1. world \in [settings : Platform!Maybe(BOOLEAN),
                   deployment : Platform!Maybe({"pinned", "drifted", "garbled"})]
    BY DEF CheckInv, Platform!Worlds, Platform!ControllerFacts, Platform!Queries, Platform!Workload,
           Platform!Running, Platform!Hooks
  <1>2. DOMAIN world = {"settings", "deployment"}
    BY <1>1
  <1>3. /\ Read("settings")
        /\ IF Platform!Said(Found.settings, TRUE) THEN Asked("deployment") ELSE Skipped("deployment")
    BY <1>2, Settled DEF Given, Platform!GivenTo, Platform!Given, Platform!Wanted, Asked, Found,
       Platform!ReadsControllers
  <1>4. /\ MayBe(world.settings, BOOLEAN)
        /\ MayBe(world.deployment, {"pinned", "drifted", "garbled"})
    BY <1>1, OfMaybe, OfListed
  <1>5. Platform!Judge(Found) = Platform!Controllers(Found)
    BY DEF Platform!Judge
  <1>6. Platform!Promised <=>
          (/\ world.settings = Platform!There(TRUE) /\ (Platform!Present(world.deployment) => world.deployment.is # "garbled"))
    BY DEF Platform!Promised
  <1>7. failed \subseteq {"newest", "hooks"} <=> "settings" \notin failed /\ "deployment" \notin failed
    BY <1>2 DEF CheckInv
  <1>8. CASE world.settings # Platform!There(TRUE)
    <2>1. Platform!Judge(Found) = {"bad"}
      BY <1>3, <1>4, <1>5, <1>8, Kinds DEF Platform!Controllers, Read, MayBe, MustBe
    <2> QED BY <1>6, <1>8, <2>1 DEF Verdict, Platform!Passed, Found
  <1>9. CASE world.settings = Platform!There(TRUE)
    <2>1. Asked("deployment") /\ Found.settings = Platform!There(TRUE)
      BY <1>3, <1>9, Kinds DEF Platform!Said, Read
    <2>2. Platform!Judge(Found) = IF Found.deployment = Platform!Unread THEN {"bad"}
                                  ELSE IF Platform!Absent(Found.deployment) THEN {"warn"}
                                  ELSE {IF Found.deployment.is = "garbled" THEN "bad"
                                        ELSE Platform!Warned(Found.deployment.is = "pinned")}
      BY <1>5, <2>1, Kinds DEF Platform!Controllers
    <2>3. CASE Failed("deployment")
      <3>1. Platform!Judge(Found) = {"bad"}
        BY <2>2, <2>3 DEF Failed
      <3> QED BY <1>7, <2>3, <3>1 DEF Verdict, Platform!Passed, Found, Failed
    <2>4. CASE Read("deployment") /\ world.deployment = Platform!Gone
      <3>1. Platform!Judge(Found) = {"warn"}
        BY <2>2, <2>4, Kinds DEF Read
      <3> QED BY <1>3, <1>6, <1>7, <1>9, <2>4, <3>1, Kinds DEF Verdict, Platform!Passed, Found, Read
    <2>5. CASE Read("deployment") /\ world.deployment # Platform!Gone
      <3>1. Platform!Present(world.deployment)
        BY <1>4, <2>5, Kinds DEF MayBe, MustBe
      <3>2. Platform!Judge(Found) = {IF world.deployment.is = "garbled" THEN "bad"
                                     ELSE Platform!Warned(world.deployment.is = "pinned")}
        BY <1>4, <2>2, <2>5, Kinds DEF Read, MayBe, MustBe
      <3> QED BY <1>3, <1>6, <1>7, <1>9, <2>5, <3>1, <3>2 DEF Verdict, Platform!Passed, Platform!Warned, Found,
                 Read
    <2> QED BY <2>1, <2>3, <2>4, <2>5 DEF Asked
  <1> QED BY <1>8, <1>9

LEMMA ConsoleTokenTrue ==
  ASSUME CheckInv, report = "judged", check = "consoleToken" PROVE Verdict
PROOF
  <1>1. world \in [secret : Platform!Maybe({"set", "unset"}), source : Platform!Maybe(BOOLEAN),
                   accepted : Platform!Listed({"yes", "expiring", "no"})]
    BY DEF CheckInv, Platform!Worlds, Platform!TokenFacts, Platform!Queries, Platform!Workload,
           Platform!Running, Platform!Hooks
  <1>2. DOMAIN world = {"secret", "source", "accepted"}
    BY <1>1
  <1>3. /\ Asked("secret")
        /\ Asked("source")
        /\ IF (Platform!Said(Found.secret, "set") /\ Platform!Said(Found.source, TRUE))
            THEN Asked("accepted")
            ELSE Skipped("accepted")
    BY <1>2, Settled DEF Given, Platform!GivenTo, Platform!Given, Platform!Wanted, Asked, Found,
       Platform!ReadsTokens
  <1>4. /\ MayBe(world.secret, {"set", "unset"})
        /\ MayBe(world.source, BOOLEAN)
        /\ MustBe(world.accepted, {"yes", "expiring", "no"})
    BY <1>1, OfMaybe, OfListed
  <1>5. Platform!Judge(Found) = Platform!ConsoleToken(Found)
    BY DEF Platform!Judge
  <1>6. Platform!Promised <=>
          (world.secret = Platform!There("set") /\ world.source = Platform!There(TRUE) /\ world.accepted.is # "no")
    BY DEF Platform!Promised
  <1>7. failed \subseteq {"newest", "hooks"} <=>
          "secret" \notin failed /\ "source" \notin failed /\ "accepted" \notin failed
    BY <1>2 DEF CheckInv
  <1>8. (Platform!Present(Found.source) /\ Found.source.is) <=> Platform!Said(Found.source, TRUE)
    BY <1>3, <1>4, Kinds DEF Platform!Said, Asked, Read, Failed, MayBe, MustBe
  <1>9. Platform!Said(Found.source, TRUE) <=> Read("source") /\ world.source = Platform!There(TRUE)
    BY <1>3, <1>4, Kinds DEF Platform!Said, Asked, Read, Failed, MayBe, MustBe
  <1>10. Platform!Said(Found.secret, "set") <=> Read("secret") /\ world.secret = Platform!There("set")
    BY <1>3, <1>4, Kinds DEF Platform!Said, Asked, Read, Failed, MayBe, MustBe
  <1>11. CASE ~(Platform!Said(Found.secret, "set") /\ Platform!Said(Found.source, TRUE))
    <2>1. "bad" \in Platform!Judge(Found)
      BY <1>3, <1>4, <1>5, <1>8, <1>11, Kinds DEF Platform!ConsoleToken, Platform!Installed, Platform!Said,
         Asked, Read, Failed, MayBe, MustBe
    <2> QED BY <1>3, <1>6, <1>7, <1>9, <1>10, <1>11, <2>1 DEF Verdict, Platform!Passed, Found, Asked, Read,
               Failed, Skipped
  <1>12. CASE Platform!Said(Found.secret, "set") /\ Platform!Said(Found.source, TRUE)
    <2>0. Found.secret = Platform!There("set") /\ Found.source = Platform!There(TRUE)
      BY <1>9, <1>10, <1>12 DEF Read
    <2>1. Platform!Judge(Found) = IF ~Platform!Present(Found.accepted) \/ Found.accepted.is = "no" THEN {"bad"}
                                  ELSE {Platform!Warned(Found.accepted.is = "yes")}
      BY <1>5, <2>0, Kinds DEF Platform!ConsoleToken, Platform!Installed
    <2>2. (~Platform!Present(Found.accepted) \/ Found.accepted.is = "no") <=>
            ~(Read("accepted") /\ world.accepted.is # "no")
      BY <1>3, <1>4, <1>12, Kinds DEF Asked, Read, Failed, MayBe, MustBe
    <2>3. (Read("accepted") /\ world.accepted.is # "no") <=>
            (failed \subseteq {"newest", "hooks"} /\ Platform!Promised)
      BY <1>3, <1>6, <1>7, <1>9, <1>10, <1>12 DEF Asked, Read, Failed
    <2>4. "bad" \notin Platform!Judge(Found) <=> (Read("accepted") /\ world.accepted.is # "no")
      BY <2>1, <2>2 DEF Platform!Warned
    <2> QED BY <2>1, <2>3, <2>4 DEF Verdict, Platform!Passed, Found
  <1> QED BY <1>11, <1>12

LEMMA PushWebhookTrue ==
  ASSUME CheckInv, report = "judged", check = "pushWebhook" PROVE Verdict
PROOF
  <1>1. world \in [token : Platform!Maybe({TRUE}), settings : Platform!Maybe(BOOLEAN),
                   receiver : Platform!Maybe(BOOLEAN),
                   hooks : Platform!Listed({"none", "disabled", "lacking", "silent", "200", "502"})]
    BY DEF CheckInv, Platform!Worlds, Platform!PushFacts, Platform!Queries, Platform!Workload,
           Platform!Running, Platform!Hooks
  <1>2. DOMAIN world = {"token", "settings", "receiver", "hooks"}
    BY <1>1
  <1>3. /\ Read("token")
        /\ Asked("settings")
        /\ Asked("receiver")
        /\ IF (Platform!Present(Found.token) /\ Platform!Said(Found.settings, TRUE))
            THEN Asked("hooks")
            ELSE Skipped("hooks")
    BY <1>2, Settled DEF Given, Platform!GivenTo, Platform!Given, Platform!Wanted, Asked, Found,
       Platform!ReadsHooks
  <1>4. /\ MayBe(world.token, {TRUE})
        /\ MayBe(world.settings, BOOLEAN)
        /\ MayBe(world.receiver, BOOLEAN)
        /\ MustBe(world.hooks, {"none", "disabled", "lacking", "silent", "200", "502"})
    BY <1>1, OfMaybe, OfListed
  <1>5. Platform!Judge(Found) = Platform!PushWebhook(Found)
    BY DEF Platform!Judge
  <1>6. Platform!Promised <=>
          (/\ Platform!Present(world.token) /\ world.settings = Platform!There(TRUE) /\ world.receiver = Platform!There(TRUE))
    BY DEF Platform!Promised
  <1>7. failed \subseteq {"newest", "hooks"} <=>
          "token" \notin failed /\ "settings" \notin failed /\ "receiver" \notin failed
    BY <1>2 DEF CheckInv
  <1>8. Found.token = world.token /\ (Platform!Present(world.token) <=> ~Platform!Absent(world.token))
    BY <1>3, <1>4, Kinds DEF Read, MayBe
  <1>9. Platform!Installed(Found.settings) <=> Read("settings") /\ world.settings = Platform!There(TRUE)
    BY <1>3, <1>4, Kinds DEF Platform!Installed, Asked, Read, Failed, MayBe
  <1>10. Platform!Receiver(Found.receiver) = IF Read("receiver") /\ world.receiver = Platform!There(TRUE)
                                             THEN "ok" ELSE "bad"
    BY <1>3, <1>4, Kinds DEF Platform!Receiver, Platform!Level, Asked, Read, Failed, MayBe
  <1>11. Platform!Judge(Found) # {} /\ ("bad" \notin Platform!Judge(Found) <=>
           /\ Read("receiver") /\ world.receiver = Platform!There(TRUE) /\ Platform!Present(world.token)
           /\ Read("settings") /\ world.settings = Platform!There(TRUE))
    BY <1>5, <1>8, <1>9, <1>10 DEF Platform!PushWebhook, Platform!Supplied, Platform!Warned
  <1> QED BY <1>3, <1>6, <1>7, <1>11 DEF Verdict, Platform!Passed, Found, Asked, Read, Failed

LEMMA ImageWebhooksTrue ==
  ASSUME CheckInv, report = "judged", check = "imageWebhooks" PROVE Verdict
PROOF
  <1>1. world \in [token : Platform!Maybe({TRUE}), releases : Platform!Listed({"ours", "other", "garbled"}),
                   settings : Platform!Maybe(BOOLEAN), receiver : Platform!Maybe(BOOLEAN),
                   hooks : Platform!Listed({"none", "disabled", "lacking", "silent", "200", "502"})]
    BY DEF CheckInv, Platform!Worlds, Platform!ImageHookFacts, Platform!Queries, Platform!Workload,
           Platform!Running, Platform!Hooks
  <1>2. DOMAIN world = {"token", "releases", "settings", "receiver", "hooks"}
    BY <1>1
  <1>3. /\ Read("token")
        /\ Read("releases")
        /\ Asked("settings")
        /\ Asked("receiver")
        /\ IF (Platform!Present(Found.token) /\ Platform!Said(Found.settings, TRUE) /\ Platform!Said(Found.releases, "ours"))
            THEN Asked("hooks")
            ELSE Skipped("hooks")
    BY <1>2, Settled DEF Given, Platform!GivenTo, Platform!Given, Platform!Wanted, Asked, Found,
       Platform!ReadsHooks
  <1>4. /\ MayBe(world.token, {TRUE})
        /\ MustBe(world.releases, {"ours", "other", "garbled"})
        /\ MayBe(world.settings, BOOLEAN)
        /\ MayBe(world.receiver, BOOLEAN)
        /\ MustBe(world.hooks, {"none", "disabled", "lacking", "silent", "200", "502"})
    BY <1>1, OfMaybe, OfListed
  <1>5. Platform!Judge(Found) = Platform!ImageWebhooks(Found)
    BY DEF Platform!Judge
  <1>6. Platform!Promised <=> (/\ Platform!Present(world.token) /\ world.settings = Platform!There(TRUE)
         /\ world.receiver = Platform!There(TRUE) /\ world.releases.is # "garbled")
    BY DEF Platform!Promised
  <1>7. failed \subseteq {"newest", "hooks"} <=>
          "token" \notin failed /\ "releases" \notin failed /\ "settings" \notin failed /\ "receiver" \notin failed
    BY <1>2 DEF CheckInv
  <1>8. /\ Found.token = world.token /\ (Platform!Present(world.token) <=> ~Platform!Absent(world.token))
        /\ Found.releases = world.releases
    BY <1>3, <1>4, Kinds DEF Read, MayBe
  <1>9. Platform!Installed(Found.settings) <=> Read("settings") /\ world.settings = Platform!There(TRUE)
    BY <1>3, <1>4, Kinds DEF Platform!Installed, Asked, Read, Failed, MayBe
  <1>10. Platform!Receiver(Found.receiver) = IF Read("receiver") /\ world.receiver = Platform!There(TRUE)
                                             THEN "ok" ELSE "bad"
    BY <1>3, <1>4, Kinds DEF Platform!Receiver, Platform!Level, Asked, Read, Failed, MayBe
  <1>11. Platform!Judge(Found) # {} /\ ("bad" \notin Platform!Judge(Found) <=>
           /\ Read("receiver") /\ world.receiver = Platform!There(TRUE) /\ Platform!Present(world.token)
           /\ Read("settings") /\ world.settings = Platform!There(TRUE) /\ world.releases.is # "garbled")
    BY <1>5, <1>8, <1>9, <1>10 DEF Platform!ImageWebhooks, Platform!Supplied, Platform!Warned
  <1> QED BY <1>3, <1>6, <1>7, <1>11 DEF Verdict, Platform!Passed, Found, Asked, Read, Failed

LEMMA ConsoleTrue ==
  ASSUME CheckInv, report = "judged", check = "console" PROVE Verdict
PROOF
  <1>1. world \in [tag : Platform!Maybe({"src-a", "src-b"}),
                   release : Platform!Maybe({"src-a", "other", "none"}), jobs : Platform!Maybe({TRUE})]
    BY DEF CheckInv, Platform!Worlds, Platform!ConsoleFacts, Platform!Queries, Platform!Workload,
           Platform!Running, Platform!Hooks
  <1>2. DOMAIN world = {"tag", "release", "jobs"}
    BY <1>1
  <1>3. /\ Read("tag")
        /\ Asked("release")
        /\ Asked("jobs")
    BY <1>2, Settled DEF Given, Platform!GivenTo, Platform!Given, Platform!Wanted, Asked, Found
  <1>4. /\ MayBe(world.tag, {"src-a", "src-b"})
        /\ MayBe(world.release, {"src-a", "other", "none"})
        /\ MayBe(world.jobs, {TRUE})
    BY <1>1, OfMaybe, OfListed
  <1> QED BY <1>2, <1>3, <1>4, Kinds DEF Verdict, Platform!Passed, Platform!Judge, Platform!Promised,
             Platform!Console,
             Platform!Level, Platform!Warned, Platform!Said, Asked, Read, Failed, Skipped, CheckInv, Found,
             MayBe, MustBe

LEMMA ImagesTrue ==
  ASSUME CheckInv, report = "judged", check = "images" PROVE Verdict
PROOF
  <1>1. world \in [records : Platform!Maybe({"digest", "older", "garbled", "none"}),
                   policies : Platform!Maybe(SUBSET BOOLEAN), newest : Platform!Listed({"digest"})]
    BY DEF CheckInv, Platform!Worlds, Platform!ImageFacts, Platform!Queries, Platform!Workload,
           Platform!Running, Platform!Hooks
  <1>2. DOMAIN world = {"records", "policies", "newest"}
    BY <1>1
  <1>3. /\ Read("records")
        /\ Asked("policies")
        /\ IF (/\ Platform!Present(Found.policies) /\ TRUE \in Found.policies.is
         /\ Platform!Present(Found.records) /\ Found.records.is \notin {"garbled", "none"}) THEN Asked("newest") ELSE Skipped("newest")
    BY <1>2, Settled DEF Given, Platform!GivenTo, Platform!Given, Platform!Wanted, Asked, Found,
       Platform!ReadsImages
  <1>4. /\ MayBe(world.records, {"digest", "older", "garbled", "none"})
        /\ MayBe(world.policies, SUBSET BOOLEAN)
        /\ MustBe(world.newest, {"digest"})
    BY <1>1, OfMaybe, OfListed
  <1>5. Platform!Judge(Found) = Platform!Images(Found)
    BY DEF Platform!Judge
  <1>6. Platform!Promised <=> (/\ Platform!Present(world.policies) /\ FALSE \notin world.policies.is
                            /\ ((world.policies.is # {} /\ Platform!Present(world.records)) => world.records.is \in {"digest", "older"}))
    BY DEF Platform!Promised
  <1>7. failed \subseteq {"newest", "hooks"} <=> "records" \notin failed /\ "policies" \notin failed
    BY <1>2 DEF CheckInv
  <1>8. CASE ~(Read("policies") /\ Platform!Present(world.policies))
    <2>1. Platform!Judge(Found) = {"bad"}
      BY <1>3, <1>4, <1>5, <1>8, Kinds DEF Platform!Images, Asked, Read, Failed, MayBe, MustBe
    <2> QED BY <1>3, <1>6, <1>7, <1>8, <2>1 DEF Verdict, Platform!Passed, Found, Asked, Failed
  <1>9. CASE Read("policies") /\ Platform!Present(world.policies)
    <2> DEFINE names == world.policies.is
    <2>1. Found.policies = world.policies /\ names \subseteq BOOLEAN
      BY <1>4, <1>9, Kinds DEF Read, MayBe, MustBe
    <2>2. Found.records = world.records /\ "records" \notin failed /\ "policies" \notin failed
      BY <1>3, <1>9 DEF Read
    <2>3. CASE names = {}
      <3>1. Platform!Judge(Found) = {"ok"}
        BY <1>5, <1>9, <2>1, <2>3 DEF Platform!Images
      <3> QED BY <1>6, <1>7, <1>9, <2>2, <2>3, <3>1 DEF Verdict, Platform!Passed, Found
    <2>4. CASE names # {}
      <3> DEFINE Entry(ready) == IF ~ready THEN "bad"
                                 ELSE IF Platform!Absent(world.records) THEN "warn"
                                 ELSE IF world.records.is \in {"garbled", "none"} THEN "bad"
                                 ELSE Platform!Warned(Platform!Present(Found.newest) /\ Found.newest.is = world.records.is)
      <3>1. Platform!Judge(Found) = {Entry(ready) : ready \in names}
        BY <1>5, <1>9, <2>1, <2>2, <2>4 DEF Platform!Images
      <3>2. Entry(FALSE) = "bad"
        OBVIOUS
      <3>3. Entry(TRUE) = "bad" <=> ~(Platform!Present(world.records) => world.records.is \in {"digest", "older"})
        BY <1>4, Kinds DEF Platform!Warned, MayBe, MustBe
      <3> HIDE DEF Entry
      <3>4. names = {TRUE} \/ FALSE \in names
        BY <2>1, <2>4
      <3>5. CASE FALSE \in names
        <4>1. "bad" \in Platform!Judge(Found)
          BY <3>1, <3>2, <3>5
        <4> QED BY <1>6, <3>5, <4>1 DEF Verdict, Platform!Passed, Found
      <3>6. CASE names = {TRUE}
        <4>1. Platform!Judge(Found) = {Entry(TRUE)}
          BY <3>1, <3>6
        <4>2. FALSE \notin names
          BY <3>6
        <4> QED BY <1>6, <1>7, <1>9, <2>2, <2>4, <3>3, <4>1, <4>2 DEF Verdict, Platform!Passed, Found
      <3> QED BY <3>4, <3>5, <3>6
    <2> QED BY <2>3, <2>4
  <1> QED BY <1>8, <1>9


LEMMA Clocks ==
  ASSUME CheckInv
  PROVE  /\ clock \in Int /\ Until \in Int /\ Fresh \in Int /\ Fresh > 0 /\ Until > Fresh
         /\ clock \in {Until - 1, Until}
PROOF
  BY VerifyAssumption DEF CheckInv

LEMMA CronTrue ==
  ASSUME CheckInv, report = "judged", check \in {"dashboards", "notifications"} PROVE Verdict
PROOF
  <1> DEFINE CronJobs == [suspended : BOOLEAN, success : Platform!Times]
  <1>1. world \in [job : Platform!Maybe(CronJobs)]
    <2>1. CASE check = "dashboards"
      BY <2>1 DEF CheckInv, Platform!Worlds, Platform!Cron
    <2>2. CASE check = "notifications"
      BY <2>2 DEF CheckInv, Platform!Worlds, Platform!Cron
    <2> QED BY <2>1, <2>2
  <1>2. DOMAIN world = {"job"}
    BY <1>1
  <1>3. Asked("job")
    BY <1>2, AllAsked DEF Platform!GivenTo, Platform!Given
  <1>4. MayBe(world.job, CronJobs)
    BY <1>1, OfMaybe
  <1>5. Platform!Judge(Found) = Platform!CronJob(Found)
    BY DEF Platform!Judge
  <1>6. Platform!Promised <=> (/\ Platform!Present(world.job) /\ ~world.job.is.suspended
                              /\ Platform!Recent(world.job.is.success))
    BY DEF Platform!Promised
  <1>7. failed \subseteq {"newest", "hooks"} <=> "job" \notin failed
    BY <1>2 DEF CheckInv
  <1>8. CASE ~(Read("job") /\ Platform!Present(world.job))
    <2>1. Platform!Judge(Found) = {"bad"}
      BY <1>3, <1>4, <1>5, <1>8, Kinds DEF Platform!CronJob, Platform!Level, Asked, Read, Failed, MayBe, MustBe
    <2> QED BY <1>3, <1>6, <1>7, <1>8, <2>1 DEF Verdict, Platform!Passed, Found, Asked, Failed
  <1>9. CASE Read("job") /\ Platform!Present(world.job)
    <2> DEFINE last == world.job.is.success
               fresh == last \notin {Platform!Never, Platform!Garbled} /\ clock - last <= Fresh
    <2>1. world.job.is \in CronJobs
      BY <1>4, <1>9, Kinds DEF MayBe, MustBe
    <2>2. last \in Platform!Times
      BY <2>1
    <2>3. fresh <=> Platform!Recent(last)
      BY <2>2, Clocks DEF Platform!Times, Platform!Never, Platform!Garbled, Platform!Recent
    <2>4. Found.job = world.job
      BY <1>9 DEF Read
    <2>5. Platform!Judge(Found) = {IF ~world.job.is.suspended /\ fresh THEN "ok" ELSE "bad"}
      BY <1>5, <1>9, <2>4 DEF Platform!CronJob, Platform!Level
    <2> HIDE DEF fresh, last
    <2> QED BY <1>6, <1>7, <1>9, <2>3, <2>5 DEF Verdict, Platform!Passed, Found, Read, last
  <1> QED BY <1>8, <1>9

LEMMA HeartbeatTrue ==
  ASSUME CheckInv, report = "judged", check = "heartbeat" PROVE Verdict
PROOF
  <1> DEFINE Shown == [timer : {"active", "dead", "none"}, success : BOOLEAN, exit : Platform!Times]
  <1>1. world \in [facts : Platform!Maybe(Shown)]
    BY DEF CheckInv, Platform!Worlds, Platform!TimerFacts
  <1>2. DOMAIN world = {"facts"}
    BY <1>1
  <1>3. Read("facts")
    BY <1>2, Settled DEF Given, Platform!GivenTo, Platform!Given
  <1>4. MayBe(world.facts, Shown)
    BY <1>1, OfMaybe
  <1>5. Platform!Judge(Found) = Platform!Heartbeat(Found)
    BY DEF Platform!Judge
  <1>6. Platform!Promised <=> (/\ Platform!Present(world.facts) /\ world.facts.is.timer = "active"
                              /\ world.facts.is.success /\ Platform!Recent(world.facts.is.exit))
    BY DEF Platform!Promised
  <1>7. failed \subseteq {"newest", "hooks"}
    BY <1>2, <1>3 DEF CheckInv, Read
  <1>8. Found.facts = world.facts
    BY <1>3 DEF Read
  <1>9. CASE world.facts = Platform!Gone \/ world.facts.is.timer = "none"
    <2>1. Platform!Judge(Found) = {"bad"}
      BY <1>5, <1>8, <1>9, Kinds DEF Platform!Heartbeat
    <2> QED BY <1>6, <1>9, <2>1, Kinds DEF Verdict, Platform!Passed, Found
  <1>10. CASE world.facts # Platform!Gone /\ world.facts.is.timer # "none"
    <2> DEFINE last == world.facts.is.exit
               active == world.facts.is.timer = "active"
               sound == /\ world.facts.is.success /\ last \notin {Platform!Never, Platform!Garbled}
                        /\ clock - last \in 0 .. Fresh
    <2>1. world.facts.is \in Shown /\ Platform!Present(world.facts) /\ ~Platform!Absent(world.facts)
      BY <1>4, <1>10, Kinds DEF MayBe, MustBe
    <2>2. last \in Platform!Times
      BY <2>1
    <2>3. sound <=> world.facts.is.success /\ Platform!Recent(last)
      BY <2>2, Clocks DEF Platform!Times, Platform!Never, Platform!Garbled, Platform!Recent
    <2>4. Platform!Judge(Found) = (IF active THEN {} ELSE {"bad"}) \cup
                                  (IF ~sound THEN {"bad"} ELSE IF active THEN {"ok"} ELSE {})
      BY <1>5, <1>8, <1>10, <2>1 DEF Platform!Heartbeat
    <2>5. Platform!Promised <=> active /\ sound
      BY <1>6, <2>1, <2>3
    <2> HIDE DEF active, sound, last
    <2> QED BY <1>7, <2>4, <2>5 DEF Verdict, Platform!Passed, Found
  <1> QED BY <1>9, <1>10

(* The newest archive with metadata is young exactly when the last time of *)
(* one is.                                                                 *)
LEMMA NewestYoung ==
  ASSUME CheckInv, world.listing.is \in Platform!Archives
  PROVE  (\E taken \in Platform!Newest(world.listing.is) : clock - taken <= Fresh) <=> Platform!BackedUp
PROOF
  <1> DEFINE objects == world.listing.is
             old == Until - Fresh - 1
             stamps == {o.stamp : o \in {p \in objects : p.described}}
             Last(t) == t \in stamps \cup {Platform!Never} /\ \A o \in objects : o.described => o.stamp <= t
  <1>1. old \in Nat /\ Until - Fresh = old + 1
    BY Clocks
  <1>2. \A o \in objects : o.stamp \in {old, old + 1} /\ o.described \in BOOLEAN
    BY <1>1 DEF Platform!Archives
  <1>3. stamps \subseteq {old, old + 1} /\ \A o \in objects : o.described => o.stamp \in stamps
    BY <1>2
  <1>4. Platform!Newest(objects) = {t \in stamps : \A q \in objects : q.described => q.stamp <= t}
    BY DEF Platform!Newest
  <1>5. Platform!BackedUp <=> Platform!Recent(CHOOSE t : Last(t))
    BY DEF Platform!BackedUp
  <1>6. CASE stamps = {}
    <2>1. \A t : Last(t) <=> t = Platform!Never
      BY <1>3, <1>6
    <2>2. (CHOOSE t : Last(t)) = Platform!Never
      BY <2>1
    <2>3. ~Platform!Recent(Platform!Never)
      BY Clocks DEF Platform!Recent, Platform!Never
    <2>4. Platform!Newest(objects) = {}
      BY <1>4, <1>6 DEF MayBe, MustBe
    <2> QED BY <1>5, <2>2, <2>3, <2>4
  <1>7. CASE stamps # {}
    <2>1. PICK m \in stamps : \A t \in stamps : t <= m
      <3> HIDE DEF stamps, old
      <3>1. CASE old + 1 \in stamps
        <4>1. \A t \in stamps : t <= old + 1
          BY <1>1, <1>3
        <4> QED BY <3>1, <4>1
      <3>2. CASE old + 1 \notin stamps
        <4>1. stamps = {old}
          BY <1>3, <1>7, <3>2
        <4> QED BY <1>1, <4>1
      <3> QED BY <3>1, <3>2
    <2>2. \A t : Last(t) <=> t = m
      BY <1>1, <1>2, <1>3, <2>1 DEF Platform!Never
    <2>3. (CHOOSE t : Last(t)) = m
      BY <2>2
    <2>4. Platform!Newest(objects) = {m}
      BY <1>1, <1>3, <1>4, <2>1, SMTT(30)
    <2>5. clock - m <= Fresh <=> Platform!Recent(m)
      <3>1. m \in {old, old + 1}
        BY <1>3, <2>1
      <3>2. m \in Int /\ m >= 0 /\ m <= Until - Fresh
        <4> HIDE DEF old
        <4> QED BY <1>1, <3>1
      <3>3. m \in 0 .. clock
        BY <3>2, Clocks
      <3> QED BY <3>3 DEF Platform!Recent
    <2> QED BY <1>5, <2>3, <2>4, <2>5
  <1> QED BY <1>6, <1>7

LEMMA BackupsTrue ==
  ASSUME CheckInv, report = "judged", check = "backups" PROVE Verdict
PROOF
  <1>1. world \in [credentials : Platform!Maybe({TRUE}), job : Platform!Maybe(BOOLEAN),
                   listing : Platform!Listed(Platform!Archives)]
    BY DEF CheckInv, Platform!Worlds, Platform!MongoFacts
  <1>2. DOMAIN world = {"credentials", "job", "listing"}
    BY <1>1
  <1>3. /\ Read("credentials")
        /\ Asked("job")
        /\ IF Platform!Said(Found.job, TRUE) /\ Platform!Present(Found.credentials)
            THEN Asked("listing")
            ELSE Skipped("listing")
    BY <1>2, Settled DEF Given, Platform!GivenTo, Platform!Given, Platform!Wanted, Platform!ReadsBackups,
       Asked, Found
  <1>4. /\ MayBe(world.job, BOOLEAN)
        /\ MustBe(world.listing, Platform!Archives)
    BY <1>1, OfMaybe, OfListed
  <1>5. Platform!Judge(Found) = Platform!MongoBackup(Found)
    BY DEF Platform!Judge
  <1>6. Platform!Promised <=> (/\ world.job = Platform!There(TRUE) /\ Platform!Present(world.credentials)
                              /\ Platform!BackedUp)
    BY DEF Platform!Promised
  <1>7. failed \subseteq {"newest", "hooks"} <=> "job" \notin failed /\ "listing" \notin failed
    BY <1>2, <1>3 DEF CheckInv, Read
  <1>8. Found.credentials = world.credentials
    BY <1>3 DEF Read
  <1>9. CASE ~(Read("job") /\ world.job = Platform!There(TRUE) /\ Platform!Present(world.credentials))
    <2>1. ~Platform!Said(Found.job, TRUE) \/ ~Platform!Present(Found.credentials)
      BY <1>3, <1>4, <1>8, <1>9, Kinds DEF Platform!Said, Asked, Read, Failed, MayBe, MustBe
    <2>2. Platform!Judge(Found) = {"bad"}
      BY <1>5, <2>1 DEF Platform!MongoBackup, Platform!Archive, Platform!Level, Platform!Said
    <2> QED BY <1>3, <1>6, <1>7, <1>9, <2>2 DEF Verdict, Platform!Passed, Found, Asked, Failed
  <1>10. CASE Read("job") /\ world.job = Platform!There(TRUE) /\ Platform!Present(world.credentials)
    <2>1. Found.job = Platform!There(TRUE) /\ Asked("listing")
      BY <1>3, <1>8, <1>10, Kinds DEF Platform!Said, Read
    <2>2. Platform!Judge(Found) = {Platform!Archive(Found.credentials, Found.listing)}
      BY <1>5, <2>1, Kinds DEF Platform!MongoBackup
    <2>3. CASE Failed("listing")
      <3>1. Platform!Judge(Found) = {"bad"}
        BY <2>2, <2>3, Kinds DEF Platform!Archive, Platform!Level, Failed
      <3> QED BY <1>7, <2>3, <3>1 DEF Verdict, Platform!Passed, Found, Failed
    <2>4. CASE Read("listing")
      <3>1. Platform!Present(Found.credentials) /\ Platform!Present(Found.listing) /\ Found.listing = world.listing
        BY <1>4, <1>8, <1>10, <2>4, Kinds DEF Read, MayBe, MustBe
      <3>2. Platform!Judge(Found) = {IF Platform!BackedUp THEN "ok" ELSE "bad"}
        BY <1>4, <2>2, <3>1, NewestYoung DEF Platform!Archive, Platform!Level, MayBe, MustBe
      <3> QED BY <1>6, <1>7, <1>10, <2>4, <3>2 DEF Verdict, Platform!Passed, Found, Read
    <2> QED BY <2>1, <2>3, <2>4 DEF Asked
  <1> QED BY <1>9, <1>10

LEMMA DatabasesTrue ==
  ASSUME CheckInv, report = "judged", check = "databases" PROVE Verdict
PROOF
  <1>1. world \in [releases : Platform!Listed({"none", "database", "garbled"}),
                   profile : Platform!Maybe(BOOLEAN),
                   credentials : Platform!Maybe({TRUE}), listing : Platform!Listed(Platform!Archives)]
    BY DEF CheckInv, Platform!Worlds, Platform!DatabaseFacts
  <1>2. DOMAIN world = {"releases", "profile", "credentials", "listing"}
    BY <1>1
  <1>3. /\ Read("releases") /\ Read("profile") /\ Read("credentials")
        /\ IF Platform!Said(Found.releases, "database") /\ Platform!Said(Found.profile, TRUE)
              /\ Platform!Present(Found.credentials)
           THEN Asked("listing") ELSE Skipped("listing")
    BY <1>2, Settled DEF Given, Platform!GivenTo, Platform!Given, Platform!Wanted, Platform!ReadsDatabases,
       Asked, Found
  <1>4. /\ MustBe(world.releases, {"none", "database", "garbled"})
        /\ MayBe(world.profile, BOOLEAN)
        /\ MustBe(world.listing, Platform!Archives)
    BY <1>1, OfMaybe, OfListed
  <1>5. Platform!Judge(Found) = Platform!Databases(Found)
    BY DEF Platform!Judge
  <1>6. Platform!Promised <=>
          /\ world.releases.is # "garbled" /\ world.profile = Platform!There(TRUE)
          /\ (world.releases.is = "database" => Platform!Present(world.credentials) /\ Platform!BackedUp)
    BY DEF Platform!Promised
  <1>7. failed \subseteq {"newest", "hooks"} <=> "listing" \notin failed
    BY <1>2, <1>3 DEF CheckInv, Read
  <1>8. Found.releases = world.releases /\ Found.profile = world.profile /\ Found.credentials = world.credentials
    BY <1>3 DEF Read
  <1>9. Platform!Said(Found.releases, "database") <=> world.releases.is = "database"
    BY <1>4, <1>8, Kinds DEF Platform!Said, MayBe, MustBe
  <1>10. Platform!Said(Found.profile, TRUE) <=> world.profile = Platform!There(TRUE)
    BY <1>4, <1>8, Kinds DEF Platform!Said, MayBe, MustBe
  <1>11. CASE world.releases.is = "garbled" \/ world.profile # Platform!There(TRUE)
    <2>1. Platform!Judge(Found) = {"bad"}
      BY <1>4, <1>5, <1>8, <1>11, Kinds DEF Platform!Databases, MayBe, MustBe
    <2> QED BY <1>6, <1>11, <2>1 DEF Verdict, Platform!Passed, Found
  <1>12. CASE world.releases.is = "none" /\ world.profile = Platform!There(TRUE)
    <2>1. Platform!Judge(Found) = {"ok"}
      BY <1>5, <1>8, <1>12, Kinds DEF Platform!Databases
    <2>2. "listing" \notin failed
      BY <1>3, <1>9, <1>12 DEF Skipped
    <2> QED BY <1>6, <1>7, <1>12, <2>1, <2>2 DEF Verdict, Platform!Passed, Found
  <1>13. CASE world.releases.is = "database" /\ world.profile = Platform!There(TRUE)
    <2>1. Platform!Judge(Found) = {Platform!Archive(Found.credentials, Found.listing)}
      BY <1>5, <1>8, <1>13, Kinds DEF Platform!Databases
    <2>2. CASE ~Platform!Present(world.credentials)
      <3>1. Platform!Judge(Found) = {"bad"}
        BY <1>8, <2>1, <2>2 DEF Platform!Archive, Platform!Level
      <3> QED BY <1>6, <1>13, <2>2, <3>1 DEF Verdict, Platform!Passed, Found
    <2>3. CASE Platform!Present(world.credentials) /\ Failed("listing")
      <3>1. Platform!Judge(Found) = {"bad"}
        BY <2>1, <2>3, Kinds DEF Platform!Archive, Platform!Level, Failed
      <3> QED BY <1>7, <2>3, <3>1 DEF Verdict, Platform!Passed, Found, Failed
    <2>4. CASE Platform!Present(world.credentials) /\ Read("listing")
      <3>1. Platform!Present(Found.credentials) /\ Platform!Present(Found.listing) /\ Found.listing = world.listing
        BY <1>4, <1>8, <2>4, Kinds DEF Read, MayBe, MustBe
      <3>2. Platform!Judge(Found) = {IF Platform!BackedUp THEN "ok" ELSE "bad"}
        BY <1>4, <2>1, <3>1, NewestYoung DEF Platform!Archive, Platform!Level, MayBe, MustBe
      <3> QED BY <1>6, <1>7, <1>13, <2>4, <3>2 DEF Verdict, Platform!Passed, Found, Read
    <2> QED BY <1>3, <1>8, <1>9, <1>10, <1>13, <2>2, <2>3, <2>4 DEF Asked
  <1> QED BY <1>4, <1>11, <1>12, <1>13 DEF MayBe, MustBe

-----------------------------------------------------------------------------
(* The run's steps.                                                        *)

(* What a read found stays.                                                *)
LEMMA FoundStays ==
  ASSUME CheckInv, NEW g \in DOMAIN world, Platform!Ask(g), NEW f \in DOMAIN world
  PROVE  /\ f \in DOMAIN world' /\ (Found[f] = Platform!Unread \/ (Found[f])' = Found[f])
PROOF
  BY DEF Found, Platform!Evidence, Platform!Ask

LEMMA WantedStays ==
  ASSUME CheckInv, NEW g \in DOMAIN world, Platform!Ask(g), NEW f \in DOMAIN world, Platform!Wanted(f)
  PROVE  Platform!Wanted(f)'
PROOF
  <1> DEFINE Stays(h) == Found[h] = Platform!Unread \/ (Found[h])' = Found[h]
  <1>1. \A h \in DOMAIN world : Stays(h)
    BY FoundStays
  <1>2. check' = check
    BY DEF Platform!Ask
  <1>3. ASSUME Platform!Wanted(f)
        PROVE  \/ check \notin {"images", "isolation", "events", "backups", "databases", "pushWebhook", "imageWebhooks",
                             "consoleToken", "controllers", "registration", "retention"}
               \/ Platform!Wanted(f)'
    <2>1. CASE check = "images"
      <3>1. {"policies", "records"} \subseteq DOMAIN world
        BY <2>1 DEF CheckInv, Platform!Worlds, Platform!ImageFacts
      <3>2. Platform!ReadsImages(Found, f)
        BY <1>3, <2>1 DEF Platform!Wanted, Found
      <3>3. Platform!ReadsImages(Found', f)
        BY <1>1, <3>1, <3>2, Kinds DEF Platform!ReadsImages
      <3> QED BY <1>2, <2>1, <3>3 DEF Platform!Wanted, Found
    <2>2. CASE check = "isolation"
      <3>1. "compiled" \in DOMAIN world
        BY <2>2 DEF CheckInv, Platform!Worlds, Platform!IsolationFacts
      <3>2. Platform!ReadsIsolation(Found, f)
        BY <1>3, <2>2 DEF Platform!Wanted, Found
      <3>3. Platform!ReadsIsolation(Found', f)
        BY <1>1, <3>1, <3>2, Kinds DEF Platform!ReadsIsolation, Platform!Said
      <3> QED BY <1>2, <2>2, <3>3 DEF Platform!Wanted, Found
    <2>3. CASE check = "events"
      <3>1. "compiled" \in DOMAIN world
        BY <2>3 DEF CheckInv, Platform!Worlds, Platform!EventFacts
      <3>2. Platform!ReadsEvents(Found, f)
        BY <1>3, <2>3 DEF Platform!Wanted, Found
      <3>3. Platform!ReadsEvents(Found', f)
        BY <1>1, <3>1, <3>2, Kinds DEF Platform!ReadsEvents, Platform!Said
      <3> QED BY <1>2, <2>3, <3>3 DEF Platform!Wanted, Found
    <2>4. CASE check = "backups"
      <3>1. {"job", "credentials"} \subseteq DOMAIN world
        BY <2>4 DEF CheckInv, Platform!Worlds, Platform!MongoFacts
      <3>2. Platform!ReadsBackups(Found, f)
        BY <1>3, <2>4 DEF Platform!Wanted, Found
      <3>3. Platform!ReadsBackups(Found', f)
        BY <1>1, <3>1, <3>2, Kinds DEF Platform!ReadsBackups, Platform!Said
      <3> QED BY <1>2, <2>4, <3>3 DEF Platform!Wanted, Found
    <2>5. CASE check = "databases"
      <3>1. {"releases", "profile", "credentials"} \subseteq DOMAIN world
        BY <2>5 DEF CheckInv, Platform!Worlds, Platform!DatabaseFacts
      <3>2. Platform!ReadsDatabases(Found, f)
        BY <1>3, <2>5 DEF Platform!Wanted, Found
      <3>3. Platform!ReadsDatabases(Found', f)
        BY <1>1, <3>1, <3>2, Kinds DEF Platform!ReadsDatabases, Platform!Said
      <3> QED BY <1>2, <2>5, <3>3 DEF Platform!Wanted, Found
    <2>6. CASE check = "pushWebhook"
      <3>1. {"token", "settings"} \subseteq DOMAIN world
        BY <2>6 DEF CheckInv, Platform!Worlds, Platform!PushFacts
      <3>2. Platform!ReadsHooks(Found, f)
        BY <1>3, <2>6 DEF Platform!Wanted, Found
      <3>3. f = "hooks" => Platform!Present(Found'.token) /\ Platform!Said(Found'.settings, TRUE)
        BY <1>1, <3>1, <3>2, Kinds DEF Platform!ReadsHooks, Platform!Said
      <3> QED BY <1>2, <2>6, <3>3 DEF Platform!Wanted, Platform!ReadsHooks, Found
    <2>7. CASE check = "imageWebhooks"
      <3>1. {"token", "settings", "releases"} \subseteq DOMAIN world
        BY <2>7 DEF CheckInv, Platform!Worlds, Platform!ImageHookFacts
      <3>2. f = "hooks" => /\ Platform!Present(Found.token) /\ Platform!Said(Found.settings, TRUE)
                           /\ Platform!Said(Found.releases, "ours")
        BY <1>3, <2>7 DEF Platform!Wanted, Platform!ReadsHooks, Found
      <3>3. f = "hooks" => /\ Platform!Present(Found'.token) /\ Platform!Said(Found'.settings, TRUE)
                           /\ Platform!Said(Found'.releases, "ours")
        BY <1>1, <3>1, <3>2, Kinds DEF Platform!Said
      <3> QED BY <1>2, <2>7, <3>3 DEF Platform!Wanted, Platform!ReadsHooks, Found
    <2>8. CASE check = "consoleToken"
      <3>1. {"secret", "source"} \subseteq DOMAIN world
        BY <2>8 DEF CheckInv, Platform!Worlds, Platform!TokenFacts
      <3>2. Platform!ReadsTokens(Found, f)
        BY <1>3, <2>8 DEF Platform!Wanted, Found
      <3>3. Platform!ReadsTokens(Found', f)
        BY <1>1, <3>1, <3>2, Kinds DEF Platform!ReadsTokens, Platform!Said
      <3> QED BY <1>2, <2>8, <3>3 DEF Platform!Wanted, Found
    <2>9. CASE check = "controllers"
      <3>1. "settings" \in DOMAIN world
        BY <2>9 DEF CheckInv, Platform!Worlds, Platform!ControllerFacts
      <3>2. Platform!ReadsControllers(Found, f)
        BY <1>3, <2>9 DEF Platform!Wanted, Found
      <3>3. Platform!ReadsControllers(Found', f)
        BY <1>1, <3>1, <3>2, Kinds DEF Platform!ReadsControllers, Platform!Said
      <3> QED BY <1>2, <2>9, <3>3 DEF Platform!Wanted, Found
    <2>10. CASE check = "registration"
      <3>1. {"deployment", "pods", "team"} = DOMAIN world
        BY <2>10 DEF CheckInv, Platform!Worlds, Platform!TeamFacts
      <3>2. /\ f = "pods" => Platform!Said(Found.deployment, TRUE)
            /\ f = "team" => Platform!Said(Found.pods, TRUE)
            /\ f = "volume" => Platform!Said(Found.claim, TRUE)
        BY <1>3, <2>10 DEF Platform!Wanted, Platform!ReadsPods, Found
      <3>3. /\ f = "pods" => Platform!Said(Found'.deployment, TRUE)
            /\ f = "team" => Platform!Said(Found'.pods, TRUE)
        BY <1>1, <3>1, <3>2, Kinds DEF Platform!Said
      <3>4. f # "volume"
        BY <3>1
      <3> QED BY <1>2, <2>10, <3>3, <3>4 DEF Platform!Wanted, Platform!ReadsPods, Found
    <2>11. CASE check = "retention"
      <3>1. {"telemetry", "system", "merges", "claim", "volume"} = DOMAIN world
        BY <2>11 DEF CheckInv, Platform!Worlds, Platform!RetentionFacts
      <3>2. f = "volume" => Platform!Said(Found.claim, TRUE)
        BY <1>3, <2>11 DEF Platform!Wanted, Platform!ReadsPods, Found
      <3>3. f = "volume" => Platform!Said(Found'.claim, TRUE)
        BY <1>1, <3>1, <3>2, Kinds DEF Platform!Said
      <3>4. f # "pods"
        BY <3>1
      <3> QED BY <1>2, <2>11, <3>3, <3>4 DEF Platform!Wanted, Platform!ReadsPods, Found
    <2> QED BY <2>1, <2>2, <2>3, <2>4, <2>5, <2>6, <2>7, <2>8, <2>9, <2>10, <2>11
  <1>4. check \notin {"images", "isolation", "events", "backups", "databases", "pushWebhook", "imageWebhooks",
                     "consoleToken", "controllers", "registration", "retention"} => Platform!Wanted(f)'
    BY <1>2 DEF Platform!Wanted
  <1> QED BY <1>3, <1>4

LEMMA CheckStep ==
  ASSUME CheckInv, Platform!Next
  PROVE  CheckInv'
PROOF
  <1>1. CASE \E g \in DOMAIN world : Platform!Ask(g)
    <2>1. PICK g \in DOMAIN world : Platform!Ask(g)
      BY <1>1
    <2>2. \A f \in DOMAIN world : Platform!Wanted(f) => Platform!Wanted(f)'
      BY <2>1, WantedStays
    <2>3. Platform!Wanted(g) /\ g \notin asked /\ asked' = asked \cup {g} /\ failed' \in {failed, failed \cup {g}}
          /\ UNCHANGED <<check, world, clock, report>> /\ report = "reading"
      BY <2>1 DEF Platform!Ask
    <2>4. \A f : Given(f)' <=> Given(f)
      BY <2>3 DEF Given, Platform!GivenTo
    <2>5. \A f \in asked' : Given(f)' \/ Platform!Wanted(f)'
      BY <2>2, <2>3, <2>4 DEF CheckInv
    <2>6. report' # "judged"
      BY <2>3
    <2> QED BY <2>3, <2>4, <2>5, <2>6 DEF CheckInv
  <1>2. CASE Platform!Refuse \/ Platform!Report \/ Platform!Tick
    <2>1. UNCHANGED <<check, world, asked, failed>>
      BY <1>2 DEF Platform!Refuse, Platform!Report, Platform!Tick
    <2>2. \A f : (Given(f)' <=> Given(f)) /\ (Platform!Wanted(f)' <=> Platform!Wanted(f))
      <3>1. Found' = Found
        BY <2>1 DEF Found, Platform!Evidence
      <3> QED BY <2>1, <3>1 DEF Given, Platform!GivenTo, Platform!Wanted, Found, Platform!ReadsHooks,
                 Platform!ReadsPods
    <2>3. report' = "judged" => \A f \in DOMAIN world \ asked : ~Platform!Wanted(f)
      BY <1>2 DEF Platform!Refuse, Platform!Report, Platform!Tick, CheckInv
    <2>4. clock' \in Until - 1 .. Until
      BY <1>2, VerifyAssumption DEF Platform!Refuse, Platform!Report, Platform!Tick, CheckInv
    <2> QED BY <2>1, <2>2, <2>3, <2>4 DEF CheckInv
  <1> QED BY <1>1, <1>2 DEF Platform!Next

LEMMA CheckInit ==
  ASSUME Platform!Init
  PROVE  CheckInv
PROOF
  <1>1. Platform!GivenTo(check) \subseteq DOMAIN world
    <2>1. check \in DOMAIN Platform!Worlds /\ world \in Platform!Worlds[check]
      BY DEF Platform!Init
    <2>2. CASE check = "images"
      BY <2>1, <2>2 DEF Platform!GivenTo, Platform!Given, Platform!Worlds, Platform!ImageFacts
    <2>3. CASE check = "isolation"
      BY <2>1, <2>3 DEF Platform!GivenTo, Platform!Given, Platform!Worlds, Platform!IsolationFacts
    <2>4. CASE check = "signing"
      BY <2>1, <2>4 DEF Platform!GivenTo, Platform!Given, Platform!Worlds, Platform!SigningFacts
    <2>5. CASE check = "events"
      BY <2>1, <2>5 DEF Platform!GivenTo, Platform!Given, Platform!Worlds, Platform!EventFacts
    <2>6. CASE check = "egress"
      BY <2>1, <2>6 DEF Platform!GivenTo, Platform!Given, Platform!Worlds, Platform!PortFacts
    <2>7. CASE check = "channels"
      BY <2>1, <2>7 DEF Platform!GivenTo, Platform!Given, Platform!Worlds, Platform!ChannelFacts
    <2>8. CASE check = "backups"
      BY <2>1, <2>8 DEF Platform!GivenTo, Platform!Given, Platform!Worlds, Platform!MongoFacts
    <2>9. CASE check = "databases"
      BY <2>1, <2>9 DEF Platform!GivenTo, Platform!Given, Platform!Worlds, Platform!DatabaseFacts
    <2>10. CASE check = "console"
      BY <2>1, <2>10 DEF Platform!GivenTo, Platform!Given, Platform!Worlds, Platform!ConsoleFacts
    <2>11. CASE check = "pushWebhook"
      BY <2>1, <2>11 DEF Platform!GivenTo, Platform!Given, Platform!Worlds, Platform!PushFacts
    <2>12. CASE check = "imageWebhooks"
      BY <2>1, <2>12 DEF Platform!GivenTo, Platform!Given, Platform!Worlds, Platform!ImageHookFacts
    <2>13. CASE check = "controllers"
      BY <2>1, <2>13 DEF Platform!GivenTo, Platform!Given, Platform!Worlds, Platform!ControllerFacts
    <2>14. CASE check = "heartbeat"
      BY <2>1, <2>14 DEF Platform!GivenTo, Platform!Given, Platform!Worlds, Platform!TimerFacts
    <2>15. CASE check \notin {"images", "isolation", "signing", "events", "egress", "channels",
                            "backups", "databases", "console", "pushWebhook", "imageWebhooks", "controllers", "heartbeat"}
      BY <2>15 DEF Platform!GivenTo, Platform!Given
    <2> QED BY <2>2, <2>3, <2>4, <2>5, <2>6, <2>7, <2>8, <2>9, <2>10, <2>11, <2>12, <2>13, <2>14, <2>15
  <1>2. Until - 1 \in Until - 1 .. Until
    BY VerifyAssumption
  <1> QED BY <1>1, <1>2 DEF Platform!Init, CheckInv, Given

(* A check passes exactly when what it promises is so, whatever reads fail *)
(* and for any limits on age.                                              *)
THEOREM VerdictsTrue == ApartSpec => []VerdictIsTruth
PROOF
  <1>1. ApartInit => CheckInv
    BY CheckInit DEF ApartInit
  <1>2. CheckInv /\ [ApartNext]_allvars => CheckInv'
    <2> SUFFICES ASSUME CheckInv, [ApartNext]_allvars PROVE CheckInv'
      OBVIOUS
    <2>1. CASE Platform!Next
      BY <2>1, CheckStep
    <2>2. CASE UNCHANGED checks
      <3>1. UNCHANGED <<check, world, asked, failed, clock, report>>
        BY <2>2 DEF checks
      <3>2. \A f : (Given(f)' <=> Given(f)) /\ (Platform!Wanted(f)' <=> Platform!Wanted(f))
        <4>1. Found' = Found
          BY <3>1 DEF Found, Platform!Evidence
        <4> QED BY <3>1, <4>1 DEF Given, Platform!GivenTo, Platform!Wanted, Found, Platform!ReadsHooks,
                   Platform!ReadsPods
      <3> QED BY <3>1, <3>2 DEF CheckInv
    <2> QED BY <2>1, <2>2 DEF ApartNext, allvars
  <1>3. CheckInv => VerdictIsTruth
    <2> SUFFICES ASSUME CheckInv, report = "judged" PROVE Verdict
      BY DEF VerdictIsTruth, Platform!VerdictIsTruth, Verdict, Found
    <2>1. check \in {"fluxUnits", "ingress", "alerts", "notifyService", "dashboards", "notifications", "images",
                     "isolation", "signing", "events", "egress", "channels", "backups", "databases", "console",
                     "pushWebhook", "imageWebhooks", "consoleToken", "controllers", "secrets", "ingestion",
                     "registration", "retention", "heartbeat"}
      BY DEF CheckInv, Platform!Worlds
    <2> QED BY <2>1, FluxUnitsTrue, IngressTrue, AlertsTrue, NotifyServiceTrue, CronTrue, ImagesTrue,
               IsolationTrue,
               SigningTrue, EventsTrue, EgressTrue, ChannelsTrue, BackupsTrue, DatabasesTrue, ConsoleTrue,
               PushWebhookTrue, ImageWebhooksTrue, ConsoleTokenTrue, ControllersTrue, RuntimeSecretsTrue,
               IngestionTrue, RegistrationTrue, RetentionTrue, HeartbeatTrue
  <1> QED BY <1>1, <1>2, <1>3, PTL DEF ApartSpec

=============================================================================
