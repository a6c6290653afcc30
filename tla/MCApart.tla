------------------------------ MODULE MCApart ------------------------------
(***************************************************************************)
(* Instances for TLC of the parts that share nothing with any other and    *)
(* promise safety alone: the nightly backups, the rate limit of the notify *)
(* service, the host's heartbeat and the platform checks.  The first state *)
(* picks the part that a behaviour runs; the variables of the others stay  *)
(* as they begin.  Two Jobs on one database are enough to overlap and to   *)
(* share a stamp.                                                          *)
(***************************************************************************)
EXTENDS Backup, Sequences, Functions, TLC

CONSTANTS
  j1, j2,
  Handlers, RateCount, RateSeconds, MaxDelay, MaxRestarts, MaxSecond,
  Watched, Reminder, MaxLost, MaxRuns,
  Fresh, Until

ASSUME RateAssumption ==
  /\ {RateCount, RateSeconds} \subseteq Nat \ {0} /\ {MaxRestarts, MaxSecond} \subseteq Nat
  /\ MaxDelay \in Nat /\ MaxDelay < RateSeconds
ASSUME HeartbeatAssumption ==
  /\ Watched \in Seq(Range(Watched)) /\ IsInjective(Watched)
  /\ Reminder \in Nat \ {0} /\ MaxLost \in Nat /\ MaxRuns \in Nat \ {0}
ASSUME VerifyAssumption == Fresh \in Nat \ {0} /\ Until \in Nat /\ Until > Fresh

MCJobs == {j1, j2}
MCSymmetry == Permutations(MCJobs)
MCWatched == <<"checker", "other">>

VARIABLES
  part,                                                                   \* the part this behaviour runs
  second, sent, arrived, counted, restarts,                               \* RateLimit
  hour, stale, file, memory, run, told, lost,                             \* Heartbeat
  check, world, asked, failed, clock, report                              \* Verify

Rate == INSTANCE RateLimit WITH clock <- second, MaxTime <- MaxSecond
Beat == INSTANCE Heartbeat WITH Jobs <- Watched, MaxTime <- MaxRuns, MaxFaults <- MaxLost, clock <- hour, faults <- lost
Platform == INSTANCE Verify WITH now <- clock

rate == <<second, sent, arrived, counted, restarts>>
beat == <<hour, stale, file, memory, run, told, lost>>
checks == <<check, world, asked, failed, clock, report>>
allvars == <<part, vars, rate, beat, checks>>

(* The facts of the checks start in many ways, of which the other parts    *)
(* need one.                                                               *)
ApartInit ==
  /\ part \in {"backup", "rate", "beat", "checks"}
  /\ Init /\ Rate!Init /\ Beat!Init /\ Platform!Init
  /\ part = "checks" \/ (check = "ingress" /\ world.traefik = Platform!Gone)

ApartNext ==
  /\ UNCHANGED part
  /\ \/ part = "backup" /\ Next /\ UNCHANGED <<rate, beat, checks>>
     \/ part = "rate" /\ Rate!Next /\ UNCHANGED <<vars, beat, checks>>
     \/ part = "beat" /\ Beat!Next /\ UNCHANGED <<vars, rate, checks>>
     \/ part = "checks" /\ Platform!Next /\ UNCHANGED <<vars, rate, beat>>

ApartSpec == ApartInit /\ [][ApartNext]_allvars

(* The limit holds in every window shorter by the longest delay.           *)
RateInShorterWindow == Rate!RateInShorterWindow

(* The heartbeat remembers only what it told, and repeats or skips a       *)
(* notice only by a fault each.                                            *)
HeartbeatIsTruthful == Beat!RemembersOnlyTold /\ Beat!OutOfTurnNeedsFaults

(* A platform check passes exactly when what it promises is so.            *)
VerdictIsTruth == Platform!VerdictIsTruth
=============================================================================
