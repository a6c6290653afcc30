----------------------------- MODULE Heartbeat -----------------------------
(***************************************************************************)
(* The host's heartbeat (v2/heartbeat, orchestration/                      *)
(* notifications_heartbeat.go): every five minutes a timer starts a run    *)
(* that reads its state file, reads each watched CronJob, tells the        *)
(* operator that one went stale, still is or recovered, and remembers in   *)
(* the file what ntfy accepted.                                            *)
(*                                                                         *)
(* Time is counted in runs, which a timer never overlaps.  A CronJob goes  *)
(* stale and recovers at any time.  What fails is a fault, and there are   *)
(* at most MaxFaults: an unreadable file or CronJob, a notice that is not  *)
(* accepted or whose answer is lost, a file that cannot be replaced, and a *)
(* run that is stopped.  A replaced file is assumed to survive a crash.    *)
(***************************************************************************)
EXTENDS Integers, Sequences, FiniteSets, Functions

CONSTANTS
  Jobs,       \* the watched CronJobs, in the order a run takes them
  Reminder,
  MaxFaults,  \* bound on faults
  MaxTime     \* bound on the clock

VARIABLES
  clock,
  stale,   \* which CronJobs have had no success for too long
  file,    \* the flag of each job in the state file
  memory,  \* the flags in the memory of the run
  run,     \* what the run is doing; once idle, when the last one was
  told,    \* history: the notices ntfy got
  faults   \* history: how many faults there have been

vars == <<clock, stale, file, memory, run, told, faults>>

Flags == [alerting : BOOLEAN, since : Nat, last : Nat]
Quiet == [alerting |-> FALSE, since |-> 0, last |-> 0]
State == [Range(Jobs) -> Flags]
Unset == [j \in Range(Jobs) |-> Quiet]

Actions == {"none", "alert", "remind", "recover"}
Notices == [job : Range(Jobs), action : Actions \ {"none"}, at : Nat]

(* Decide: the action for one job, and its flag once the notice is         *)
(* accepted.                                                               *)
Decide(flag, isStale, now) ==
  CASE ~isStale /\ flag.alerting -> [action |-> "recover", next |-> Quiet]
    [] isStale /\ ~flag.alerting ->
         [action |-> "alert", next |-> [alerting |-> TRUE, since |-> now, last |-> now]]
    [] isStale /\ flag.alerting /\ now - flag.last >= Reminder ->
         [action |-> "remind", next |-> [flag EXCEPT !.last = now]]
    [] OTHER -> [action |-> "none", next |-> flag]

Resting(now) ==
  [pc |-> "idle", now |-> now, left |-> <<>>, decision |-> [action |-> "none", next |-> Quiet]]

Init ==
  /\ clock = 1
  /\ stale = [j \in Range(Jobs) |-> FALSE]
  /\ file = Unset /\ memory = Unset
  /\ run = Resting(0)
  /\ told = <<>> /\ faults = 0

FaultHappens == faults < MaxFaults /\ faults' = faults + 1

-----------------------------------------------------------------------------
RunDue == run.pc = "idle" /\ (run.now < clock \/ clock = MaxTime)

(* NotificationsHeartbeat: a file that cannot be read stops the run.       *)
Begin ==
  /\ RunDue
  /\ \/ /\ run' = [Resting(clock) EXCEPT !.pc = "read", !.left = Jobs]
        /\ memory' = file
        /\ UNCHANGED faults
     \/ /\ FaultHappens
        /\ run' = Resting(clock)
        /\ UNCHANGED memory
  /\ UNCHANGED <<clock, stale, file, told>>

Job == Head(run.left)
Working(pc) == run.pc = pc /\ run.left # <<>>

(* A failed job does not stop the others.                                  *)
NextJob == [run EXCEPT !.pc = "read", !.left = Tail(@)]

(* heartbeatJob: read the CronJob and decide, ...                          *)
Read ==
  /\ Working("read")
  /\ LET decision == Decide(memory[Job], stale[Job], run.now)
     IN  \/ /\ run' = IF decision.action = "none" THEN NextJob
                      ELSE [run EXCEPT !.pc = "send", !.decision = decision]
            /\ UNCHANGED faults
         \/ FaultHappens /\ run' = NextJob
  /\ UNCHANGED <<clock, stale, file, memory, told>>

Decided == [memory EXCEPT ![Job] = run.decision.next]
Telling == Append(told, [job |-> Job, action |-> run.decision.action, at |-> run.now])

(* ... send the notice, ...                                                *)
SendHopeful ==  \* faulty: the flag is set before the notice is accepted
  /\ Working("send")
  /\ memory' = Decided
  /\ \/ told' = Telling /\ run' = [run EXCEPT !.pc = "replace"] /\ UNCHANGED faults
     \/ FaultHappens /\ told' \in {told, Telling} /\ run' = NextJob
  /\ UNCHANGED <<clock, stale, file>>

Send ==
  /\ Working("send")
  /\ \/ /\ told' = Telling
        /\ memory' = Decided
        /\ run' = [run EXCEPT !.pc = "replace"]
        /\ UNCHANGED faults
     \/ /\ FaultHappens
        /\ told' \in {told, Telling}
        /\ run' = NextJob
        /\ UNCHANGED memory
  /\ UNCHANGED <<clock, stale, file>>

(* ... and replace the file.  When that fails, the flag stays in memory,   *)
(* and the file gets it with that of a later job.                          *)
Replace ==
  /\ Working("replace")
  /\ \/ file' = memory /\ UNCHANGED faults
     \/ FaultHappens /\ UNCHANGED file
  /\ run' = NextJob
  /\ UNCHANGED <<clock, stale, memory, told>>

Finish ==
  /\ run.pc = "read" /\ run.left = <<>>
  /\ run' = Resting(run.now) /\ memory' = Unset
  /\ UNCHANGED <<clock, stale, file, told, faults>>

Stop ==
  /\ run.pc # "idle" /\ FaultHappens
  /\ run' = Resting(run.now) /\ memory' = Unset
  /\ UNCHANGED <<clock, stale, file, told>>

Turn(job) ==
  /\ clock < MaxTime
  /\ stale' = [stale EXCEPT ![job] = ~@]
  /\ UNCHANGED <<clock, file, memory, run, told, faults>>

Tick ==
  /\ run.pc = "idle" /\ clock < MaxTime
  /\ clock' = clock + 1
  /\ UNCHANGED <<stale, file, memory, run, told, faults>>

Run == Begin \/ Read \/ Send \/ Replace \/ Finish
Next == Run \/ Stop \/ Tick \/ \E job \in Range(Jobs) : Turn(job)

Spec == Init /\ [][Next]_vars

-----------------------------------------------------------------------------
(* What the heartbeat promises.                                            *)

TypeOK ==
  /\ clock \in Nat /\ faults \in Nat
  /\ stale \in [Range(Jobs) -> BOOLEAN]
  /\ file \in State /\ memory \in State
  /\ run \in [pc : {"idle", "read", "send", "replace"}, now : Nat, left : Seq(Range(Jobs)),
              decision : [action : Actions, next : Flags]]
  /\ told \in Seq(Notices)

(* An incident in the file is one the operator was told of, at the time    *)
(* the file says: no failure makes the heartbeat believe it told.          *)
RemembersOnlyTold ==
  \A job \in Range(Jobs) : file[job].alerting =>
    \E i \in DOMAIN told :
      told[i].job = job /\ told[i].action # "recover" /\ told[i].at = file[job].last

(* Without a fault the operator hears alert, reminders and recovery in     *)
(* turn, the reminders Reminder apart; each fault disturbs one notice at   *)
(* most: it is repeated, or the one before it is never answered.           *)
Before(i) == {h \in 1..(i-1) : told[h].job = told[i].job}
Last(indices) == CHOOSE h \in indices : \A g \in indices : g <= h
InTurn(i) ==
  IF Before(i) = {} THEN told[i].action = "alert"
  ELSE LET previous == told[Last(Before(i))]
       IN  CASE told[i].action = "alert" -> previous.action = "recover"
             [] told[i].action = "recover" -> previous.action # "recover"
             [] OTHER -> previous.action # "recover" /\ told[i].at - previous.at >= Reminder
OutOfTurnNeedsFaults == Cardinality({i \in DOMAIN told : ~InTurn(i)}) <= faults

=============================================================================
