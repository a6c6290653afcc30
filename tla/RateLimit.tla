------------------------------ MODULE RateLimit ------------------------------
(***************************************************************************)
(* The notify service's rate limit (v2/notify/notify.go, RateLimit, and    *)
(* Notifier.take): an app instance's messages are counted under the lock,  *)
(* at the time the request arrived, which is read before its token is      *)
(* reviewed and before the lock is waited for.  So requests may be counted *)
(* in another order than they arrived in.  MaxDelay bounds how long one    *)
(* takes to be counted.  Every instance has a limit of its own; this is    *)
(* the limit of one.                                                       *)
(***************************************************************************)
EXTENDS Integers, Sequences, FiniteSets, FiniteSetsExt

CONSTANTS
  Handlers,     \* concurrent requests from the instance
  RateCount,    \* messages the instance may send per
  RateSeconds,  \*   this long
  MaxDelay,     \* longest from arrival to count
  MaxRestarts,  \* bound on restarts of the pod
  MaxTime       \* bound on the clock

VARIABLES
  clock,     \* seconds
  sent,      \* RateLimit.sent of the instance: the counted times, in order of counting
  arrived,   \* when each request in progress arrived, or NotArrived
  counted,   \* history: every time counted since the pod started
  restarts   \* history: how often the pod was restarted

vars == <<clock, sent, arrived, counted, restarts>>

NotArrived == -1

Init ==
  /\ clock = 0 /\ restarts = 0
  /\ sent = <<>> /\ counted = <<>>
  /\ arrived = [h \in Handlers |-> NotArrived]

(* Take drops the times at the front that are RateSeconds old.             *)
RecentEarly(times, now) ==  \* faulty: drops a time one second too early
  LET kept == {i \in DOMAIN times : times[i] > now - RateSeconds + 1}
  IN  IF kept = {} THEN <<>> ELSE SubSeq(times, Min(kept), Len(times))

Recent(times, now) ==
  LET kept == {i \in DOMAIN times : times[i] > now - RateSeconds}
  IN  IF kept = {} THEN <<>> ELSE SubSeq(times, Min(kept), Len(times))

Arrive(h) ==
  /\ arrived[h] = NotArrived
  /\ arrived' = [arrived EXCEPT ![h] = clock]
  /\ UNCHANGED <<clock, sent, counted, restarts>>

(* A counted message is then queued, or answered 503; it stays counted.    *)
Take(h) ==
  /\ arrived[h] # NotArrived
  /\ LET times == Recent(sent, arrived[h])
     IN  IF Len(times) >= RateCount
         THEN sent' = times /\ UNCHANGED counted     \* 429
         ELSE /\ sent' = Append(times, arrived[h])
              /\ counted' = Append(counted, arrived[h])
  /\ arrived' = [arrived EXCEPT ![h] = NotArrived]
  /\ UNCHANGED <<clock, restarts>>

(* A new pod has counted nothing.                                          *)
Restart ==
  /\ restarts < MaxRestarts
  /\ restarts' = restarts + 1
  /\ sent' = <<>> /\ counted' = <<>>
  /\ arrived' = [h \in Handlers |-> NotArrived]
  /\ UNCHANGED clock

Tick ==
  /\ clock < MaxTime
  /\ \A h \in Handlers : arrived[h] = NotArrived \/ clock - arrived[h] < MaxDelay
  /\ clock' = clock + 1
  /\ UNCHANGED <<sent, arrived, counted, restarts>>

Next == (\E h \in Handlers : Arrive(h) \/ Take(h)) \/ Restart \/ Tick

Spec == Init /\ [][Next]_vars

-----------------------------------------------------------------------------
(* At most RateCount messages were counted in any window of this length.   *)
AtMostRateCount(window) ==
  \A start \in 0..MaxTime :
    Cardinality({i \in DOMAIN counted : counted[i] \in start..(start + window - 1)}) <= RateCount

(* What the limit does guarantee: a window shorter by the longest delay,   *)
(* because a count may only drop times RateSeconds before its own, and its *)
(* own is at most MaxDelay ahead of any time still to be counted.          *)
RateInShorterWindow == AtMostRateCount(RateSeconds - MaxDelay)

==============================================================================
