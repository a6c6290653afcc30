----------------------------- MODULE CopyPromise -----------------------------
(***************************************************************************)
(* What the notify service promises about the copies it has accepted,      *)
(* whatever fails around it (docs/services.md, "Outbox"): an accepted copy *)
(* is owed until it has reached its channel or could not for ChannelRetry, *)
(* only then is its key remembered, and a remembered key is not accepted   *)
(* again before its time.  A restart is not a step: it changes nothing.    *)
(***************************************************************************)
EXTENDS Integers

CONSTANTS Copies, History, ChannelRetry

VARIABLES
  clock,  \* seconds
  owed,   \* the copies accepted and neither sent nor given up, each with when
  until,  \* when each remembered key may be forgotten; 0 if not remembered
  posts   \* how often each copy has reached ntfy since it was accepted

promise == <<clock, owed, until, posts>>

Owed == {entry.copy : entry \in owed}

Init ==
  /\ clock = 0
  /\ owed = {}
  /\ until = [c \in Copies |-> 0]
  /\ posts = [c \in Copies |-> 0]

(* Keys whose time is up may be forgotten.                                 *)
Forgets(after) ==
  \A c \in Copies : after[c] = until[c] \/ (after[c] = 0 /\ until[c] <= clock)

Forget == until' # until /\ Forgets(until') /\ UNCHANGED <<clock, owed, posts>>

(* New copies are owed: none of one already owed or still remembered.      *)
Accept ==
  /\ owed' # owed /\ owed \subseteq owed'
  /\ \A e \in owed' \ owed :
       /\ e.copy \in Copies \ Owed
       /\ until'[e.copy] = 0
       /\ e.queued <= clock
  /\ Forgets(until')
  /\ posts' = [c \in Copies |-> IF \E e \in owed' \ owed : e.copy = c THEN 0 ELSE posts[c]]
  /\ UNCHANGED clock

(* Only an owed copy reaches ntfy.                                         *)
Post(c) ==
  /\ c \in Owed
  /\ posts' = [posts EXCEPT ![c] = @ + 1]
  /\ UNCHANGED <<clock, owed, until>>

Discharge(e) ==
  /\ e \in owed
  /\ posts[e.copy] > 0 \/ clock - e.queued >= ChannelRetry
  /\ owed' = owed \ {e}
  /\ until' = [until EXCEPT ![e.copy] = until'[e.copy]]
  /\ until'[e.copy] \in 1..(clock + History)
  /\ UNCHANGED <<clock, posts>>

Tick == clock' = clock + 1 /\ UNCHANGED <<owed, until, posts>>

Next ==
  \/ Forget \/ Accept \/ Tick
  \/ \E c \in Copies : Post(c)
  \/ \E e \in owed : Discharge(e)

Spec == Init /\ [][Next]_promise
=============================================================================
