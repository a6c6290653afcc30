----------------------------- MODULE AloneProofs -----------------------------
(***************************************************************************)
(* What a restore of a database promises, for any number of restores one   *)
(* after another and of faults: neither the app nor a backup starts beside *)
(* a pod that may replace the database, and what a restore changed and did *)
(* not put back it says it owes.                                           *)
(*                                                                         *)
(* The argument: while a restore's pod is there or yet to come, the        *)
(* release is suspended, so that Helm begins no upgrade, the app is scaled *)
(* to none and has no pod, and the schedule is suspended.  A restore       *)
(* scales up, resumes the schedule and the release only when its own Job   *)
(* and pod are gone; and it begins beside no pod of another.  What its     *)
(* preflight misses is a Job without a pod: a run that found one may       *)
(* resume the release beside that Job's pod, but not the schedule, which   *)
(* it found suspended and leaves so.                                       *)
(* An upgrade that was under way when the release was suspended, and the   *)
(* unit that resumes the schedule, overrule a run; each excuses what it    *)
(* disturbs and no more.                                                   *)
(* What a restore says of the database rests on its Job's word alone,      *)
(* which its pod gives once the database is in place; and no pod of        *)
(* another works beside it, unless it overtook that one's Job.             *)
(***************************************************************************)
EXTENDS MCAlone, Numbers, Sequences

Undoes == {"delete-job", "delete-secret", "backup-resume", "scale-up", "resume"}
Stages ==
  {"suspend", "backup-suspend", "scale-down", "pods-gone", "secret", "job", "job-finished", "job-result",
   "delete-job", "delete-secret", "backup-resume", "scale-up", "resume", "available"}
Inactive == {"idle", "refused", "ended", "killed"}
Owed == {"job", "secret", "backup", "replicas", "release"}
RunTypes ==
  [pc : Stages \cup Inactive, undoing : BOOLEAN, reason : Stages \cup Inactive \cup {"none"},
   asked : BOOLEAN, expired : BOOLEAN, owes : SUBSET Owed, replicas : {0, 1}, wasSuspended : BOOLEAN, answer : Back!JobStates]

RestoreTypes ==
  /\ api \in Back!Objects /\ app \in BOOLEAN
  /\ restorePod \in [Restores -> Back!Pods]
  /\ restores \in [Restores -> RunTypes]
  /\ found \in [Restores -> Back!Objects]
  /\ overruled \subseteq {"replicas", "schedule"}

(* The pod of a run's Job is there, or is yet to come; or its Job is left. *)
Occupied(objects, q) == objects.jobs[q] = "created" \/ restorePod[q] # "none"
Left(objects, q) == objects.jobs[q] # "none" \/ restorePod[q] # "none"

(* What excuses a schedule that is not suspended, and an app that runs.    *)
Resumed == "schedule" \in overruled
Upset == "replicas" \in overruled \/ \E r \in Restores : Back!Overtook(r)

(* What holds at each stage of a run.                                      *)
Stage(objects, running, r, me) ==
  /\ me.pc = "delete-job" /\ me.asked => objects.jobs[r] = "none"
  /\ me.pc \in {"backup-resume", "scale-up", "resume"} => "job" \notin me.owes
  /\ me.pc = "backup-resume" => "backup" \in me.owes
  /\ me.undoing => me.pc \in Undoes \cup {"ended"}
  /\ ~me.undoing =>
       /\ me.reason = "none"
       /\ me.pc \in {"suspend", "backup-suspend"} => "backup" \notin me.owes
       /\ me.pc \in {"scale-down", "pods-gone", "secret", "job", "job-finished", "job-result", "delete-job",
                     "delete-secret", "backup-resume"} => "backup" \in me.owes /\ (Resumed \/ objects.schedule)
       /\ me.pc \in {"backup-suspend", "scale-down", "pods-gone", "secret", "job"} => objects.release
       /\ me.pc \in {"pods-gone", "secret", "job"} => "replicas" \in me.owes /\ (Upset \/ objects.replicas = 0)
       /\ me.pc \in {"secret", "job"} => Upset \/ ~running
       /\ me.pc = "delete-secret" => "job" \notin me.owes

(* What a run changed and has not put back it owes, but for the schedule   *)
(* where that is what failed first.                                        *)
Accounts(objects, at, me) ==
  /\ objects.release => me.pc = "suspend" \/ "release" \in me.owes
  /\ objects.schedule /\ ~at.schedule => "backup" \in me.owes \/ me.reason = "backup-suspend"
  /\ "backup" \in me.owes /\ me.wasSuspended => at.schedule
  /\ objects.replicas \notin {me.replicas, at.replicas} => "replicas" \in me.owes
  /\ objects.secret /\ ~at.secret => "secret" \in me.owes

Active(r) == restores[r].pc \notin Inactive

Down(objects, running) ==
  /\ Resumed \/ objects.schedule
  /\ Upset \/ (objects.replicas = 0 /\ ~running /\ objects.release)
Beside(r, me) == Back!Overtook(r) /\ (Resumed \/ ("backup" \in me.owes => me.wasSuspended))

Apart ==
  /\ RestoreTypes
  /\ \A q \in Restores : restores[q].pc = "idle" => restores[q].owes = {} /\ ~Back!Overtook(q)
  /\ \A q, r \in Restores : Active(q) /\ Active(r) => q = r
  /\ \A q \in Restores : Left(api, q) => "job" \in restores[q].owes
  /\ \A q \in Restores : Occupied(api, q) => Down(api, app)
  /\ \A r \in Restores : Active(r) =>
       /\ Stage(api, app, r, restores[r])
       /\ Accounts(api, found[r], restores[r])
       /\ \A q \in Restores \ {r} : Occupied(api, q) => Beside(r, restores[r])

-----------------------------------------------------------------------------
(* What a run goes on with.                                                *)

(* me2 is me on its way through the undo with these debts.                 *)
Undoing(me, owes, me2) ==
  /\ me2 \in RunTypes
  /\ me2.owes = owes /\ me2.undoing /\ ~me2.asked
  /\ me2.reason = IF me.undoing THEN me.reason ELSE me.pc
  /\ me2.replicas = me.replicas /\ me2.wasSuspended = me.wasSuspended
  /\ me2.pc \in Undoes \cup {"ended"}
  /\ me2.pc \in {"backup-resume", "scale-up", "resume"} => "job" \notin owes
  /\ me2.pc = "backup-resume" => "backup" \in owes

NextStage(me, owes, pc, me2) ==
  /\ me2 \in RunTypes
  /\ me2.owes = owes /\ ~me2.undoing /\ ~me2.asked /\ me2.pc = pc /\ me2.reason = me.reason
  /\ me2.replicas = me.replicas /\ me2.wasSuspended = me.wasSuspended

LEMMA UndoOrderIs ==
  /\ Len(Back!UndoOrder) = 5 /\ DOMAIN Back!UndoOrder = 1 .. 5
  /\ Back!UndoOrder[1] = "delete-job" /\ Back!UndoOrder[2] = "delete-secret"
  /\ Back!UndoOrder[3] = "backup-resume" /\ Back!UndoOrder[4] = "scale-up" /\ Back!UndoOrder[5] = "resume"
  /\ Back!Debts[1] = "job" /\ Back!Debts[2] = "secret" /\ Back!Debts[3] = "backup"
  /\ Back!Debts[4] = "replicas" /\ Back!Debts[5] = "release"
  BY DEF Back!UndoOrder, Back!Debts

LEMMA UndoFromIs ==
  ASSUME NEW i \in 1 .. 6, NEW owes \in SUBSET Owed
  PROVE  /\ Back!UndoFrom(i, owes) \in Undoes \cup {"ended"}
         /\ Back!UndoFrom(i, owes) \in {"backup-resume", "scale-up", "resume"} => "job" \notin owes
         /\ Back!UndoFrom(i, owes) = "backup-resume" => "backup" \in owes
PROOF
  <1> DEFINE owed == {j \in i .. 5 : Back!Debts[j] \in owes /\ ("job" \in owes => j <= 2)}
  <1>1. Back!UndoFrom(i, owes) = IF owed = {} THEN "ended" ELSE Back!UndoOrder[Min(owed)]
    BY UndoOrderIs DEF Back!UndoFrom, Back!Min, Min
  <1>2. CASE owed = {}
    BY <1>1, <1>2
  <1>3. CASE owed # {}
    <2>1. owed \in SUBSET (0 .. 5)
      OBVIOUS
    <2>2. PICK m : m = Min(owed) /\ m \in owed
      <3> HIDE DEF owed
      <3>1. QED
        BY <1>3, <2>1, MinAndMax
    <2>3. Back!UndoFrom(i, owes) = Back!UndoOrder[m] /\ m \in 1 .. 5 /\ Back!Debts[m] \in owes
          /\ ("job" \in owes => m <= 2)
      BY <1>1, <1>3, <2>2
    <2>4. m = 1 \/ m = 2 \/ m = 3 \/ m = 4 \/ m = 5
      BY <2>3
    <2>5. QED
      BY <2>3, <2>4, UndoOrderIs DEF Undoes
  <1>4. QED
    BY <1>2, <1>3

LEMMA UndoneIs ==
  ASSUME NEW me \in RunTypes, NEW owes \in SUBSET Owed, me.undoing => me.pc \in Undoes
  PROVE  Undoing(me, owes, Back!Undone(me, owes))
PROOF
  <1> DEFINE pc == IF me.undoing THEN Back!UndoFrom(Back!Index(Back!UndoOrder, me.pc) + 1, owes)
                   ELSE Back!UndoFrom(1, owes)
  <1>1. /\ pc \in Undoes \cup {"ended"}
        /\ pc \in {"backup-resume", "scale-up", "resume"} => "job" \notin owes
        /\ pc = "backup-resume" => "backup" \in owes
    <2>1. CASE me.undoing
      <3>1. \E i \in 1 .. 5 : Back!UndoOrder[i] = me.pc
        BY <2>1, UndoOrderIs DEF Undoes
      <3>2. Back!Index(Back!UndoOrder, me.pc) \in 1 .. 5
        BY <3>1, UndoOrderIs DEF Back!Index
      <3>3. Back!Index(Back!UndoOrder, me.pc) + 1 \in 1 .. 6
        BY <3>2
      <3>4. QED
        BY <2>1, <3>3, UndoFromIs
    <2>2. CASE ~me.undoing
      BY <2>2, UndoFromIs
    <2>3. QED
      BY <2>1, <2>2
  <1>2. Back!Undone(me, owes) = [me EXCEPT !.pc = pc, !.reason = IF me.undoing THEN me.reason ELSE me.pc,
                                           !.undoing = TRUE, !.asked = FALSE, !.owes = owes]
    BY DEF Back!Undone
  <1> HIDE DEF pc
  <1>3. pc \in Stages \cup Inactive
    BY <1>1 DEF Undoes, Stages, Inactive
  <1>4. QED
    BY <1>1, <1>2, <1>3 DEF Undoing, RunTypes

LEMMA AdvancedUndoing ==
  ASSUME NEW me \in RunTypes, NEW owes \in SUBSET Owed, me.undoing, me.pc \in Undoes
  PROVE  Undoing(me, owes, Back!Advanced(me, owes))
  BY UndoneIs DEF Back!Advanced

LEMMA OrderIs ==
  /\ DOMAIN Back!Order = 1 .. 14
  /\ Back!Order[1] = "suspend" /\ Back!Order[2] = "backup-suspend" /\ Back!Order[3] = "scale-down"
  /\ Back!Order[4] = "pods-gone" /\ Back!Order[5] = "secret" /\ Back!Order[6] = "job"
  /\ Back!Order[7] = "job-finished" /\ Back!Order[8] = "job-result" /\ Back!Order[9] = "delete-job"
  /\ Back!Order[10] = "delete-secret" /\ Back!Order[11] = "backup-resume" /\ Back!Order[12] = "scale-up"
  /\ Back!Order[13] = "resume" /\ Back!Order[14] = "available"
  BY DEF Back!Order

LEMMA InOrder ==
  ASSUME NEW i \in 1 .. 14
  PROVE  Back!Index(Back!Order, Back!Order[i]) = i
PROOF
  <1>1. \A j \in 1 .. 14 : Back!Order[j] = Back!Order[i] => j = i
    <2> SUFFICES ASSUME NEW j \in 1 .. 14, Back!Order[j] = Back!Order[i]
                 PROVE  j = i
      OBVIOUS
    <2>1. /\ i = 1 \/ i = 2 \/ i = 3 \/ i = 4 \/ i = 5 \/ i = 6 \/ i = 7 \/ i = 8 \/ i = 9 \/ i = 10 \/ i = 11
             \/ i = 12 \/ i = 13 \/ i = 14
          /\ j = 1 \/ j = 2 \/ j = 3 \/ j = 4 \/ j = 5 \/ j = 6 \/ j = 7 \/ j = 8 \/ j = 9 \/ j = 10 \/ j = 11
             \/ j = 12 \/ j = 13 \/ j = 14
      OBVIOUS
    <2>2. QED
      BY <2>1, OrderIs
  <1>2. QED
    BY <1>1, OrderIs DEF Back!Index

LEMMA AdvancedIs ==
  ASSUME NEW me \in RunTypes, NEW owes \in SUBSET Owed, ~me.undoing, NEW i \in 1 .. 13, me.pc = Back!Order[i]
  PROVE  NextStage(me, owes, Back!Order[i + 1], Back!Advanced(me, owes))
PROOF
  <1>1. i \in 1 .. 14 /\ i + 1 \in 1 .. 14
    OBVIOUS
  <1>2. Back!Index(Back!Order, me.pc) = i /\ me.pc # "available"
    <2>1. Back!Index(Back!Order, me.pc) = i
      BY <1>1, InOrder
    <2>2. Back!Index(Back!Order, "available") = 14
      BY InOrder, OrderIs
    <2>3. QED
      BY <2>1, <2>2
  <1>3. Back!Order[i + 1] \in Stages \cup Inactive
    <2>1. i = 1 \/ i = 2 \/ i = 3 \/ i = 4 \/ i = 5 \/ i = 6 \/ i = 7 \/ i = 8 \/ i = 9 \/ i = 10 \/ i = 11
             \/ i = 12 \/ i = 13
      OBVIOUS
    <2>2. QED
      BY <2>1, OrderIs DEF Stages
  <1>4. Back!Advanced(me, owes) = [me EXCEPT !.pc = Back!Order[i + 1], !.asked = FALSE, !.owes = owes]
    BY <1>2 DEF Back!Advanced
  <1>5. QED
    BY <1>3, <1>4 DEF NextStage, RunTypes

LEMMA LastIs ==
  ASSUME NEW me \in RunTypes, NEW owes \in SUBSET Owed, ~me.undoing, me.pc = "available"
  PROVE  NextStage(me, owes, "ended", Back!Advanced(me, owes))
PROOF
  <1>1. Back!Advanced(me, owes) = [me EXCEPT !.pc = "ended", !.asked = FALSE, !.owes = owes]
    BY DEF Back!Advanced
  <1>2. QED
    BY <1>1 DEF NextStage, RunTypes, Inactive

LEMMA ExpiredIs ==
  ASSUME NEW me, NEW owes, NEW me2, NEW b \in BOOLEAN, Undoing(me, owes, me2)
  PROVE  Undoing(me, owes, [me2 EXCEPT !.expired = b])
  BY DEF Undoing, RunTypes

-----------------------------------------------------------------------------
(* A step of one run.                                                      *)

(* What a run leaves behind when it ends is what it owes.                  *)
Ending(r) == Back!Ends(r) =>
  /\ api'.release => Back!Owing(r, "release")
  /\ api'.schedule /\ ~found[r].schedule => Back!Owing(r, "backup") \/ restores'[r].reason = "backup-suspend"
  /\ api'.replicas \notin {restores[r].replicas, found[r].replicas} => Back!Owing(r, "replicas")
  /\ api'.secret /\ ~found[r].secret => Back!Owing(r, "secret")
  /\ api'.jobs[r] # "none" => Back!Owing(r, "job")

Kept ==
  /\ Apart'
  /\ Back!BackupNotBesideRestore \/ Resumed
  /\ \A r \in Restores : Ending(r)

(* The objects that a run makes, and itself after it, do not disturb.      *)
Fits(objects, r, me2) ==
  /\ objects \in Back!Objects /\ me2 \in RunTypes /\ me2.pc # "idle" /\ me2.replicas = restores[r].replicas
  /\ \A q \in Restores \ {r} : objects.jobs[q] = api.jobs[q]
  /\ Left(objects, r) => "job" \in me2.owes
  /\ \A q \in Restores : Occupied(objects, q) => Down(objects, app)
  /\ me2.pc \notin Inactive =>
       /\ Stage(objects, app, r, me2)
       /\ \A q \in Restores \ {r} : Occupied(api, q) => Beside(r, me2)
  /\ me2.pc # "killed" => Accounts(objects, found[r], me2)

LEMMA RunMoves ==
  ASSUME Apart, NEW r \in Restores, Active(r), NEW objects, NEW me2, Fits(objects, r, me2),
         api' = objects, restores' = [restores EXCEPT ![r] = me2],
         UNCHANGED <<app, backup, restorePod, found, overruled>>
  PROVE  Kept
PROOF
  <1>1. restores'[r] = me2 /\ \A q \in Restores \ {r} : restores'[q] = restores[q]
    BY DEF Apart, RestoreTypes
  <1>2. RestoreTypes'
    BY DEF Apart, RestoreTypes, Fits
  <1>3. \A q \in Restores \ {r} : (Occupied(api, q)' <=> Occupied(api, q)) /\ (Left(api, q)' <=> Left(api, q))
    BY DEF Occupied, Left, Fits
  <1>4. \A q \in Restores : restores'[q].pc = "idle" => restores'[q].owes = {} /\ ~Back!Overtook(q)'
    BY <1>1 DEF Fits, Apart, Back!Overtook
  <1>5. \A q \in Restores : Active(q)' => q = r
    BY <1>1 DEF Active, Apart
  <1>6. /\ Resumed' <=> Resumed
        /\ Upset' <=> Upset
        /\ \A q \in Restores : Back!Overtook(q)' <=> Back!Overtook(q)
    BY DEF Resumed, Upset, Back!Overtook
  <1>7. ASSUME NEW q \in Restores, Occupied(api, q)'
        PROVE  Down(api, app)'
    <2>1. Occupied(objects, q)
      BY <1>7 DEF Occupied
    <2>2. Down(objects, app)
      BY <2>1 DEF Fits
    <2>3. QED
      BY <1>6, <2>2 DEF Down
  <1>8. ASSUME NEW q \in Restores, Left(api, q)'
        PROVE  "job" \in restores'[q].owes
    <2>1. CASE q = r
      BY <1>1, <1>8, <2>1 DEF Fits, Left
    <2>2. CASE q # r
      BY <1>1, <1>8, <2>2 DEF Fits, Apart, Left
    <2>3. QED
      BY <2>1, <2>2
  <1>9. ASSUME NEW s \in Restores, Active(s)'
        PROVE  /\ Stage(api, app, s, restores[s])'
               /\ Accounts(api, found[s], restores[s])'
               /\ \A q \in Restores \ {s} : Occupied(api, q)' => Beside(s, restores[s])'
    <2>1. s = r /\ me2.pc \notin Inactive
      BY <1>1, <1>5, <1>9 DEF Active
    <2>2. /\ Stage(objects, app, r, me2) /\ Accounts(objects, found[r], me2)
          /\ \A q \in Restores \ {r} : Occupied(api, q) => Beside(r, me2)
      BY <2>1 DEF Fits, Inactive
    <2>3. Stage(api, app, s, restores[s])'
      BY <1>1, <1>6, <2>1, <2>2 DEF Stage
    <2>4. Accounts(api, found[s], restores[s])'
      BY <1>1, <2>1, <2>2 DEF Accounts
    <2>5. ASSUME NEW q \in Restores \ {s}, Occupied(api, q)'
          PROVE  Beside(s, restores[s])'
      <3>1. Beside(r, me2)
        BY <1>3, <2>1, <2>2, <2>5
      <3>2. QED
        BY <1>1, <1>6, <2>1, <3>1 DEF Beside
    <2>6. QED
      BY <2>3, <2>4, <2>5
  <1>10. Apart'
    BY <1>2, <1>4, <1>5, <1>7, <1>8, <1>9 DEF Apart
  <1>11. ASSUME NEW q \in Restores
         PROVE  Ending(q)
    <2>1. SUFFICES ASSUME Back!Ends(q)
                   PROVE  Ending(q)
      BY DEF Ending
    <2>2. q = r /\ me2.pc = "ended"
      BY <1>1, <2>1 DEF Back!Ends
    <2>3. /\ Accounts(objects, found[r], me2) /\ (Left(objects, r) => "job" \in me2.owes)
          /\ me2.replicas = restores[r].replicas
      BY <2>2 DEF Fits
    <2>4. QED
      BY <1>1, <2>2, <2>3 DEF Accounts, Left, Back!Owing, Ending
  <1>12. QED
    BY <1>10, <1>11 DEF Kept, Back!BackupNotBesideRestore

(* The objects and debts after a step, whatever its run goes on with.      *)
Keeps(objects, r, me, owes) ==
  /\ objects \in Back!Objects /\ owes \in SUBSET Owed
  /\ me \in RunTypes /\ me.replicas = restores[r].replicas
  /\ me.undoing => me.pc \in Undoes
  /\ ~me.undoing => me.reason = "none"
  /\ \A q \in Restores \ {r} : objects.jobs[q] = api.jobs[q]
  /\ Left(objects, r) => "job" \in owes
  /\ \A q \in Restores : Occupied(objects, q) => Down(objects, app)
  /\ \A q \in Restores \ {r} : Occupied(api, q) =>
       Back!Overtook(r) /\ (Resumed \/ ("backup" \in owes => me.wasSuspended))
  /\ objects.release => "release" \in owes
  /\ objects.schedule /\ ~found[r].schedule =>
       "backup" \in owes \/ (me.undoing /\ me.reason = "backup-suspend") \/ me.pc = "backup-suspend"
  /\ "backup" \in owes /\ me.wasSuspended => found[r].schedule
  /\ objects.replicas \notin {me.replicas, found[r].replicas} => "replicas" \in owes
  /\ objects.secret /\ ~found[r].secret => "secret" \in owes

LEMMA UndoFits ==
  ASSUME Apart, NEW r \in Restores, Active(r), NEW objects, NEW me, NEW owes, NEW me2,
         Keeps(objects, r, me, owes), Undoing(me, owes, me2)
  PROVE  Fits(objects, r, me2)
PROOF
  <1>1. /\ me2.replicas = restores[r].replicas /\ me2.wasSuspended = me.wasSuspended /\ me2.owes = owes
        /\ me2.reason = IF me.undoing THEN me.reason ELSE me.pc
        /\ me2.replicas = me.replicas /\ me.undoing \in BOOLEAN
    BY DEF Keeps, Undoing, RunTypes
  <1>2. objects.schedule /\ ~found[r].schedule => "backup" \in owes \/ me2.reason = "backup-suspend"
    BY <1>1 DEF Keeps, Undoes
  <1>3. Accounts(objects, found[r], me2)
    BY <1>1, <1>2 DEF Accounts, Keeps
  <1>4. Stage(objects, app, r, me2)
    BY DEF Stage, Undoing
  <1>5. me2 \in RunTypes /\ me2.pc # "idle"
    BY DEF Undoing, Undoes
  <1>6. QED
    BY <1>1, <1>3, <1>4, <1>5 DEF Fits, Keeps, Beside

(* What the stage that a run advances to asks for.                         *)
Ready(objects, owes, pc) ==
  /\ pc \in Stages \cup {"ended"} /\ pc # "suspend"
  /\ pc = "backup-suspend" => "backup" \notin owes
  /\ pc \in {"scale-down", "pods-gone", "secret", "job", "job-finished", "job-result", "delete-job",
             "delete-secret", "backup-resume"} => "backup" \in owes /\ (Resumed \/ objects.schedule)
  /\ pc \in {"backup-suspend", "scale-down", "pods-gone", "secret", "job"} => objects.release
  /\ pc \in {"pods-gone", "secret", "job"} => "replicas" \in owes /\ (Upset \/ objects.replicas = 0)
  /\ pc \in {"secret", "job"} => Upset \/ ~app
  /\ pc \in {"delete-secret", "backup-resume", "scale-up", "resume"} => "job" \notin owes

LEMMA NextFits ==
  ASSUME Apart, NEW r \in Restores, Active(r), NEW objects, NEW me, NEW owes, NEW pc, NEW me2,
         Keeps(objects, r, me, owes), NextStage(me, owes, pc, me2), Ready(objects, owes, pc),
         ~me.undoing, me.pc = "backup-suspend" => "backup" \in owes
  PROVE  Fits(objects, r, me2)
PROOF
  <1>1. me2.replicas = restores[r].replicas /\ me2.wasSuspended = me.wasSuspended /\ me2.owes = owes
        /\ me2.pc = pc /\ ~me2.asked /\ ~me2.undoing /\ me2 \in RunTypes /\ me2.reason = "none"
        /\ me2.replicas = me.replicas
    BY DEF Keeps, NextStage
  <1>2. objects.schedule /\ ~found[r].schedule => "backup" \in owes
    BY DEF Keeps
  <1>3. Accounts(objects, found[r], me2)
    BY <1>1, <1>2 DEF Accounts, Keeps
  <1>4. Stage(objects, app, r, me2)
    BY <1>1 DEF Stage, Ready
  <1>5. me2.pc # "idle"
    BY <1>1 DEF Ready, Stages
  <1>6. QED
    BY <1>1, <1>3, <1>4, <1>5 DEF Fits, Keeps, Beside

(* What is so of a run under way before its step.                          *)
LEMMA Before ==
  ASSUME Apart, NEW r \in Restores, Active(r)
  PROVE  /\ api \in Back!Objects /\ restores[r] \in RunTypes /\ restores[r].owes \in SUBSET Owed
         /\ restores[r].undoing => restores[r].pc \in Undoes
         /\ restores[r].pc # "suspend" => Keeps(api, r, restores[r], restores[r].owes)
         /\ Keeps(api, r, restores[r], restores[r].owes \cup {"release"})
PROOF
  <1>1. api \in Back!Objects /\ restores[r] \in RunTypes /\ restores[r].owes \in SUBSET Owed
    BY DEF Apart, RestoreTypes, RunTypes
  <1>2. restores[r].undoing => restores[r].pc \in Undoes
    BY DEF Apart, Stage, Active, Inactive
  <1>3. /\ Stage(api, app, r, restores[r]) /\ Accounts(api, found[r], restores[r])
        /\ \A q \in Restores \ {r} : Occupied(api, q) => Beside(r, restores[r])
        /\ Left(api, r) => "job" \in restores[r].owes
        /\ \A q \in Restores : Occupied(api, q) => Down(api, app)
    BY DEF Apart
  <1>4. ~restores[r].undoing => restores[r].reason = "none"
    BY <1>3 DEF Stage
  <1>5. restores[r].reason = "backup-suspend" => restores[r].undoing
    BY <1>1, <1>4 DEF RunTypes
  <1>6. Keeps(api, r, restores[r], restores[r].owes \cup {"release"})
    BY <1>1, <1>2, <1>3, <1>4, <1>5 DEF Accounts, Keeps, Owed, Beside
  <1>7. ASSUME restores[r].pc # "suspend"
        PROVE  Keeps(api, r, restores[r], restores[r].owes)
    BY <1>1, <1>2, <1>3, <1>4, <1>5, <1>7 DEF Accounts, Keeps, Beside
  <1>8. QED
    BY <1>1, <1>2, <1>6, <1>7

(* The three outcomes of a write, and of a wait.                           *)
LEMMA WriteKeeps ==
  ASSUME Apart, NEW r \in Restores, Active(r), NEW after, NEW done, NEW failed,
         Back!Write(r, after, done, failed),
         Fits(after, r, done), Fits(after, r, failed), Fits(api, r, failed)
  PROVE  Kept
PROOF
  <1>1. UNCHANGED <<app, backup, restorePod, found, overruled>>
    BY DEF Back!Write, Back!cluster
  <1>2. CASE api' = after /\ Back!Goes(r, done)
    <2>1. restores' = [restores EXCEPT ![r] = done]
      BY <1>2 DEF Back!Goes
    <2>2. QED
      BY <1>1, <1>2, <2>1, RunMoves
  <1>3. CASE api' = after /\ Back!Goes(r, failed)
    <2>1. restores' = [restores EXCEPT ![r] = failed]
      BY <1>3 DEF Back!Goes
    <2>2. QED
      BY <1>1, <1>3, <2>1, RunMoves
  <1>4. CASE api' = api /\ Back!Goes(r, failed)
    <2>1. restores' = [restores EXCEPT ![r] = failed]
      BY <1>4 DEF Back!Goes
    <2>2. QED
      BY <1>1, <1>4, <2>1, RunMoves
  <1>5. QED
    BY <1>2, <1>3, <1>4 DEF Back!Write

LEMMA StillKeeps ==
  ASSUME Apart, NEW r \in Restores, Active(r), NEW me2, Fits(api, r, me2),
         Back!Goes(r, me2), UNCHANGED <<api, Back!cluster, found>>
  PROVE  Kept
PROOF
  <1>1. UNCHANGED <<app, backup, restorePod, found, overruled>> /\ api' = api
    BY DEF Back!cluster
  <1>2. restores' = [restores EXCEPT ![r] = me2]
    BY DEF Back!Goes
  <1>3. QED
    BY <1>1, <1>2, RunMoves

LEMMA WaitKeeps ==
  ASSUME Apart, NEW r \in Restores, Active(r), NEW sought, NEW done, NEW late,
         Back!Wait(r, sought, done, late),
         sought => Fits(api, r, done), Fits(api, r, late),
         Fits(api, r, Back!Undone(restores[r], restores[r].owes))
  PROVE  Kept
PROOF
  <1>1. UNCHANGED <<api, Back!cluster, found>>
    BY DEF Back!Wait
  <1>2. PICK me2 \in {done, late, Back!Undone(restores[r], restores[r].owes)} :
          Back!Goes(r, me2) /\ Fits(api, r, me2)
    BY DEF Back!Wait
  <1>3. QED
    BY <1>1, <1>2, StillKeeps

(* A run that turns to its undo, with the objects as they were or are.     *)
LEMMA TurnsBack ==
  ASSUME Apart, NEW r \in Restores, Active(r), NEW objects, NEW me, NEW owes,
         Keeps(objects, r, me, owes)
  PROVE  Fits(objects, r, Back!Undone(me, owes))
PROOF
  <1>1. me \in RunTypes /\ owes \in SUBSET Owed /\ (me.undoing => me.pc \in Undoes)
    BY DEF Keeps
  <1>2. Undoing(me, owes, Back!Undone(me, owes))
    BY <1>1, UndoneIs
  <1>3. QED
    BY <1>2, UndoFits

(* A run that goes on to the next stage, or the next undo.                 *)
LEMMA GoesOn ==
  ASSUME Apart, NEW r \in Restores, Active(r), NEW objects, NEW me, NEW owes, NEW i \in 1 .. 13,
         Keeps(objects, r, me, owes), me.pc = Back!Order[i],
         ~me.undoing => Ready(objects, owes, Back!Order[i + 1])
  PROVE  Fits(objects, r, Back!Advanced(me, owes))
PROOF
  <1>1. me \in RunTypes /\ owes \in SUBSET Owed /\ (me.undoing => me.pc \in Undoes)
    BY DEF Keeps
  <1>2. CASE me.undoing
    <2>1. Undoing(me, owes, Back!Advanced(me, owes))
      BY <1>1, <1>2, AdvancedUndoing
    <2>2. QED
      BY <2>1, UndoFits
  <1>3. CASE ~me.undoing
    <2>1. NextStage(me, owes, Back!Order[i + 1], Back!Advanced(me, owes))
      BY <1>1, <1>3, AdvancedIs
    <2>2. Ready(objects, owes, Back!Order[i + 1])
      BY <1>3
    <2>3. ASSUME me.pc = "backup-suspend"
          PROVE  "backup" \in owes
      <3>1. Back!Index(Back!Order, Back!Order[2]) = 2 /\ Back!Index(Back!Order, Back!Order[i]) = i
        BY InOrder
      <3>2. Back!Order[i + 1] = "scale-down"
        BY <2>3, <3>1, OrderIs
      <3>3. QED
        BY <2>2, <3>2 DEF Ready
    <2>4. QED
      BY <1>3, <2>1, <2>2, <2>3, NextFits
  <1>4. QED
    BY <1>1, <1>2, <1>3 DEF RunTypes

-----------------------------------------------------------------------------
(* Taking the app down.                                                    *)
LEMMA SuspendKeeps ==
  ASSUME Apart, NEW r \in Restores, Back!Suspend(r)
  PROVE  Kept
PROOF
  <1> DEFINE me == restores[r]
             owes == me.owes \cup {"release"}
             after == [api EXCEPT !.release = TRUE]
  <1>1. me.pc = "suspend" /\ Active(r) /\ ~me.undoing /\ "backup" \notin owes /\ api \in Back!Objects
    BY DEF Back!Suspend, Back!At, Active, Inactive, Apart, RestoreTypes, Stage, Undoes
  <1>2. Keeps(api, r, me, owes)
    BY <1>1, Before
  <1>3. Keeps(after, r, me, owes)
    BY <1>1, <1>2 DEF Keeps, Occupied, Left, Down, Back!Objects
  <1>4. Ready(after, owes, Back!Order[2])
    BY <1>1, OrderIs DEF Ready, Stages, Back!Objects
  <1>5. me.pc = Back!Order[1]
    BY <1>1, OrderIs
  <1>6. Back!Write(r, after, Back!Advanced(me, owes), Back!Undone(me, owes))
    BY DEF Back!Suspend
  <1> HIDE DEF me, owes, after
  <1>7. Fits(after, r, Back!Advanced(me, owes))
    BY <1>1, <1>3, <1>4, <1>5, GoesOn
  <1>8. Fits(after, r, Back!Undone(me, owes)) /\ Fits(api, r, Back!Undone(me, owes))
    BY <1>1, <1>2, <1>3, TurnsBack
  <1>9. QED
    BY <1>1, <1>6, <1>7, <1>8, WriteKeeps

LEMMA SuspendBackupKeeps ==
  ASSUME Apart, NEW r \in Restores, Back!SuspendBackup(r)
  PROVE  Kept
PROOF
  <1> DEFINE me == [restores[r] EXCEPT !.wasSuspended = api.schedule]
             after == [api EXCEPT !.schedule = TRUE]
  <1>1. restores[r].pc = "backup-suspend" /\ Active(r) /\ ~restores[r].undoing
        /\ "backup" \notin restores[r].owes /\ restores[r].reason = "none" /\ api.release
        /\ (api.schedule => found[r].schedule)
    BY DEF Back!SuspendBackup, Back!At, Active, Inactive, Apart, Stage, Accounts, Undoes
  <1>2. Keeps(api, r, restores[r], restores[r].owes) /\ restores[r] \in RunTypes /\ api \in Back!Objects
    BY <1>1, Before
  <1>3. me \in RunTypes /\ me.owes = restores[r].owes /\ me.pc = "backup-suspend" /\ ~me.undoing
        /\ me.replicas = restores[r].replicas /\ me.wasSuspended = api.schedule
        /\ me.reason = "none"
    BY <1>1, <1>2 DEF RunTypes, Back!Objects
  <1>4. after \in Back!Objects /\ after.release = api.release /\ after.schedule /\ after.replicas = api.replicas
        /\ after.secret = api.secret /\ after.jobs = api.jobs
    BY <1>2 DEF Back!Objects
  <1>5. Back!Write(r, after, Back!Advanced(me, me.owes \cup {"backup"}), Back!Undone(me, me.owes))
    BY DEF Back!SuspendBackup
  <1>6. me.owes \cup {"backup"} \in SUBSET Owed
    BY <1>3 DEF RunTypes, Owed
  <1> HIDE DEF me, after
  <1>7. Keeps(api, r, me, me.owes)
    BY <1>1, <1>2, <1>3 DEF Keeps
  <1>8. Keeps(after, r, me, me.owes) /\ Keeps(after, r, me, me.owes \cup {"backup"})
    <2>1. \A q \in Restores : (Occupied(after, q) <=> Occupied(api, q)) /\ (Left(after, q) <=> Left(api, q))
      BY <1>4 DEF Occupied, Left
    <2>2. \A q \in Restores : Occupied(api, q) => Down(after, app) /\ (Resumed \/ me.wasSuspended)
      BY <1>3, <1>4 DEF Apart, Down
    <2>3. QED
      BY <1>1, <1>3, <1>4, <1>6, <1>7, <2>1, <2>2 DEF Keeps
  <1>9. Ready(after, me.owes \cup {"backup"}, Back!Order[3])
    BY <1>1, <1>4, OrderIs DEF Ready, Stages
  <1>10. me.pc = Back!Order[2]
    BY <1>3, OrderIs
  <1>11. Fits(after, r, Back!Advanced(me, me.owes \cup {"backup"}))
    BY <1>1, <1>3, <1>8, <1>9, <1>10, GoesOn
  <1>12. Fits(after, r, Back!Undone(me, me.owes)) /\ Fits(api, r, Back!Undone(me, me.owes))
    BY <1>1, <1>3, <1>7, <1>8, TurnsBack
  <1>13. QED
    BY <1>1, <1>5, <1>11, <1>12, WriteKeeps

LEMMA ScaleDownKeeps ==
  ASSUME Apart, NEW r \in Restores, Back!ScaleDown(r)
  PROVE  Kept
PROOF
  <1> DEFINE me == restores[r]
             owes == me.owes \cup {"replicas"}
             after == [api EXCEPT !.replicas = 0]
  <1>1. me.pc = "scale-down" /\ Active(r) /\ ~me.undoing 
        /\ "backup" \in owes /\ (Resumed \/ api.schedule) /\ api.release
    BY DEF Back!ScaleDown, Back!At, Active, Inactive, Apart, Stage, Undoes
  <1>2. Keeps(api, r, me, me.owes) /\ api \in Back!Objects
    BY <1>1, Before
  <1>3. Keeps(api, r, me, owes)
    BY <1>1, <1>2 DEF Keeps, Owed
  <1>4. Keeps(after, r, me, owes)
    BY <1>3 DEF Keeps, Occupied, Left, Down, Back!Objects
  <1>5. Ready(after, owes, Back!Order[4])
    BY <1>1, <1>2, OrderIs DEF Ready, Stages, Back!Objects
  <1>6. me.pc = Back!Order[3]
    BY <1>1, OrderIs
  <1>7. Back!Write(r, after, Back!Advanced(me, owes), Back!Undone(me, owes))
    BY DEF Back!ScaleDown
  <1> HIDE DEF me, owes, after
  <1>8. Fits(after, r, Back!Advanced(me, owes))
    BY <1>1, <1>4, <1>5, <1>6, GoesOn
  <1>9. Fits(after, r, Back!Undone(me, owes)) /\ Fits(api, r, Back!Undone(me, owes))
    BY <1>1, <1>3, <1>4, TurnsBack
  <1>10. QED
    BY <1>1, <1>7, <1>8, <1>9, WriteKeeps

LEMMA PodsGoneKeeps ==
  ASSUME Apart, NEW r \in Restores, Back!PodsGone(r)
  PROVE  Kept
PROOF
  <1> DEFINE me == restores[r]
  <1>1. /\ me.pc = "pods-gone" /\ Active(r) /\ ~me.undoing
        /\ "backup" \in me.owes /\ (Resumed \/ api.schedule) /\ api.release
        /\ "replicas" \in me.owes /\ (Upset \/ api.replicas = 0)
    BY DEF Back!PodsGone, Back!At, Active, Inactive, Apart, Stage, Undoes
  <1>2. Keeps(api, r, me, me.owes)
    BY <1>1, Before
  <1>3. me.pc = Back!Order[4]
    BY <1>1, OrderIs
  <1>4. Back!Wait(r, ~app, Back!Advanced(me, me.owes), Back!Undone(me, me.owes))
    BY DEF Back!PodsGone
  <1>5. ASSUME ~app PROVE Ready(api, me.owes, Back!Order[5])
    BY <1>1, <1>5, OrderIs DEF Ready, Stages
  <1> HIDE DEF me
  <1>6. ASSUME ~app PROVE Fits(api, r, Back!Advanced(me, me.owes))
    BY <1>1, <1>2, <1>3, <1>5, <1>6, GoesOn
  <1>7. Fits(api, r, Back!Undone(me, me.owes))
    BY <1>1, <1>2, TurnsBack
  <1>8. QED
    BY <1>1, <1>4, <1>6, <1>7, WaitKeeps DEF me

LEMMA CreateSecretKeeps ==
  ASSUME Apart, NEW r \in Restores, Back!CreateSecret(r)
  PROVE  Kept
PROOF
  <1> DEFINE me == restores[r]
             owes == me.owes \cup {"secret"}
             after == [api EXCEPT !.secret = TRUE]
  <1>1. /\ me.pc = "secret" /\ Active(r) /\ ~me.undoing
        /\ "backup" \in owes /\ (Resumed \/ api.schedule) /\ api.release
        /\ "replicas" \in owes /\ (Upset \/ (api.replicas = 0 /\ ~app))
    BY DEF Back!CreateSecret, Back!At, Active, Inactive, Apart, Stage, Undoes
  <1>2. Keeps(api, r, me, me.owes) /\ api \in Back!Objects
    BY <1>1, Before
  <1>3. Keeps(api, r, me, owes)
    BY <1>1, <1>2 DEF Keeps, Owed
  <1>4. Keeps(after, r, me, owes)
    BY <1>3 DEF Keeps, Occupied, Left, Down, Back!Objects
  <1>5. Ready(after, owes, Back!Order[6])
    BY <1>1, <1>2, OrderIs DEF Ready, Stages, Back!Objects
  <1>6. me.pc = Back!Order[5]
    BY <1>1, OrderIs
  <1>7. \/ Back!Refused(r, Back!Undone(me, owes))
        \/ Back!Write(r, after, Back!Advanced(me, owes), Back!Undone(me, owes))
    BY DEF Back!CreateSecret
  <1> HIDE DEF me, owes, after
  <1>8. Fits(after, r, Back!Advanced(me, owes))
    BY <1>1, <1>4, <1>5, <1>6, GoesOn
  <1>9. Fits(after, r, Back!Undone(me, owes)) /\ Fits(api, r, Back!Undone(me, owes))
    BY <1>1, <1>3, <1>4, TurnsBack
  <1>10. CASE Back!Refused(r, Back!Undone(me, owes))
    <2>1. Back!Goes(r, Back!Undone(me, owes)) /\ UNCHANGED <<api, Back!cluster, found>>
      BY <1>10 DEF Back!Refused
    <2>2. QED
      BY <1>1, <1>9, <2>1, StillKeeps
  <1>11. CASE Back!Write(r, after, Back!Advanced(me, owes), Back!Undone(me, owes))
    BY <1>1, <1>8, <1>9, <1>11, WriteKeeps
  <1>12. QED
    BY <1>7, <1>10, <1>11

LEMMA CreateJobKeeps ==
  ASSUME Apart, NEW r \in Restores, Back!CreateJob(r)
  PROVE  Kept
PROOF
  <1> DEFINE me == restores[r]
             owes == me.owes \cup {"job"}
             after == [api EXCEPT !.jobs[r] = "created"]
  <1>1. /\ me.pc = "job" /\ Active(r) /\ ~me.undoing
        /\ "backup" \in owes /\ (Resumed \/ api.schedule) /\ api.release
        /\ "replicas" \in owes /\ (Upset \/ (api.replicas = 0 /\ ~app))
    BY DEF Back!CreateJob, Back!At, Active, Inactive, Apart, Stage, Undoes
  <1>2. Keeps(api, r, me, me.owes) /\ api \in Back!Objects
    BY <1>1, Before
  <1>3. Keeps(api, r, me, owes)
    BY <1>1, <1>2 DEF Keeps, Owed
  <1>4. /\ after \in Back!Objects
        /\ after.release = api.release /\ after.schedule = api.schedule
        /\ after.replicas = api.replicas /\ after.secret = api.secret
        /\ \A q \in Restores \ {r} : after.jobs[q] = api.jobs[q]
    <2>1. "created" \in Back!JobStates /\ after = [api EXCEPT !.jobs[r] = "created"] /\ api \in Back!Objects
      BY <1>2 DEF Back!JobStates
    <2> HIDE DEF me, owes, after
    <2>2. QED
      BY <2>1 DEF Back!Objects
  <1>5. Back!Write(r, after, Back!Advanced(me, owes), Back!Undone(me, owes)) /\ "job" \in owes
    BY DEF Back!CreateJob
  <1>6. me.pc = Back!Order[6]
    BY <1>1, OrderIs
  <1> HIDE DEF me, owes, after
  <1>7. Keeps(after, r, me, owes)
    BY <1>1, <1>3, <1>4, <1>5 DEF Keeps, Down
  <1>8. Ready(after, owes, Back!Order[7])
    BY <1>1, <1>4, OrderIs DEF Ready, Stages
  <1>9. Fits(after, r, Back!Advanced(me, owes))
    BY <1>1, <1>6, <1>7, <1>8, GoesOn
  <1>10. Fits(after, r, Back!Undone(me, owes)) /\ Fits(api, r, Back!Undone(me, owes))
    BY <1>1, <1>3, <1>7, TurnsBack
  <1>11. QED
    BY <1>1, <1>5, <1>9, <1>10, WriteKeeps

LEMMA WaitForJobKeeps ==
  ASSUME Apart, NEW r \in Restores, Back!WaitForJob(r)
  PROVE  Kept
PROOF
  <1> DEFINE me == [restores[r] EXCEPT !.answer = api.jobs[r]]
  <1>1. /\ restores[r].pc = "job-finished" /\ Active(r) /\ ~restores[r].undoing
        /\ "backup" \in restores[r].owes /\ (Resumed \/ api.schedule) /\ restores[r].reason = "none"
    BY DEF Back!WaitForJob, Back!At, Active, Inactive, Apart, Stage, Undoes
  <1>2. Keeps(api, r, restores[r], restores[r].owes) /\ restores[r] \in RunTypes /\ api \in Back!Objects
    BY <1>1, Before
  <1>3. me \in RunTypes /\ me.owes = restores[r].owes /\ me.pc = "job-finished" /\ ~me.undoing
        /\ me.replicas = restores[r].replicas /\ me.wasSuspended = restores[r].wasSuspended
        /\ me.reason = "none"
    BY <1>1, <1>2 DEF RunTypes, Back!Objects
  <1>4. /\ Back!Goes(r, Back!Advanced(me, me.owes)) \/ Back!Goes(r, Back!Undone(me, me.owes))
        /\ UNCHANGED <<api, Back!cluster, found>>
    BY DEF Back!WaitForJob
  <1> HIDE DEF me
  <1>5. Keeps(api, r, me, me.owes)
    BY <1>1, <1>2, <1>3 DEF Keeps
  <1>6. Ready(api, me.owes, Back!Order[8])
    BY <1>1, <1>3, OrderIs DEF Ready, Stages
  <1>7. me.pc = Back!Order[7]
    BY <1>3, OrderIs
  <1>8. Fits(api, r, Back!Advanced(me, me.owes))
    BY <1>1, <1>3, <1>5, <1>6, <1>7, GoesOn
  <1>9. Fits(api, r, Back!Undone(me, me.owes))
    BY <1>1, <1>3, <1>5, TurnsBack
  <1>10. QED
    BY <1>1, <1>4, <1>8, <1>9, StillKeeps

LEMMA JobResultKeeps ==
  ASSUME Apart, NEW r \in Restores, Back!JobResult(r)
  PROVE  Kept
PROOF
  <1> DEFINE me == restores[r]
  <1>1. me.pc = "job-result" /\ Active(r) /\ ~me.undoing /\ "backup" \in me.owes /\ (Resumed \/ api.schedule)
    BY DEF Back!JobResult, Back!At, Active, Inactive, Apart, Stage, Undoes
  <1>2. Keeps(api, r, me, me.owes)
    BY <1>1, Before
  <1>3. /\ Back!Goes(r, Back!Advanced(me, me.owes)) \/ Back!Goes(r, Back!Undone(me, me.owes))
        /\ UNCHANGED <<api, Back!cluster, found>>
    BY DEF Back!JobResult
  <1>4. Ready(api, me.owes, Back!Order[9])
    BY <1>1, OrderIs DEF Ready, Stages
  <1>5. me.pc = Back!Order[8]
    BY <1>1, OrderIs
  <1> HIDE DEF me
  <1>6. Fits(api, r, Back!Advanced(me, me.owes))
    BY <1>1, <1>2, <1>4, <1>5, GoesOn
  <1>7. Fits(api, r, Back!Undone(me, me.owes))
    BY <1>1, <1>2, TurnsBack
  <1>8. QED
    BY <1>1, <1>3, <1>6, <1>7, StillKeeps

-----------------------------------------------------------------------------
(* Putting it back.                                                        *)
LEMMA DeleteJobKeeps ==
  ASSUME Apart, NEW r \in Restores, Back!DeleteJob(r)
  PROVE  Kept
PROOF
  <1> DEFINE me == restores[r]
             done == [me EXCEPT !.asked = TRUE]
             after == [api EXCEPT !.jobs[r] = "none"]
  <1>1. me.pc = "delete-job" /\ Active(r)
    BY DEF Back!DeleteJob, Back!At, Active, Inactive
  <1>2. /\ Keeps(api, r, me, me.owes) /\ api \in Back!Objects /\ me \in RunTypes
        /\ me.undoing => me.pc \in Undoes
    BY <1>1, Before
  <1>3. Stage(api, app, r, me) /\ Accounts(api, found[r], me)
        /\ \A q \in Restores \ {r} : Occupied(api, q) => Beside(r, me)
    BY <1>1 DEF Apart
  <1>4. /\ after \in Back!Objects
        /\ after.release = api.release /\ after.schedule = api.schedule
        /\ after.replicas = api.replicas /\ after.secret = api.secret
        /\ after.jobs[r] = "none" /\ \A q \in Restores \ {r} : after.jobs[q] = api.jobs[q]
    <2>1. "none" \in Back!JobStates /\ after = [api EXCEPT !.jobs[r] = "none"] /\ api \in Back!Objects
      BY <1>2 DEF Back!JobStates
    <2> HIDE DEF me, done, after
    <2>2. QED
      BY <2>1 DEF Back!Objects
  <1>5. /\ done \in RunTypes /\ done.pc = "delete-job" /\ done.undoing = me.undoing /\ done.owes = me.owes
        /\ done.replicas = me.replicas /\ done.wasSuspended = me.wasSuspended /\ done.reason = me.reason
    BY <1>1, <1>2 DEF RunTypes
  <1>6. Back!Write(r, after, done, Back!Undone(me, me.owes))
    BY DEF Back!DeleteJob
  <1> HIDE DEF me, done, after
  <1>7. /\ \A q \in Restores : Occupied(after, q) => Occupied(api, q)
        /\ Left(after, r) => Left(api, r)
        /\ Down(api, app) => Down(after, app)
    BY <1>4 DEF Occupied, Left, Down
  <1>8. Keeps(after, r, me, me.owes)
    BY <1>2, <1>4, <1>7 DEF Keeps
  <1>9. Stage(after, app, r, done)
    BY <1>1, <1>3, <1>4, <1>5 DEF Stage
  <1>10. Accounts(after, found[r], done)
    BY <1>1, <1>3, <1>4, <1>5 DEF Accounts
  <1>11. Fits(after, r, done)
    BY <1>3, <1>5, <1>8, <1>9, <1>10 DEF Fits, Keeps, Beside
  <1>12. Fits(after, r, Back!Undone(me, me.owes)) /\ Fits(api, r, Back!Undone(me, me.owes))
    BY <1>1, <1>2, <1>8, TurnsBack
  <1>13. QED
    BY <1>1, <1>6, <1>11, <1>12, WriteKeeps

LEMMA JobPodGoneKeeps ==
  ASSUME Apart, NEW r \in Restores, Back!JobPodGone(r)
  PROVE  Kept
PROOF
  <1> DEFINE me == restores[r]
             owes == me.owes \ {"job"}
             late == [Back!Undone(me, me.owes) EXCEPT !.expired = me.undoing]
  <1>1. me.pc = "delete-job" /\ Active(r) /\ api.jobs[r] = "none"
    BY DEF Back!JobPodGone, Back!At, Active, Inactive, Apart, Stage
  <1>2. /\ Keeps(api, r, me, me.owes) /\ me \in RunTypes /\ me.owes \in SUBSET Owed
        /\ me.undoing => me.pc \in Undoes
    BY <1>1, Before
  <1>3. ~me.undoing => "backup" \in owes /\ (Resumed \/ api.schedule)
    BY <1>1 DEF Apart, Stage
  <1>4. Back!Wait(r, restorePod[r] = "none", Back!Advanced(me, owes), late)
    BY DEF Back!JobPodGone
  <1>5. ~me.undoing => Ready(api, owes, Back!Order[10])
    BY <1>3, OrderIs DEF Ready, Stages
  <1>6. me.pc = Back!Order[9]
    BY <1>1, OrderIs
  <1>7. ASSUME restorePod[r] = "none"
        PROVE  Keeps(api, r, me, owes)
    BY <1>1, <1>2, <1>7 DEF Keeps, Left
  <1>8. Fits(api, r, late)
    <2>1. Undoing(me, me.owes, Back!Undone(me, me.owes)) /\ me.undoing \in BOOLEAN
      BY <1>2, UndoneIs DEF RunTypes
    <2> HIDE DEF me
    <2>2. Undoing(me, me.owes, late)
      BY <2>1, ExpiredIs
    <2>3. QED
      BY <1>1, <1>2, <2>2, UndoFits
  <1> HIDE DEF me, owes, late
  <1>9. ASSUME restorePod[r] = "none"
        PROVE  Fits(api, r, Back!Advanced(me, owes))
    BY <1>1, <1>2, <1>5, <1>6, <1>7, <1>9, GoesOn
  <1>10. Fits(api, r, Back!Undone(me, me.owes))
    BY <1>1, <1>2, TurnsBack
  <1>11. QED
    BY <1>1, <1>4, <1>8, <1>9, <1>10, WaitKeeps DEF me

LEMMA DeleteSecretKeeps ==
  ASSUME Apart, NEW r \in Restores, Back!DeleteSecret(r)
  PROVE  Kept
PROOF
  <1> DEFINE me == restores[r]
             owes == me.owes \ {"secret"}
             after == [api EXCEPT !.secret = FALSE]
  <1>1. me.pc = "delete-secret" /\ Active(r)
    BY DEF Back!DeleteSecret, Back!At, Active, Inactive
  <1>2. /\ Keeps(api, r, me, me.owes) /\ api \in Back!Objects
        /\ me.undoing => me.pc \in Undoes
    BY <1>1, Before
  <1>3. ~me.undoing => "backup" \in owes /\ (Resumed \/ api.schedule) /\ "job" \notin owes
    BY <1>1 DEF Apart, Stage
  <1>4. Keeps(after, r, me, owes) /\ Keeps(after, r, me, me.owes)
    BY <1>1, <1>2 DEF Keeps, Occupied, Left, Down, Back!Objects
  <1>5. ~me.undoing => Ready(after, owes, Back!Order[11])
    BY <1>2, <1>3, OrderIs DEF Ready, Stages, Back!Objects
  <1>6. me.pc = Back!Order[10]
    BY <1>1, OrderIs
  <1>7. Back!Write(r, after, Back!Advanced(me, owes), Back!Undone(me, me.owes))
    BY DEF Back!DeleteSecret
  <1> HIDE DEF me, owes, after
  <1>8. Fits(after, r, Back!Advanced(me, owes))
    BY <1>1, <1>2, <1>4, <1>5, <1>6, GoesOn
  <1>9. Fits(after, r, Back!Undone(me, me.owes)) /\ Fits(api, r, Back!Undone(me, me.owes))
    BY <1>1, <1>2, <1>4, TurnsBack
  <1>10. QED
    BY <1>1, <1>7, <1>8, <1>9, WriteKeeps

LEMMA ResumeBackupKeeps ==
  ASSUME Apart, NEW r \in Restores, Back!ResumeBackup(r)
  PROVE  Kept
PROOF
  <1> DEFINE me == restores[r]
             owes == me.owes \ {"backup"}
             after == [api EXCEPT !.schedule = FALSE]
  <1>1. me.pc = "backup-resume" /\ Active(r) /\ "job" \notin me.owes /\ "backup" \in me.owes
    BY DEF Back!ResumeBackup, Back!At, Active, Inactive, Apart, Stage
  <1>2. /\ Keeps(api, r, me, me.owes) /\ api \in Back!Objects
        /\ me.undoing => me.pc \in Undoes
    BY <1>1, Before
  <1>3. ASSUME me.wasSuspended
        PROVE  Keeps(api, r, me, owes)
    BY <1>1, <1>2, <1>3 DEF Keeps
  <1>4. ASSUME ~me.wasSuspended
        PROVE  Keeps(after, r, me, owes) /\ Keeps(after, r, me, me.owes)
    <2>1. /\ after \in Back!Objects /\ after.release = api.release /\ after.replicas = api.replicas
          /\ after.secret = api.secret /\ after.jobs = api.jobs
      BY <1>2 DEF Back!Objects
    <2>2. /\ \A q \in Restores : Occupied(after, q) <=> Occupied(api, q)
          /\ Left(after, r) <=> Left(api, r)
          /\ after.schedule = FALSE
          /\ "backup" \notin owes /\ owes \subseteq me.owes /\ \A debt \in me.owes : debt # "backup" => debt \in owes
      BY <1>2, <2>1 DEF Occupied, Left, Back!Objects
    <2> HIDE DEF me, owes, after
    <2>3. \A q \in Restores : Occupied(api, q) => Down(after, app)
      <3>1. ~Occupied(api, r)
        BY <1>1, <1>2 DEF Keeps, Occupied, Left
      <3>2. ASSUME NEW q \in Restores \ {r}, Occupied(api, q)
            PROVE  Resumed /\ Down(api, app)
        BY <1>1, <1>2, <1>4, <3>2 DEF Keeps
      <3>3. QED
        BY <2>1, <3>1, <3>2 DEF Down
    <2>4. QED
      BY <1>1, <1>2, <1>4, <2>1, <2>2, <2>3 DEF Keeps
  <1>5. "job" \notin owes /\ Ready(after, owes, Back!Order[12]) /\ Ready(api, owes, Back!Order[12])
    BY <1>1, OrderIs DEF Ready, Stages
  <1>6. me.pc = Back!Order[11]
    BY <1>1, OrderIs
  <1>7. IF me.wasSuspended THEN Back!Refused(r, Back!Advanced(me, owes))
        ELSE Back!Write(r, after, Back!Advanced(me, owes), Back!Undone(me, me.owes))
    BY DEF Back!ResumeBackup
  <1> HIDE DEF me, owes, after
  <1>8. CASE me.wasSuspended
    <2>1. Back!Goes(r, Back!Advanced(me, owes)) /\ UNCHANGED <<api, Back!cluster, found>>
      BY <1>7, <1>8 DEF Back!Refused
    <2>2. Fits(api, r, Back!Advanced(me, owes))
      BY <1>1, <1>2, <1>3, <1>5, <1>6, <1>8, GoesOn
    <2>3. QED
      BY <1>1, <2>1, <2>2, StillKeeps
  <1>9. CASE ~me.wasSuspended
    <2>1. Fits(after, r, Back!Advanced(me, owes))
      BY <1>1, <1>2, <1>4, <1>5, <1>6, <1>9, GoesOn
    <2>2. Fits(after, r, Back!Undone(me, me.owes)) /\ Fits(api, r, Back!Undone(me, me.owes))
      BY <1>1, <1>2, <1>4, <1>9, TurnsBack
    <2>3. QED
      BY <1>1, <1>7, <1>9, <2>1, <2>2, WriteKeeps
  <1>10. QED
    BY <1>8, <1>9

LEMMA ScaleUpKeeps ==
  ASSUME Apart, NEW r \in Restores, Back!ScaleUp(r)
  PROVE  Kept
PROOF
  <1> DEFINE me == restores[r]
             owes == me.owes \ {"replicas"}
             after == [api EXCEPT !.replicas = me.replicas]
  <1>1. /\ me.pc = "scale-up" /\ Active(r) /\ "job" \notin me.owes
        /\ \A q \in Restores \ {r} : Occupied(api, q) => Upset
    BY DEF Back!ScaleUp, Back!At, Active, Inactive, Apart, Stage, Beside, Upset
  <1>2. /\ Keeps(api, r, me, me.owes) /\ api \in Back!Objects /\ me \in RunTypes
        /\ me.undoing => me.pc \in Undoes
    BY <1>1, Before
  <1>3. /\ after \in Back!Objects /\ after.release = api.release /\ after.replicas = me.replicas
        /\ after.schedule = api.schedule /\ after.secret = api.secret /\ after.jobs = api.jobs
    BY <1>2 DEF Back!Objects, RunTypes
  <1>4. Back!Write(r, after, Back!Advanced(me, owes), Back!Undone(me, me.owes))
    BY DEF Back!ScaleUp
  <1>5. "job" \notin owes /\ owes \subseteq me.owes /\ \A debt \in me.owes : debt # "replicas" => debt \in owes
    BY <1>1
  <1> HIDE DEF me, owes, after
  <1>6. /\ \A q \in Restores : (Occupied(after, q) <=> Occupied(api, q)) /\ (Left(after, q) <=> Left(api, q))
        /\ \A q \in Restores : Occupied(api, q) => Down(after, app)
    <2>1. \A q \in Restores : (Occupied(after, q) <=> Occupied(api, q)) /\ (Left(after, q) <=> Left(api, q))
      BY <1>3 DEF Occupied, Left
    <2>2. ~Occupied(api, r)
      BY <1>1, <1>2 DEF Keeps, Occupied, Left
    <2>3. ASSUME NEW q \in Restores \ {r}, Occupied(api, q)
          PROVE  Down(after, app)
      BY <1>1, <1>2, <1>3, <2>3 DEF Keeps, Down
    <2>4. QED
      BY <2>1, <2>2, <2>3
  <1>7. Keeps(after, r, me, me.owes)
    BY <1>1, <1>2, <1>3, <1>6 DEF Keeps
  <1>8. Keeps(after, r, me, owes)
    BY <1>1, <1>3, <1>5, <1>6, <1>7 DEF Keeps
  <1>9. Ready(after, owes, Back!Order[13])
    BY <1>5, OrderIs DEF Ready, Stages
  <1>10. me.pc = Back!Order[12]
    BY <1>1, OrderIs
  <1>11. Fits(after, r, Back!Advanced(me, owes))
    BY <1>1, <1>2, <1>8, <1>9, <1>10, GoesOn
  <1>12. Fits(after, r, Back!Undone(me, me.owes)) /\ Fits(api, r, Back!Undone(me, me.owes))
    BY <1>1, <1>2, <1>7, TurnsBack
  <1>13. QED
    BY <1>1, <1>4, <1>11, <1>12, WriteKeeps

LEMMA ResumeKeeps ==
  ASSUME Apart, NEW r \in Restores, Back!Resume(r)
  PROVE  Kept
PROOF
  <1> DEFINE me == restores[r]
             owes == me.owes \ {"release"}
             after == [api EXCEPT !.release = FALSE]
  <1>1. me.pc = "resume" /\ Active(r) /\ "job" \notin me.owes
        /\ \A q \in Restores \ {r} : Occupied(api, q) => Upset
    BY DEF Back!Resume, Back!At, Active, Inactive, Apart, Stage, Beside, Upset
  <1>2. /\ Keeps(api, r, me, me.owes) /\ api \in Back!Objects
        /\ me.undoing => me.pc \in Undoes
    BY <1>1, Before
  <1>3. Keeps(after, r, me, owes) /\ Keeps(after, r, me, me.owes)
    <2>1. /\ after \in Back!Objects /\ after.release = FALSE /\ after.replicas = api.replicas
          /\ after.schedule = api.schedule /\ after.secret = api.secret /\ after.jobs = api.jobs
      BY <1>2 DEF Back!Objects
    <2> HIDE DEF after
    <2>2. \A q \in Restores : (Occupied(after, q) <=> Occupied(api, q)) /\ (Left(after, q) <=> Left(api, q))
      BY <2>1 DEF Occupied, Left
    <2>3. ~Occupied(api, r)
      BY <1>1, <1>2 DEF Keeps, Occupied, Left
    <2>4. ASSUME NEW q \in Restores, Occupied(api, q)
          PROVE  Down(after, app)
      BY <1>1, <1>2, <2>1, <2>3, <2>4 DEF Keeps, Down
    <2>5. QED
      BY <1>2, <2>1, <2>2, <2>4 DEF Keeps
  <1>4. Ready(after, owes, Back!Order[14])
    BY OrderIs DEF Ready, Stages
  <1>5. me.pc = Back!Order[13]
    BY <1>1, OrderIs
  <1>6. Back!Write(r, after, Back!Advanced(me, owes), Back!Undone(me, me.owes))
    BY DEF Back!Resume
  <1> HIDE DEF me, owes, after
  <1>7. Fits(after, r, Back!Advanced(me, owes))
    BY <1>1, <1>2, <1>3, <1>4, <1>5, GoesOn
  <1>8. Fits(after, r, Back!Undone(me, me.owes)) /\ Fits(api, r, Back!Undone(me, me.owes))
    BY <1>1, <1>2, <1>3, TurnsBack
  <1>9. QED
    BY <1>1, <1>6, <1>7, <1>8, WriteKeeps

LEMMA WaitForRolloutKeeps ==
  ASSUME Apart, NEW r \in Restores, Back!WaitForRollout(r)
  PROVE  Kept
PROOF
  <1> DEFINE me == restores[r]
  <1>1. me.pc = "available" /\ Active(r) /\ ~me.undoing
    BY DEF Back!WaitForRollout, Back!At, Active, Inactive, Apart, Stage, Undoes
  <1>2. Keeps(api, r, me, me.owes) /\ me \in RunTypes /\ me.owes \in SUBSET Owed
    BY <1>1, Before
  <1>3. Ready(api, me.owes, "ended")
    BY DEF Ready
  <1>4. Back!Wait(r, api.replicas = 0 \/ app, Back!Advanced(me, me.owes), Back!Undone(me, me.owes))
    BY DEF Back!WaitForRollout
  <1> HIDE DEF me
  <1>5. NextStage(me, me.owes, "ended", Back!Advanced(me, me.owes))
    BY <1>1, <1>2, LastIs
  <1>6. Fits(api, r, Back!Advanced(me, me.owes))
    BY <1>1, <1>2, <1>3, <1>5, NextFits
  <1>7. Fits(api, r, Back!Undone(me, me.owes))
    BY <1>1, <1>2, TurnsBack
  <1>8. QED
    BY <1>1, <1>4, <1>6, <1>7, WaitKeeps DEF me

LEMMA KilledKeeps ==
  ASSUME Apart, NEW r \in Restores, Back!Killed(r)
  PROVE  Kept
PROOF
  <1> DEFINE me2 == [restores[r] EXCEPT !.pc = "killed"]
  <1>1. Active(r) /\ Back!Goes(r, me2) /\ UNCHANGED <<api, Back!cluster, found>>
    BY DEF Back!Killed, Back!Active, Active, Inactive
  <1>2. api \in Back!Objects /\ restores[r] \in RunTypes
    BY <1>1, Before
  <1>3. me2 \in RunTypes /\ me2.pc = "killed" /\ me2.owes = restores[r].owes
        /\ me2.replicas = restores[r].replicas
    BY <1>2 DEF RunTypes, Inactive
  <1> HIDE DEF me2
  <1>4. Fits(api, r, me2)
    BY <1>2, <1>3 DEF Fits, Apart, Inactive
  <1>5. QED
    BY <1>1, <1>4, StillKeeps

LEMMA StepKeeps ==
  ASSUME Apart, NEW r \in Restores, Back!Step(r)
  PROVE  Kept
  BY SuspendKeeps, SuspendBackupKeeps, ScaleDownKeeps, PodsGoneKeeps, CreateSecretKeeps, CreateJobKeeps,
     WaitForJobKeeps, JobResultKeeps, DeleteJobKeeps, JobPodGoneKeeps, DeleteSecretKeeps, ResumeBackupKeeps,
     ScaleUpKeeps, ResumeKeeps, WaitForRolloutKeeps
     DEF Back!Step, Back!TakeDown, Back!PutBack

(* A run begins when no other is under way, and finds what they left.      *)
LEMMA BeginKeeps ==
  ASSUME Apart, ~Overlap, NEW r \in Restores, Back!Begin(r)
  PROVE  Kept
PROOF
  <1>1. PICK me2, at :
          /\ restores' = [restores EXCEPT ![r] = me2] /\ found' = [found EXCEPT ![r] = at]
          /\ \/ /\ \A q \in Restores : restorePod[q] = "none"
                /\ me2 = [Back!Idle EXCEPT !.pc = "suspend", !.replicas = api.replicas] /\ at = api
             \/ me2 = [Back!Idle EXCEPT !.pc = "refused"] /\ at = found[r]
    BY DEF Back!Begin, Back!Goes, Apart, RestoreTypes
  <1>2. /\ restores[r].pc = "idle" /\ \A q \in Restores : ~Active(q)
        /\ UNCHANGED <<api, app, backup, restorePod, overruled>>
    BY DEF Back!Begin, Back!At, Back!Active, Active, Inactive, Back!cluster
  <1>3. RestoreTypes /\ api \in Back!Objects /\ found[r] \in Back!Objects
    BY DEF Apart, RestoreTypes
  <1>4. /\ me2 \in RunTypes /\ me2.pc \in {"suspend", "refused"} /\ me2.owes = {} /\ ~me2.undoing
        /\ me2.reason = "none" /\ at \in Back!Objects
        /\ me2.pc = "suspend" => me2.replicas = api.replicas /\ at = api /\ \A q \in Restores : restorePod[q] = "none"
        /\ me2.pc = "refused" => at = found[r]
    <2>1. api.replicas \in {0, 1}
      BY <1>3 DEF Back!Objects
    <2>2. CASE me2 = [Back!Idle EXCEPT !.pc = "suspend", !.replicas = api.replicas] /\ at = api
               /\ \A q \in Restores : restorePod[q] = "none"
      BY <1>3, <2>1, <2>2 DEF RunTypes, Stages, Inactive, Back!Idle, Back!JobStates
    <2>3. CASE me2 = [Back!Idle EXCEPT !.pc = "refused"] /\ at = found[r]
      BY <1>3, <2>3 DEF RunTypes, Stages, Inactive, Back!Idle, Back!JobStates
    <2>4. QED
      BY <1>1, <2>2, <2>3
  <1>5. /\ restores'[r] = me2 /\ \A q \in Restores \ {r} : restores'[q] = restores[q]
        /\ found'[r] = at /\ \A q \in Restores \ {r} : found'[q] = found[q]
    BY <1>1, <1>3 DEF RestoreTypes
  <1>6. \A q \in Restores : (Occupied(api, q)' <=> Occupied(api, q)) /\ (Left(api, q)' <=> Left(api, q))
    BY <1>2 DEF Occupied, Left
  <1>7. ~Left(api, r) /\ ~Occupied(api, r)
    BY <1>2 DEF Apart, Left, Occupied
  <1>8. RestoreTypes'
    BY <1>1, <1>2, <1>3, <1>4 DEF RestoreTypes
  <1>9. \A q \in Restores : restores'[q].pc = "idle" => restores'[q].owes = {} /\ ~Back!Overtook(q)'
    BY <1>4, <1>5 DEF Apart, Back!Overtook
  <1>10. \A q \in Restores : Active(q)' => q = r
    BY <1>2, <1>5 DEF Active
  <1>11. (Resumed' <=> Resumed) /\ (Upset => Upset')
    <2>1. ASSUME NEW q \in Restores, Back!Overtook(q)
          PROVE  \E s \in Restores : Back!Overtook(s)'
      <3>1. q # r
        BY <1>2, <2>1 DEF Apart
      <3>2. QED
        BY <1>5, <2>1, <3>1 DEF Back!Overtook
    <2>2. QED
      BY <1>2, <2>1 DEF Resumed, Upset
  <1>12. ASSUME NEW q \in Restores, Occupied(api, q)'
         PROVE  Down(api, app)'
    <2>1. Down(api, app)
      BY <1>6, <1>12 DEF Apart
    <2>2. QED
      BY <1>2, <1>11, <2>1 DEF Down
  <1>13. ASSUME NEW q \in Restores, Left(api, q)'
         PROVE  "job" \in restores'[q].owes
    <2>1. q # r /\ Left(api, q)
      BY <1>6, <1>7, <1>13
    <2>2. QED
      BY <1>5, <2>1 DEF Apart
  <1>14. ASSUME NEW s \in Restores, Active(s)'
         PROVE  /\ Stage(api, app, s, restores[s])'
                /\ Accounts(api, found[s], restores[s])'
                /\ \A q \in Restores \ {s} : Occupied(api, q)' => Beside(s, restores[s])'
    <2>1. s = r
      BY <1>10, <1>14
    <2>2. me2.pc = "suspend"
      BY <1>4, <1>5, <1>14, <2>1 DEF Active, Inactive
    <2>3. Stage(api, app, s, restores[s])'
      BY <1>4, <1>5, <2>1, <2>2 DEF Stage, Undoes
    <2>4. Accounts(api, found[s], restores[s])'
      BY <1>2, <1>4, <1>5, <2>1, <2>2 DEF Accounts
    <2>5. ASSUME NEW q \in Restores \ {s}, Occupied(api, q)'
          PROVE  Beside(s, restores[s])'
      <3>1. api.jobs[q] = "created"
        BY <1>4, <1>6, <2>2, <2>5 DEF Occupied
      <3>2. Back!Overtook(s)'
        BY <1>4, <1>5, <2>1, <2>2, <3>1 DEF Back!Overtook
      <3>3. QED
        BY <1>4, <1>5, <2>1, <3>2 DEF Beside
    <2>6. QED
      BY <2>3, <2>4, <2>5
  <1>15. Apart'
    BY <1>8, <1>9, <1>10, <1>12, <1>13, <1>14 DEF Apart
  <1>16. \A q \in Restores : ~Back!Ends(q)
    BY <1>4, <1>5 DEF Back!Ends
  <1>17. QED
    BY <1>2, <1>15, <1>16 DEF Kept, Ending, Back!BackupNotBesideRestore

-----------------------------------------------------------------------------
(* A step of the cluster: the objects that a run makes stay as they are,   *)
(* no Job is created, and no app starts that was asked to stop.            *)
LEMMA Around ==
  ASSUME Apart, UNCHANGED <<restores, found, overruled>>,
         api' \in Back!Objects, app' \in BOOLEAN, restorePod' \in [Restores -> Back!Pods],
         api'.release = api.release, api'.schedule = api.schedule,
         api'.replicas = api.replicas, api'.secret = api.secret,
         \A q \in Restores : (Occupied(api, q)' => Occupied(api, q)) /\ (Left(api, q)' => Left(api, q)),
         \A q \in Restores : api.jobs[q] = "none" => api'.jobs[q] = "none",
         app' => app \/ api.replicas = 1,
         backup' => backup \/ ~api.schedule
  PROVE  Kept
PROOF
  <1>1. RestoreTypes'
    BY DEF Apart, RestoreTypes
  <1>2. /\ Resumed' <=> Resumed
        /\ Upset' <=> Upset
        /\ \A q \in Restores : Back!Overtook(q)' <=> Back!Overtook(q)
    BY DEF Resumed, Upset, Back!Overtook
  <1>3. \A r \in Restores : Active(r)' <=> Active(r)
    BY DEF Active
  <1>4. ASSUME NEW q \in Restores, Occupied(api, q)'
        PROVE  Down(api, app)'
    <2>1. Down(api, app)
      BY <1>4 DEF Apart
    <2>2. QED
      BY <1>2, <2>1 DEF Down
  <1>5. ASSUME NEW q \in Restores, Left(api, q)'
        PROVE  "job" \in restores'[q].owes
    BY <1>5 DEF Apart
  <1>6. ASSUME NEW r \in Restores, Active(r)
        PROVE  /\ Stage(api, app, r, restores[r])'
               /\ Accounts(api, found[r], restores[r])'
               /\ \A q \in Restores \ {r} : Occupied(api, q)' => Beside(r, restores[r])'
    <2>1. Stage(api, app, r, restores[r]) /\ Accounts(api, found[r], restores[r])
      BY <1>6 DEF Apart
    <2>2. Stage(api, app, r, restores[r])'
      BY <1>2, <2>1 DEF Stage
    <2>3. Accounts(api, found[r], restores[r])'
      BY <2>1 DEF Accounts
    <2>4. ASSUME NEW q \in Restores \ {r}, Occupied(api, q)'
          PROVE  Beside(r, restores[r])'
      <3>1. Beside(r, restores[r])
        BY <1>6, <2>4 DEF Apart
      <3>2. QED
        BY <1>2, <3>1 DEF Beside
    <2>5. QED
      BY <2>2, <2>3, <2>4
  <1>7. Apart'
    <2>1. \A q \in Restores : restores'[q].pc = "idle" => restores'[q].owes = {} /\ ~Back!Overtook(q)'
      BY <1>2 DEF Apart
    <2>2. \A q, r \in Restores : Active(q)' /\ Active(r)' => q = r
      BY <1>3 DEF Apart
    <2>3. QED
      BY <1>1, <1>3, <1>4, <1>5, <1>6, <2>1, <2>2 DEF Apart
  <1>8. Back!BackupNotBesideRestore \/ Resumed
    BY DEF Apart, Occupied, Down, Back!Working, Back!BackupNotBesideRestore
  <1>9. \A r \in Restores : ~Back!Ends(r)
    BY DEF Back!Ends
  <1>10. QED
    BY <1>7, <1>8, <1>9 DEF Kept, Ending

LEMMA StayKeeps ==
  ASSUME Apart, UNCHANGED restore
  PROVE  Kept
PROOF
  <1>1. UNCHANGED <<api, app, backup, restorePod, restores, found, overruled>>
    BY DEF restore
  <1>2. api \in Back!Objects /\ app \in BOOLEAN /\ restorePod \in [Restores -> Back!Pods]
    BY DEF Apart, RestoreTypes
  <1>3. \A q \in Restores : (Occupied(api, q)' => Occupied(api, q)) /\ (Left(api, q)' => Left(api, q))
    BY <1>1 DEF Occupied, Left
  <1>4. QED
    BY <1>1, <1>2, <1>3, Around

LEMMA AppAndBackupKeep ==
  ASSUME Apart, Back!AppStarts \/ Back!AppStops \/ Back!BackupStarts \/ Back!BackupEnds
  PROVE  Kept
PROOF
  <1>1. UNCHANGED <<api, restorePod, restores, found, overruled>>
    BY DEF Back!AppStarts, Back!AppStops, Back!BackupStarts, Back!BackupEnds, Back!beside
  <1>2. api \in Back!Objects /\ app \in BOOLEAN /\ restorePod \in [Restores -> Back!Pods]
    BY DEF Apart, RestoreTypes
  <1>3. \A q \in Restores : (Occupied(api, q)' => Occupied(api, q)) /\ (Left(api, q)' => Left(api, q))
    BY <1>1 DEF Occupied, Left
  <1>4. app' \in BOOLEAN /\ (app' => app \/ api.replicas = 1) /\ (backup' => backup \/ ~api.schedule)
    <2>1. CASE Back!AppStarts
      BY <2>1 DEF Back!AppStarts
    <2>2. CASE Back!AppStops
      BY <2>2 DEF Back!AppStops
    <2>3. CASE Back!BackupStarts
      BY <1>2, <2>3 DEF Back!BackupStarts
    <2>4. CASE Back!BackupEnds
      BY <1>2, <2>4 DEF Back!BackupEnds
    <2>5. QED
      BY <2>1, <2>2, <2>3, <2>4
  <1>5. QED
    BY <1>1, <1>2, <1>3, <1>4, Around

(* A pod comes only where a Job was created and had none, and both may go. *)
LEMMA PodKeeps ==
  ASSUME Apart, NEW r \in Restores, Back!Pod(r)
  PROVE  Kept
PROOF
  <1>1. api \in Back!Objects /\ app \in BOOLEAN /\ restorePod \in [Restores -> Back!Pods]
    BY DEF Apart, RestoreTypes
  <1>2. UNCHANGED <<app, backup, restores, found, overruled>>
    BY DEF Back!Pod, Back!PodCreated, Back!PodStarts, Back!PodMoves, Back!PodSwaps, Back!PodFails, Back!PodGoes,
           Back!beside
  <1>3. PICK state \in Back!Pods : restorePod' = [restorePod EXCEPT ![r] = state]
                                 /\ (restorePod[r] = "none" => api.jobs[r] = "created")
    BY DEF Back!Pod, Back!PodCreated, Back!PodStarts, Back!PodMoves, Back!PodSwaps, Back!PodFails, Back!PodGoes,
           Back!PodTo, Back!Pods
  <1>4. \/ api' = api
        \/ \E result \in Back!JobStates \ {"none", "created"} :
             api' = [api EXCEPT !.jobs[r] = result] /\ api.jobs[r] # "none"
    BY DEF Back!Pod, Back!PodCreated, Back!PodStarts, Back!PodMoves, Back!PodSwaps, Back!PodFails, Back!PodGoes,
           Back!Answered, Back!JobStates
  <1>5. /\ api' \in Back!Objects
        /\ api'.release = api.release /\ api'.schedule = api.schedule
        /\ api'.replicas = api.replicas /\ api'.secret = api.secret
        /\ \A q \in Restores : \/ api'.jobs[q] = api.jobs[q]
                               \/ q = r /\ api.jobs[q] # "none" /\ api'.jobs[q] # "created"
    <2>1. CASE api' = api
      BY <1>1, <2>1
    <2>2. CASE \E result \in Back!JobStates \ {"none", "created"} :
                 api' = [api EXCEPT !.jobs[r] = result] /\ api.jobs[r] # "none"
      BY <1>1, <2>2 DEF Back!Objects
    <2>3. QED
      BY <1>4, <2>1, <2>2
  <1>6. restorePod' \in [Restores -> Back!Pods]
        /\ \A q \in Restores : restorePod'[q] # "none" => restorePod[q] # "none" \/ api.jobs[q] = "created"
    BY <1>1, <1>3
  <1>7. \A q \in Restores : (Occupied(api, q)' => Occupied(api, q)) /\ (Left(api, q)' => Left(api, q))
    BY <1>5, <1>6 DEF Occupied, Left
  <1>8. \A q \in Restores : api.jobs[q] = "none" => api'.jobs[q] = "none"
    BY <1>5
  <1>9. QED
    BY <1>1, <1>2, <1>5, <1>6, <1>7, <1>8, Around

(* Helm and Flux: what they change beneath a run that relies on it they    *)
(* overrule, and what no run owes is then as a run would have found it.    *)
LEMMA RecordsKeep ==
  ASSUME Apart, Back!Records
  PROVE  Kept
PROOF
  <1>1. Replicas \in {0, 1} /\ BackupSuspended \in BOOLEAN
    BY RestoreAssumption
  <1>2. UNCHANGED <<app, backup, restorePod, restores>>
    BY DEF Back!Records, Back!UpgradeStarts, Back!UpgradeScales, Back!UnitApplies
  <1>3. RestoreTypes /\ api \in Back!Objects /\ \A r \in Restores : found[r] \in Back!Objects
    BY DEF Apart, RestoreTypes
  <1>4. /\ api' \in Back!Objects
        /\ api'.release = api.release /\ api'.secret = api.secret /\ api'.jobs = api.jobs
        /\ found' \in [Restores -> Back!Objects]
        /\ \A r \in Restores : found'[r].jobs = found[r].jobs /\ found'[r].secret = found[r].secret
        /\ overruled \subseteq overruled' /\ overruled' \subseteq {"replicas", "schedule"}
    <2>1. CASE Back!UpgradeStarts
      BY <1>3, <2>1 DEF Back!UpgradeStarts, RestoreTypes
    <2>2. CASE Back!UpgradeScales
      BY <1>1, <1>3, <2>2 DEF Back!UpgradeScales, Back!Finds, Back!Overrules, Back!FaultHappens, Back!Objects, RestoreTypes
    <2>3. CASE Back!UnitApplies
      BY <1>1, <1>3, <2>3 DEF Back!UnitApplies, Back!Finds, Back!Overrules, Back!FaultHappens, Back!Objects, RestoreTypes
    <2>4. QED
      BY <2>1, <2>2, <2>3 DEF Back!Records
  <1>5. /\ \A r \in Restores : Back!Overtook(r)' <=> Back!Overtook(r)
        /\ Resumed => Resumed'
        /\ Upset => Upset'
        /\ \A q \in Restores : (Occupied(api, q)' <=> Occupied(api, q)) /\ (Left(api, q)' <=> Left(api, q))
        /\ \A r \in Restores : Active(r)' <=> Active(r)
    <2>1. \A r \in Restores : Back!Overtook(r)' <=> Back!Overtook(r)
      BY <1>4 DEF Back!Overtook
    <2>2. QED
      BY <1>2, <1>4, <2>1 DEF Resumed, Upset, Occupied, Left, Active
  <1>6. \A r \in Restores :
          /\ "replicas" \in restores[r].owes => found'[r].replicas = found[r].replicas
          /\ "backup" \in restores[r].owes => found'[r].schedule = found[r].schedule
          /\ "replicas" \notin restores[r].owes =>
               found'[r].replicas = api'.replicas \/ (api'.replicas = api.replicas /\ found'[r].replicas = found[r].replicas)
          /\ "backup" \notin restores[r].owes =>
               found'[r].schedule = api'.schedule \/ (api'.schedule = api.schedule /\ found'[r].schedule = found[r].schedule)
    <2>1. CASE Back!UpgradeStarts
      BY <1>3, <2>1 DEF Back!UpgradeStarts
    <2>2. CASE Back!UpgradeScales
      BY <1>1, <1>3, <2>2 DEF Back!UpgradeScales, Back!Finds, Back!Objects
    <2>3. CASE Back!UnitApplies
      BY <1>1, <1>3, <2>3 DEF Back!UnitApplies, Back!Finds, Back!Objects
    <2>4. QED
      BY <2>1, <2>2, <2>3 DEF Back!Records
  <1>7. ASSUME NEW r \in Restores, Back!Relies(r, "replicas"), api.release, api.replicas = 0
        PROVE  Upset' \/ api'.replicas = 0
    <2>1. CASE Back!UpgradeScales
      BY <1>1, <1>3, <1>7, <2>1 DEF Back!UpgradeScales, Back!Overrules, Back!Objects, Upset
    <2>2. CASE ~Back!UpgradeScales
      BY <1>3, <1>7, <2>2 DEF Back!Records, Back!UpgradeStarts, Back!UnitApplies, Back!Objects
    <2>3. QED
      BY <2>1, <2>2
  <1>8. ASSUME NEW r \in Restores, Back!Relies(r, "backup"), api.schedule
        PROVE  Resumed' \/ api'.schedule
    <2>1. CASE Back!UnitApplies
      BY <1>8, <2>1 DEF Back!UnitApplies, Back!Overrules, Resumed
    <2>2. CASE ~Back!UnitApplies
      BY <1>3, <1>8, <2>2 DEF Back!Records, Back!UpgradeStarts, Back!UpgradeScales, Back!Objects
    <2>3. QED
      BY <2>1, <2>2
  <1>9. ASSUME NEW q \in Restores, Occupied(api, q)'
        PROVE  Down(api, app)'
    <2>1. Down(api, app) /\ Occupied(api, q)
      BY <1>5, <1>9 DEF Apart
    <2>2. Back!Relies(q, "replicas") /\ Back!Relies(q, "backup")
      BY <2>1 DEF Occupied, Back!Relies, Back!Left
    <2>3. Resumed' \/ api'.schedule
      BY <1>5, <1>8, <2>1, <2>2 DEF Down
    <2>4. Upset' \/ (api'.replicas = 0 /\ ~app' /\ api'.release)
      BY <1>2, <1>4, <1>5, <1>7, <2>1, <2>2 DEF Down
    <2>5. QED
      BY <2>3, <2>4 DEF Down
  <1>10. ASSUME NEW r \in Restores, Active(r)
         PROVE  /\ Stage(api, app, r, restores[r])'
                /\ Accounts(api, found[r], restores[r])'
                /\ \A q \in Restores \ {r} : Occupied(api, q)' => Beside(r, restores[r])'
    <2>1. Stage(api, app, r, restores[r]) /\ Accounts(api, found[r], restores[r])
      BY <1>10 DEF Apart
    <2>2. \A debt \in restores[r].owes : Back!Relies(r, debt)
      BY <1>10 DEF Back!Relies, Back!Active, Active, Inactive
    <2>3. Stage(api, app, r, restores[r])'
      <3>1. "backup" \in restores[r].owes /\ (Resumed \/ api.schedule) => Resumed' \/ api'.schedule
        BY <1>5, <1>8, <2>2
      <3>2. "replicas" \in restores[r].owes /\ api.release /\ (Upset \/ api.replicas = 0) => Upset' \/ api'.replicas = 0
        BY <1>5, <1>7, <2>2
      <3>3. QED
        BY <1>2, <1>4, <1>5, <2>1, <3>1, <3>2 DEF Stage
    <2>4. Accounts(api, found[r], restores[r])'
      BY <1>2, <1>4, <1>6, <2>1 DEF Accounts
    <2>5. ASSUME NEW q \in Restores \ {r}, Occupied(api, q)'
          PROVE  Beside(r, restores[r])'
      <3>1. Beside(r, restores[r])
        BY <1>5, <1>10, <2>5 DEF Apart
      <3>2. QED
        BY <1>2, <1>5, <3>1 DEF Beside
    <2>6. QED
      BY <2>3, <2>4, <2>5
  <1>11. Apart'
    <2>1. RestoreTypes'
      BY <1>2, <1>3, <1>4 DEF RestoreTypes
    <2>2. \A q \in Restores : restores'[q].pc = "idle" => restores'[q].owes = {} /\ ~Back!Overtook(q)'
      BY <1>2, <1>5 DEF Apart
    <2>3. \A q \in Restores : Left(api, q)' => "job" \in restores'[q].owes
      BY <1>2, <1>5 DEF Apart
    <2>4. \A q, r \in Restores : Active(q)' /\ Active(r)' => q = r
      BY <1>5 DEF Apart
    <2>5. QED
      BY <1>5, <1>9, <1>10, <2>1, <2>2, <2>3, <2>4 DEF Apart
  <1>12. \A r \in Restores : ~Back!Ends(r)
    BY <1>2 DEF Back!Ends
  <1>13. QED
    BY <1>2, <1>11, <1>12 DEF Kept, Ending, Back!BackupNotBesideRestore

LEMMA NextKeeps ==
  ASSUME Apart, ~Overlap, Back!Next
  PROVE  Kept
  BY BeginKeeps, StepKeeps, KilledKeeps, PodKeeps, AppAndBackupKeep, RecordsKeep DEF Back!Next

LEMMA AloneNextKeeps ==
  ASSUME Apart, ~Overlap, AloneNext \/ UNCHANGED allvars
  PROVE  Kept
PROOF
  <1>1. Back!Next \/ UNCHANGED restore
    BY DEF AloneNext, allvars
  <1>2. QED
    BY <1>1, NextKeeps, StayKeeps

LEMMA InitApart == Back!Init => Apart
PROOF
  <1> SUFFICES ASSUME Back!Init
               PROVE  Apart
    OBVIOUS
  <1>1. api \in Back!Objects /\ app \in BOOLEAN /\ \A r \in Restores : api.jobs[r] = "none"
    BY DEF Back!Init, Back!Objects, Back!JobStates
  <1>2. RestoreTypes
    BY <1>1 DEF RestoreTypes, Back!Init, Back!Idle, Back!Pods, RunTypes, Stages, Inactive, Back!JobStates
  <1>3. /\ \A q \in Restores : restores[q].pc = "idle" /\ restores[q].owes = {}
        /\ \A q \in Restores : ~Occupied(api, q) /\ ~Left(api, q) /\ ~Back!Overtook(q)
    BY <1>1 DEF Back!Init, Back!Idle, Occupied, Left, Back!Overtook
  <1>4. QED
    BY <1>2, <1>3 DEF Apart, Active, Inactive

-----------------------------------------------------------------------------
(* While restores of an app do not overlap, each stage of a run may rely   *)
(* on what the earlier ones did, and a run owes what it changed; and while *)
(* a Job without its pod, or a pod, is left of any run, the release and    *)
(* the schedule are suspended and the app is scaled to none - but for what *)
(* an upgrade or the app's unit overruled and a Job that a run overtook.   *)
THEOREM RestoreApart == ASSUME ~Overlap PROVE AloneSpec => []Apart
PROOF
  <1>1. AloneInit => Apart
    BY InitApart DEF AloneInit
  <1>2. Apart /\ [AloneNext]_allvars => Apart'
    BY AloneNextKeeps DEF Kept
  <1>3. QED
    BY <1>1, <1>2, PTL DEF AloneSpec

(* While restores of an app do not overlap, however many there are, one    *)
(* after another, and whatever fails or is killed, the app does not run    *)
(* beside a pod that replaces the database, unless an upgrade that was     *)
(* under way set its count or a run overtook another's Job; and no backup  *)
(* starts beside it, unless the app's unit resumed the schedule.           *)
THEOREM NothingBeside == ASSUME ~Overlap PROVE AloneSpec => NothingBesideRestore
PROOF
  <1>1. Apart => Back!AppNotBesideRestore \/ Upset
    BY DEF Apart, Occupied, Down, Back!AppNotBesideRestore, Back!Working
  <1>2. Apart /\ [AloneNext]_allvars => [Back!BackupNotBesideRestore \/ Resumed]_(Back!vars)
    BY AloneNextKeeps DEF Kept
  <1>3. QED
    BY <1>1, <1>2, RestoreApart, PTL DEF AloneSpec, NothingBesideRestore, Back!NothingBesideRestore, Upset, Resumed

(* Then also, what a restore changed - the release, the schedule, the      *)
(* count, the Secret, the Job - and has not put back when it ends is what  *)
(* it says it still owes; the schedule it may say it failed to suspend.    *)
THEOREM NothingIsLeftSilently == ASSUME ~Overlap PROVE AloneSpec => Back!NothingLeftSilently
PROOF
  <1>1. Apart /\ [AloneNext]_allvars => [\A r \in Restores : Ending(r)]_(Back!vars)
    BY AloneNextKeeps DEF Kept
  <1>2. QED
    BY <1>1, RestoreApart, PTL DEF AloneSpec, Back!NothingLeftSilently, Ending

-----------------------------------------------------------------------------
(* What a restore says of the database.  From the creation of its Job on,  *)
(* as long as nothing went wrong, it has yet to hear of the Job or has the *)
(* Job's own word that the database is restored; and no pod of its own is  *)
(* left that would change it again; nor one of another restore, unless the *)
(* run overtook its Job.                                                   *)
Late == {"delete-job", "delete-secret", "backup-resume", "scale-up", "resume", "available"}
AtWork(r) == ~restores[r].undoing /\ restores[r].pc \in {"job-finished", "job-result"} \cup Late

(* What a run that has come to this stage may still owe.                   *)
Still(pc) ==
  {debt \in Owed : /\ debt = "job" => pc = "delete-job"
                   /\ debt = "secret" => pc \in {"delete-job", "delete-secret"}
                   /\ debt = "backup" => pc \in {"delete-job", "delete-secret", "backup-resume"}
                   /\ debt = "replicas" => pc \in {"delete-job", "delete-secret", "backup-resume", "scale-up"}
                   /\ debt = "release" => pc # "available"}

(* How a run, the database, its pod and its Job fit together.              *)
Truthful(me, base, own, job_) ==
  ~me.undoing =>
    /\ me.pc \in {"job-finished", "job-result"} /\ job_ = "complete" => base = "restored" /\ own = "ended"
    /\ me.pc = "job-result" /\ me.answer = "complete" => job_ = "complete"
    /\ me.pc \in Late =>
         /\ base = "restored" /\ own \in {"ended", "none"} /\ job_ \in {"complete", "none"}
         /\ me.owes \subseteq Still(me.pc)

Told == \A r \in Restores : Back!Overtook(r) \/ Truthful(restores[r], db, restorePod[r], api.jobs[r])

(* What a run may go on with.                                              *)
Says(r, me2, job_) ==
  \/ Back!Overtook(r)
  \/ /\ Truthful(me2, db, restorePod[r], job_)
     /\ me2.pc = "ended" /\ ~me2.undoing => db = "restored" /\ me2.owes = {}

Concluding(r) ==
  Back!Ends(r) /\ ~restores'[r].undoing => Back!Overtook(r) \/ (db = "restored" /\ restores'[r].owes = {})
Honest == Told' /\ \A r \in Restores : Concluding(r)

LEMMA RunSays ==
  ASSUME Apart, Told, NEW r \in Restores, NEW me2, restores' = [restores EXCEPT ![r] = me2],
         UNCHANGED <<db, restorePod, found>>, \A q \in Restores \ {r} : api'.jobs[q] = api.jobs[q],
         Says(r, me2, api'.jobs[r])
  PROVE  Honest
PROOF
  <1>1. restores'[r] = me2 /\ \A q \in Restores \ {r} : restores'[q] = restores[q]
    BY DEF Apart, RestoreTypes
  <1>2. \A q \in Restores : Back!Overtook(q)' <=> Back!Overtook(q)
    BY DEF Back!Overtook
  <1>3. ASSUME NEW q \in Restores
        PROVE  Back!Overtook(q)' \/ Truthful(restores'[q], db', restorePod'[q], api'.jobs[q])
    <2>1. CASE q = r
      BY <1>2, <1>1, <2>1 DEF Says
    <2>2. CASE q # r
      <3>1. Back!Overtook(q) \/ Truthful(restores[q], db, restorePod[q], api.jobs[q])
        BY DEF Told
      <3>2. restores'[q] = restores[q] /\ db' = db /\ restorePod'[q] = restorePod[q] /\ api'.jobs[q] = api.jobs[q]
        BY <1>1, <2>2
      <3>3. QED
        BY <1>2, <3>1, <3>2
    <2>3. QED
      BY <2>1, <2>2
  <1>4. ASSUME NEW q \in Restores
        PROVE  Concluding(q)
    <2>1. CASE q = r
      BY <1>1, <2>1 DEF Says, Concluding, Back!Ends
    <2>2. CASE q # r
      BY <1>1, <2>2 DEF Concluding, Back!Ends
    <2>3. QED
      BY <2>1, <2>2
  <1>5. QED
    BY <1>3, <1>4 DEF Honest, Told

LEMMA BackSays ==
  ASSUME NEW r, NEW me \in RunTypes, NEW owes, NEW job_
  PROVE  Says(r, Back!Undone(me, owes), job_)
PROOF
  <1>1. PICK pc, why : Back!Undone(me, owes) = [me EXCEPT !.pc = pc, !.reason = why, !.undoing = TRUE,
                                                          !.asked = FALSE, !.owes = owes]
    BY DEF Back!Undone
  <1>2. Back!Undone(me, owes).undoing
    BY <1>1 DEF RunTypes
  <1>3. QED
    BY <1>2 DEF Says, Truthful

LEMMA NextSays ==
  ASSUME NEW r, NEW me \in RunTypes, NEW owes \in SUBSET Owed, NEW job_, NEW i \in 1 .. 13, me.pc = Back!Order[i],
         \A me2 : ~me.undoing /\ NextStage(me, owes, Back!Order[i + 1], me2) /\ me2.answer = me.answer
                    => Says(r, me2, job_)
  PROVE  Says(r, Back!Advanced(me, owes), job_)
PROOF
  <1>1. CASE me.undoing
    <2>1. Back!Advanced(me, owes) = Back!Undone(me, owes)
      BY <1>1 DEF Back!Advanced
    <2>2. QED
      BY <2>1, BackSays
  <1>2. CASE ~me.undoing
    <2>1. NextStage(me, owes, Back!Order[i + 1], Back!Advanced(me, owes))
      BY <1>2, AdvancedIs
    <2>2. PICK pc : Back!Advanced(me, owes) = [me EXCEPT !.pc = pc, !.asked = FALSE, !.owes = owes]
      BY <1>2 DEF Back!Advanced
    <2>3. Back!Advanced(me, owes).answer = me.answer
      BY <2>2 DEF RunTypes
    <2>4. QED
      BY <1>2, <2>1, <2>3
  <1>3. QED
    BY <1>1, <1>2

(* Until its Job is created a run says nothing.                            *)
LEMMA EarlySays ==
  ASSUME NEW r, NEW me \in RunTypes, NEW owes \in SUBSET Owed, NEW job_, NEW i \in 1 .. 5, me.pc = Back!Order[i]
  PROVE  Says(r, Back!Advanced(me, owes), job_)
PROOF
  <1>1. ASSUME NEW me2, NextStage(me, owes, Back!Order[i + 1], me2)
        PROVE  Says(r, me2, job_)
    <2>1. i = 1 \/ i = 2 \/ i = 3 \/ i = 4 \/ i = 5
      OBVIOUS
    <2>2. me2.pc \in {"backup-suspend", "scale-down", "pods-gone", "secret", "job"}
      BY <1>1, <2>1, OrderIs DEF NextStage
    <2>3. QED
      BY <2>2 DEF Says, Truthful, Late
  <1>2. i \in 1 .. 13
    OBVIOUS
  <1>3. QED
    BY <1>1, <1>2, NextSays

LEMMA WriteSays ==
  ASSUME Apart, Told, NEW r \in Restores, NEW after, NEW done, NEW failed, Back!Write(r, after, done, failed),
         \A q \in Restores \ {r} : after.jobs[q] = api.jobs[q],
         Says(r, done, after.jobs[r]), Says(r, failed, after.jobs[r]), Says(r, failed, api.jobs[r])
  PROVE  Honest
PROOF
  <1>1. UNCHANGED <<db, restorePod, found>>
    BY DEF Back!Write, Back!cluster
  <1>2. PICK me2 \in {done, failed} :
          /\ restores' = [restores EXCEPT ![r] = me2] /\ Says(r, me2, api'.jobs[r])
          /\ \A q \in Restores \ {r} : api'.jobs[q] = api.jobs[q]
    BY DEF Back!Write, Back!Goes
  <1>3. QED
    BY <1>1, <1>2, RunSays

LEMMA StillSays ==
  ASSUME Apart, Told, NEW r \in Restores, NEW me2, Says(r, me2, api.jobs[r]),
         Back!Goes(r, me2), UNCHANGED <<api, Back!cluster, found>>
  PROVE  Honest
PROOF
  <1>1. UNCHANGED <<api, db, restorePod, found>>
    BY DEF Back!cluster
  <1>2. restores' = [restores EXCEPT ![r] = me2] /\ Says(r, me2, api'.jobs[r])
    BY <1>1 DEF Back!Goes
  <1>3. QED
    BY <1>1, <1>2, RunSays

LEMMA WaitSays ==
  ASSUME Apart, Told, NEW r \in Restores, NEW sought, NEW done, NEW late, Back!Wait(r, sought, done, late),
         sought => Says(r, done, api.jobs[r]), Says(r, late, api.jobs[r]),
         Says(r, Back!Undone(restores[r], restores[r].owes), api.jobs[r])
  PROVE  Honest
PROOF
  <1>1. UNCHANGED <<api, Back!cluster, found>>
    BY DEF Back!Wait
  <1>2. PICK me2 \in {done, late, Back!Undone(restores[r], restores[r].owes)} :
          Back!Goes(r, me2) /\ Says(r, me2, api.jobs[r])
    BY DEF Back!Wait
  <1>3. QED
    BY <1>1, <1>2, StillSays

(* What is so of a run under way before its step.                          *)
LEMMA SaidBefore ==
  ASSUME Apart, Told, NEW r \in Restores
  PROVE  /\ restores[r] \in RunTypes /\ restores[r].owes \in SUBSET Owed /\ api \in Back!Objects
         /\ Back!Overtook(r) \/ Truthful(restores[r], db, restorePod[r], api.jobs[r])
  BY DEF Apart, RestoreTypes, RunTypes, Told

LEMMA SuspendSays ==
  ASSUME Apart, Told, NEW r \in Restores, ~Back!Overtook(r), Back!Suspend(r)
  PROVE  Honest
PROOF
  <1> DEFINE me == restores[r]
             owes == me.owes \cup {"release"}
             after == [api EXCEPT !.release = TRUE]
  <1>1. me \in RunTypes /\ owes \in SUBSET Owed /\ after.jobs = api.jobs
    BY SaidBefore DEF Owed, Back!Objects
  <1>2. me.pc = Back!Order[1]
    BY OrderIs DEF Back!Suspend, Back!At
  <1>3. Back!Write(r, after, Back!Advanced(me, owes), Back!Undone(me, owes))
    BY DEF Back!Suspend
  <1> HIDE DEF me, owes, after
  <1>4. Says(r, Back!Advanced(me, owes), after.jobs[r])
    BY <1>1, <1>2, EarlySays
  <1>5. Says(r, Back!Undone(me, owes), after.jobs[r]) /\ Says(r, Back!Undone(me, owes), api.jobs[r])
    BY <1>1, BackSays
  <1>6. QED
    BY <1>1, <1>3, <1>4, <1>5, WriteSays

LEMMA SuspendBackupSays ==
  ASSUME Apart, Told, NEW r \in Restores, ~Back!Overtook(r), Back!SuspendBackup(r)
  PROVE  Honest
PROOF
  <1> DEFINE me == [restores[r] EXCEPT !.wasSuspended = api.schedule]
             owes == me.owes \cup {"backup"}
             after == [api EXCEPT !.schedule = TRUE]
  <1>1. me \in RunTypes /\ me.pc = restores[r].pc /\ after.jobs = api.jobs
    BY SaidBefore DEF RunTypes, Back!Objects
  <1>2. me.pc = Back!Order[2]
    BY <1>1, OrderIs DEF Back!SuspendBackup, Back!At
  <1>3. Back!Write(r, after, Back!Advanced(me, owes), Back!Undone(me, me.owes))
    BY DEF Back!SuspendBackup
  <1>4. owes \in SUBSET Owed
    BY <1>1 DEF RunTypes, Owed
  <1> HIDE DEF me, owes, after
  <1>5. Says(r, Back!Advanced(me, owes), after.jobs[r])
    BY <1>1, <1>2, <1>4, EarlySays
  <1>6. Says(r, Back!Undone(me, me.owes), after.jobs[r]) /\ Says(r, Back!Undone(me, me.owes), api.jobs[r])
    BY <1>1, BackSays
  <1>7. QED
    BY <1>1, <1>3, <1>5, <1>6, WriteSays

LEMMA ScaleDownSays ==
  ASSUME Apart, Told, NEW r \in Restores, ~Back!Overtook(r), Back!ScaleDown(r)
  PROVE  Honest
PROOF
  <1> DEFINE me == restores[r]
             owes == me.owes \cup {"replicas"}
             after == [api EXCEPT !.replicas = 0]
  <1>1. me \in RunTypes /\ owes \in SUBSET Owed /\ after.jobs = api.jobs
    BY SaidBefore DEF Owed, Back!Objects
  <1>2. me.pc = Back!Order[3]
    BY OrderIs DEF Back!ScaleDown, Back!At
  <1>3. Back!Write(r, after, Back!Advanced(me, owes), Back!Undone(me, owes))
    BY DEF Back!ScaleDown
  <1> HIDE DEF me, owes, after
  <1>4. Says(r, Back!Advanced(me, owes), after.jobs[r])
    BY <1>1, <1>2, EarlySays
  <1>5. Says(r, Back!Undone(me, owes), after.jobs[r]) /\ Says(r, Back!Undone(me, owes), api.jobs[r])
    BY <1>1, BackSays
  <1>6. QED
    BY <1>1, <1>3, <1>4, <1>5, WriteSays

LEMMA PodsGoneSays ==
  ASSUME Apart, Told, NEW r \in Restores, ~Back!Overtook(r), Back!PodsGone(r)
  PROVE  Honest
PROOF
  <1> DEFINE me == restores[r]
  <1>1. me \in RunTypes /\ me.owes \in SUBSET Owed
    BY SaidBefore
  <1>2. me.pc = Back!Order[4]
    BY OrderIs DEF Back!PodsGone, Back!At
  <1>3. Back!Wait(r, ~app, Back!Advanced(me, me.owes), Back!Undone(me, me.owes))
    BY DEF Back!PodsGone
  <1> HIDE DEF me
  <1>4. Says(r, Back!Advanced(me, me.owes), api.jobs[r])
    BY <1>1, <1>2, EarlySays
  <1>5. Says(r, Back!Undone(me, me.owes), api.jobs[r])
    BY <1>1, BackSays
  <1>6. QED
    BY <1>3, <1>4, <1>5, WaitSays DEF me

LEMMA CreateSecretSays ==
  ASSUME Apart, Told, NEW r \in Restores, ~Back!Overtook(r), Back!CreateSecret(r)
  PROVE  Honest
PROOF
  <1> DEFINE me == restores[r]
             owes == me.owes \cup {"secret"}
             after == [api EXCEPT !.secret = TRUE]
  <1>1. me \in RunTypes /\ owes \in SUBSET Owed /\ after.jobs = api.jobs
    BY SaidBefore DEF Owed, Back!Objects
  <1>2. me.pc = Back!Order[5]
    BY OrderIs DEF Back!CreateSecret, Back!At
  <1>3. \/ Back!Refused(r, Back!Undone(me, owes))
        \/ Back!Write(r, after, Back!Advanced(me, owes), Back!Undone(me, owes))
    BY DEF Back!CreateSecret
  <1> HIDE DEF me, owes, after
  <1>4. Says(r, Back!Advanced(me, owes), after.jobs[r])
    BY <1>1, <1>2, EarlySays
  <1>5. Says(r, Back!Undone(me, owes), after.jobs[r]) /\ Says(r, Back!Undone(me, owes), api.jobs[r])
    BY <1>1, BackSays
  <1>6. CASE Back!Refused(r, Back!Undone(me, owes))
    <2>1. Back!Goes(r, Back!Undone(me, owes)) /\ UNCHANGED <<api, Back!cluster, found>>
      BY <1>6 DEF Back!Refused
    <2>2. QED
      BY <1>5, <2>1, StillSays
  <1>7. CASE Back!Write(r, after, Back!Advanced(me, owes), Back!Undone(me, owes))
    BY <1>1, <1>4, <1>5, <1>7, WriteSays
  <1>8. QED
    BY <1>3, <1>6, <1>7

(* A Job that was only created has not answered.                           *)
LEMMA CreateJobSays ==
  ASSUME Apart, Told, NEW r \in Restores, ~Back!Overtook(r), Back!CreateJob(r)
  PROVE  Honest
PROOF
  <1> DEFINE me == restores[r]
             owes == me.owes \cup {"job"}
             after == [api EXCEPT !.jobs[r] = "created"]
  <1>1. me \in RunTypes /\ owes \in SUBSET Owed
    BY SaidBefore DEF Owed
  <1>2. me.pc = Back!Order[6]
    BY OrderIs DEF Back!CreateJob, Back!At
  <1>3. Back!Write(r, after, Back!Advanced(me, owes), Back!Undone(me, owes))
    BY DEF Back!CreateJob
  <1>4. after.jobs[r] = "created" /\ \A q \in Restores \ {r} : after.jobs[q] = api.jobs[q]
    BY SaidBefore DEF Back!Objects
  <1> HIDE DEF me, owes, after
  <1>5. ASSUME NEW me2, NextStage(me, owes, Back!Order[6 + 1], me2)
        PROVE  Says(r, me2, after.jobs[r])
    BY <1>4, <1>5, OrderIs DEF NextStage, Says, Truthful, Late
  <1>6. Says(r, Back!Advanced(me, owes), after.jobs[r])
    BY <1>1, <1>2, <1>5, NextSays
  <1>7. Says(r, Back!Undone(me, owes), after.jobs[r]) /\ Says(r, Back!Undone(me, owes), api.jobs[r])
    BY <1>1, BackSays
  <1>8. QED
    BY <1>3, <1>4, <1>6, <1>7, WriteSays

LEMMA WaitForJobSays ==
  ASSUME Apart, Told, NEW r \in Restores, ~Back!Overtook(r), Back!WaitForJob(r)
  PROVE  Honest
PROOF
  <1> DEFINE me == [restores[r] EXCEPT !.answer = api.jobs[r]]
  <1>1. /\ me \in RunTypes /\ me.owes = restores[r].owes /\ me.pc = restores[r].pc
        /\ me.undoing = restores[r].undoing /\ me.answer = api.jobs[r]
    BY SaidBefore DEF RunTypes, Back!Objects
  <1>2. restores[r].pc = "job-finished" /\ me.pc = Back!Order[7] /\ me.owes \in SUBSET Owed
    BY <1>1, SaidBefore, OrderIs DEF Back!WaitForJob, Back!At
  <1>3. /\ Back!Goes(r, Back!Advanced(me, me.owes)) \/ Back!Goes(r, Back!Undone(me, me.owes))
        /\ UNCHANGED <<api, Back!cluster, found>>
    BY DEF Back!WaitForJob
  <1> HIDE DEF me
  <1>4. ASSUME NEW me2, ~me.undoing, NextStage(me, me.owes, Back!Order[7 + 1], me2), me2.answer = me.answer
        PROVE  Says(r, me2, api.jobs[r])
    <2>1. Truthful(restores[r], db, restorePod[r], api.jobs[r])
      BY SaidBefore
    <2>2. me2.pc = "job-result" /\ me2.answer = api.jobs[r]
      BY <1>1, <1>4, OrderIs DEF NextStage
    <2>3. QED
      BY <1>1, <1>2, <1>4, <2>1, <2>2 DEF Says, Truthful, Late
  <1>5. Says(r, Back!Advanced(me, me.owes), api.jobs[r])
    BY <1>1, <1>2, <1>4, NextSays
  <1>6. Says(r, Back!Undone(me, me.owes), api.jobs[r])
    BY <1>1, BackSays
  <1>7. QED
    BY <1>3, <1>5, <1>6, StillSays

(* It goes on only upon a Job's word, which has restored the database.     *)
LEMMA JobResultSays ==
  ASSUME Apart, Told, NEW r \in Restores, ~Back!Overtook(r), Back!JobResult(r)
  PROVE  Honest
PROOF
  <1> DEFINE me == restores[r]
  <1>1. me \in RunTypes /\ me.owes \in SUBSET Owed /\ Truthful(me, db, restorePod[r], api.jobs[r])
    BY SaidBefore
  <1>2. me.pc = "job-result" /\ me.pc = Back!Order[8]
    BY OrderIs DEF Back!JobResult, Back!At
  <1>3. /\ \/ me.answer = "complete" /\ Back!Goes(r, Back!Advanced(me, me.owes))
           \/ Back!Goes(r, Back!Undone(me, me.owes))
        /\ UNCHANGED <<api, Back!cluster, found>>
    BY DEF Back!JobResult
  <1> HIDE DEF me
  <1>4. ASSUME me.answer = "complete",
               NEW me2, ~me.undoing, NextStage(me, me.owes, Back!Order[8 + 1], me2)
        PROVE  Says(r, me2, api.jobs[r])
    <2>1. me2.pc = "delete-job" /\ me2.owes \in SUBSET Owed
      BY <1>1, <1>4, OrderIs DEF NextStage
    <2>2. db = "restored" /\ restorePod[r] = "ended" /\ api.jobs[r] = "complete"
      BY <1>1, <1>2, <1>4 DEF Truthful
    <2>3. QED
      BY <2>1, <2>2 DEF Says, Truthful, Late, Still
  <1>5. ASSUME me.answer = "complete"
        PROVE  Says(r, Back!Advanced(me, me.owes), api.jobs[r])
    BY <1>1, <1>2, <1>4, <1>5, NextSays
  <1>6. Says(r, Back!Undone(me, me.owes), api.jobs[r])
    BY <1>1, BackSays
  <1>7. QED
    BY <1>3, <1>5, <1>6, StillSays

(* While it puts the app back a run has the Job's word, and owes ever less. *)
LEMMA DeleteJobSays ==
  ASSUME Apart, Told, NEW r \in Restores, ~Back!Overtook(r), Back!DeleteJob(r)
  PROVE  Honest
PROOF
  <1> DEFINE me == restores[r]
             done == [me EXCEPT !.asked = TRUE]
             after == [api EXCEPT !.jobs[r] = "none"]
  <1>1. me \in RunTypes /\ Truthful(me, db, restorePod[r], api.jobs[r])
    BY SaidBefore
  <1>2. me.pc = "delete-job" /\ Back!Write(r, after, done, Back!Undone(me, me.owes))
    BY DEF Back!DeleteJob, Back!At
  <1>3. after.jobs[r] = "none" /\ \A q \in Restores \ {r} : after.jobs[q] = api.jobs[q]
    BY SaidBefore DEF Back!Objects
  <1>4. done.pc = me.pc /\ done.undoing = me.undoing /\ done.owes = me.owes /\ done.answer = me.answer
    BY <1>1 DEF RunTypes
  <1> HIDE DEF me, done, after
  <1>5. Says(r, done, after.jobs[r])
    BY <1>1, <1>2, <1>3, <1>4 DEF Says, Truthful, Late
  <1>6. Says(r, Back!Undone(me, me.owes), after.jobs[r]) /\ Says(r, Back!Undone(me, me.owes), api.jobs[r])
    BY <1>1, BackSays
  <1>7. QED
    BY <1>2, <1>3, <1>5, <1>6, WriteSays

LEMMA LateSays ==
  ASSUME NEW r \in Restores, NEW me \in RunTypes, NEW owes \in SUBSET Owed, NEW i \in 9 .. 13, me.pc = Back!Order[i],
         Truthful(me, db, restorePod[r], api.jobs[r]),
         \A debt \in owes : debt \in me.owes /\ debt # Back!Debts[i - 8]
  PROVE  Says(r, Back!Advanced(me, owes), api.jobs[r])
PROOF
  <1>1. i \in 1 .. 13 /\ (i = 9 \/ i = 10 \/ i = 11 \/ i = 12 \/ i = 13)
    OBVIOUS
  <1>2. ASSUME NEW me2, ~me.undoing, NextStage(me, owes, Back!Order[i + 1], me2), NEW gone, gone = Back!Debts[i - 8]
        PROVE  Says(r, me2, api.jobs[r])
    <2>1. me2.owes = owes /\ me2.pc = Back!Order[i + 1]
      BY <1>2 DEF NextStage
    <2>2. /\ me.pc \in Late /\ me2.pc \in Late
          /\ \A debt \in Still(me.pc) : debt # gone => debt \in Still(me2.pc)
      <3>1. CASE i = 9
        BY <1>2, <2>1, <3>1, OrderIs, UndoOrderIs DEF Late, Still, Owed
      <3>2. CASE i = 10
        BY <1>2, <2>1, <3>2, OrderIs, UndoOrderIs DEF Late, Still, Owed
      <3>3. CASE i = 11
        BY <1>2, <2>1, <3>3, OrderIs, UndoOrderIs DEF Late, Still, Owed
      <3>4. CASE i = 12
        BY <1>2, <2>1, <3>4, OrderIs, UndoOrderIs DEF Late, Still, Owed
      <3>5. CASE i = 13
        BY <1>2, <2>1, <3>5, OrderIs, UndoOrderIs DEF Late, Still, Owed
      <3>6. QED
        BY <1>1, <3>1, <3>2, <3>3, <3>4, <3>5
    <2>3. db = "restored" /\ restorePod[r] \in {"ended", "none"} /\ api.jobs[r] \in {"complete", "none"}
          /\ me.owes \subseteq Still(me.pc)
      BY <1>2, <2>2 DEF Truthful
    <2>4. me2.owes \subseteq Still(me2.pc)
      BY <1>2, <2>1, <2>2, <2>3
    <2>5. QED
      BY <2>2, <2>3, <2>4 DEF Says, Truthful, Late
  <1>3. QED
    BY <1>1, <1>2, NextSays

LEMMA JobPodGoneSays ==
  ASSUME Apart, Told, NEW r \in Restores, ~Back!Overtook(r), Back!JobPodGone(r)
  PROVE  Honest
PROOF
  <1> DEFINE me == restores[r]
             owes == me.owes \ {"job"}
             late == [Back!Undone(me, me.owes) EXCEPT !.expired = me.undoing]
  <1>1. me \in RunTypes /\ owes \in SUBSET Owed /\ Truthful(me, db, restorePod[r], api.jobs[r])
    BY SaidBefore
  <1>2. me.pc = Back!Order[9]
    BY OrderIs DEF Back!JobPodGone, Back!At
  <1>3. Back!Wait(r, restorePod[r] = "none", Back!Advanced(me, owes), late)
    BY DEF Back!JobPodGone
  <1>4. Says(r, Back!Undone(me, me.owes), api.jobs[r])
    BY <1>1, BackSays
  <1>5. Says(r, late, api.jobs[r])
    <2>1. PICK pc, why : Back!Undone(me, me.owes) = [me EXCEPT !.pc = pc, !.reason = why, !.undoing = TRUE,
                                                               !.asked = FALSE, !.owes = me.owes]
      BY DEF Back!Undone
    <2>2. late.undoing
      BY <1>1, <2>1 DEF RunTypes
    <2>3. QED
      BY <2>2 DEF Says, Truthful
  <1>6. \A debt \in owes : debt \in me.owes /\ debt # Back!Debts[9 - 8]
    BY UndoOrderIs
  <1> HIDE DEF me, owes, late
  <1>7. Says(r, Back!Advanced(me, owes), api.jobs[r])
    BY <1>1, <1>2, <1>6, LateSays
  <1>8. QED
    BY <1>3, <1>4, <1>5, <1>7, WaitSays DEF me

LEMMA DeleteSecretSays ==
  ASSUME Apart, Told, NEW r \in Restores, ~Back!Overtook(r), Back!DeleteSecret(r)
  PROVE  Honest
PROOF
  <1> DEFINE me == restores[r]
             owes == me.owes \ {"secret"}
             after == [api EXCEPT !.secret = FALSE]
  <1>1. /\ me \in RunTypes /\ owes \in SUBSET Owed /\ Truthful(me, db, restorePod[r], api.jobs[r])
        /\ after.jobs = api.jobs
    BY SaidBefore DEF Back!Objects
  <1>2. me.pc = Back!Order[10]
    BY OrderIs DEF Back!DeleteSecret, Back!At
  <1>3. Back!Write(r, after, Back!Advanced(me, owes), Back!Undone(me, me.owes))
    BY DEF Back!DeleteSecret
  <1>4. \A debt \in owes : debt \in me.owes /\ debt # Back!Debts[10 - 8]
    BY UndoOrderIs
  <1> HIDE DEF me, owes, after
  <1>5. Says(r, Back!Advanced(me, owes), api.jobs[r])
    BY <1>1, <1>2, <1>4, LateSays
  <1>6. Says(r, Back!Undone(me, me.owes), api.jobs[r])
    BY <1>1, BackSays
  <1>7. QED
    BY <1>1, <1>3, <1>5, <1>6, WriteSays

LEMMA ResumeBackupSays ==
  ASSUME Apart, Told, NEW r \in Restores, ~Back!Overtook(r), Back!ResumeBackup(r)
  PROVE  Honest
PROOF
  <1> DEFINE me == restores[r]
             owes == me.owes \ {"backup"}
             after == [api EXCEPT !.schedule = FALSE]
  <1>1. /\ me \in RunTypes /\ owes \in SUBSET Owed /\ Truthful(me, db, restorePod[r], api.jobs[r])
        /\ after.jobs = api.jobs
    BY SaidBefore DEF Back!Objects
  <1>2. me.pc = Back!Order[11]
    BY OrderIs DEF Back!ResumeBackup, Back!At
  <1>3. \/ Back!Refused(r, Back!Advanced(me, owes))
        \/ Back!Write(r, after, Back!Advanced(me, owes), Back!Undone(me, me.owes))
    BY DEF Back!ResumeBackup
  <1>4. \A debt \in owes : debt \in me.owes /\ debt # Back!Debts[11 - 8]
    BY UndoOrderIs
  <1> HIDE DEF me, owes, after
  <1>5. Says(r, Back!Advanced(me, owes), api.jobs[r])
    BY <1>1, <1>2, <1>4, LateSays
  <1>6. Says(r, Back!Undone(me, me.owes), api.jobs[r])
    BY <1>1, BackSays
  <1>7. CASE Back!Refused(r, Back!Advanced(me, owes))
    <2>1. Back!Goes(r, Back!Advanced(me, owes)) /\ UNCHANGED <<api, Back!cluster, found>>
      BY <1>7 DEF Back!Refused
    <2>2. QED
      BY <1>5, <2>1, StillSays
  <1>8. CASE Back!Write(r, after, Back!Advanced(me, owes), Back!Undone(me, me.owes))
    BY <1>1, <1>5, <1>6, <1>8, WriteSays
  <1>9. QED
    BY <1>3, <1>7, <1>8

LEMMA ScaleUpSays ==
  ASSUME Apart, Told, NEW r \in Restores, ~Back!Overtook(r), Back!ScaleUp(r)
  PROVE  Honest
PROOF
  <1> DEFINE me == restores[r]
             owes == me.owes \ {"replicas"}
             after == [api EXCEPT !.replicas = me.replicas]
  <1>1. /\ me \in RunTypes /\ owes \in SUBSET Owed /\ Truthful(me, db, restorePod[r], api.jobs[r])
        /\ after.jobs = api.jobs
    BY SaidBefore DEF Back!Objects
  <1>2. me.pc = Back!Order[12]
    BY OrderIs DEF Back!ScaleUp, Back!At
  <1>3. Back!Write(r, after, Back!Advanced(me, owes), Back!Undone(me, me.owes))
    BY DEF Back!ScaleUp
  <1>4. \A debt \in owes : debt \in me.owes /\ debt # Back!Debts[12 - 8]
    BY UndoOrderIs
  <1> HIDE DEF me, owes, after
  <1>5. Says(r, Back!Advanced(me, owes), api.jobs[r])
    BY <1>1, <1>2, <1>4, LateSays
  <1>6. Says(r, Back!Undone(me, me.owes), api.jobs[r])
    BY <1>1, BackSays
  <1>7. QED
    BY <1>1, <1>3, <1>5, <1>6, WriteSays

LEMMA ResumeSays ==
  ASSUME Apart, Told, NEW r \in Restores, ~Back!Overtook(r), Back!Resume(r)
  PROVE  Honest
PROOF
  <1> DEFINE me == restores[r]
             owes == me.owes \ {"release"}
             after == [api EXCEPT !.release = FALSE]
  <1>1. /\ me \in RunTypes /\ owes \in SUBSET Owed /\ Truthful(me, db, restorePod[r], api.jobs[r])
        /\ after.jobs = api.jobs
    BY SaidBefore DEF Back!Objects
  <1>2. me.pc = Back!Order[13]
    BY OrderIs DEF Back!Resume, Back!At
  <1>3. Back!Write(r, after, Back!Advanced(me, owes), Back!Undone(me, me.owes))
    BY DEF Back!Resume
  <1>4. \A debt \in owes : debt \in me.owes /\ debt # Back!Debts[13 - 8]
    BY UndoOrderIs
  <1> HIDE DEF me, owes, after
  <1>5. Says(r, Back!Advanced(me, owes), api.jobs[r])
    BY <1>1, <1>2, <1>4, LateSays
  <1>6. Says(r, Back!Undone(me, me.owes), api.jobs[r])
    BY <1>1, BackSays
  <1>7. QED
    BY <1>1, <1>3, <1>5, <1>6, WriteSays

(* Its last step: the database is restored, and nothing is owed any more.  *)
LEMMA WaitForRolloutSays ==
  ASSUME Apart, Told, NEW r \in Restores, ~Back!Overtook(r), Back!WaitForRollout(r)
  PROVE  Honest
PROOF
  <1> DEFINE me == restores[r]
  <1>1. /\ me \in RunTypes /\ me.owes \in SUBSET Owed /\ Truthful(me, db, restorePod[r], api.jobs[r])
    BY SaidBefore
  <1>2. me.pc = "available" /\ ~me.undoing
    BY DEF Back!WaitForRollout, Back!At, Apart, Active, Inactive, Stage, Undoes
  <1>3. Back!Wait(r, api.replicas = 0 \/ app, Back!Advanced(me, me.owes), Back!Undone(me, me.owes))
    BY DEF Back!WaitForRollout
  <1> HIDE DEF me
  <1>4. db = "restored" /\ me.owes = {}
    BY <1>1, <1>2 DEF Truthful, Late, Still, Owed
  <1>5. Says(r, Back!Advanced(me, me.owes), api.jobs[r])
    <2>1. NextStage(me, me.owes, "ended", Back!Advanced(me, me.owes))
      BY <1>1, <1>2, LastIs
    <2>2. QED
      BY <1>4, <2>1 DEF NextStage, Says, Truthful, Late
  <1>6. Says(r, Back!Undone(me, me.owes), api.jobs[r])
    BY <1>1, BackSays
  <1>7. QED
    BY <1>3, <1>5, <1>6, WaitSays DEF me

(* A run that overtook another's Job may say anything.                     *)
LEMMA OvertookSays ==
  ASSUME Apart, Told, NEW r \in Restores, Back!Overtook(r), Back!Step(r)
  PROVE  Honest
PROOF
  <1>1. api \in Back!Objects
    BY DEF Apart, RestoreTypes
  <1>2. UNCHANGED <<db, restorePod, found>>
    BY DEF Back!Step, Back!TakeDown, Back!PutBack, Back!Suspend, Back!SuspendBackup, Back!ScaleDown, Back!PodsGone,
           Back!CreateSecret, Back!CreateJob, Back!WaitForJob, Back!JobResult, Back!DeleteJob, Back!JobPodGone,
           Back!DeleteSecret, Back!ResumeBackup, Back!ScaleUp, Back!Resume, Back!WaitForRollout,
           Back!Write, Back!Wait, Back!Refused, Back!cluster
  <1>3. \E me2 : restores' = [restores EXCEPT ![r] = me2]
    BY DEF Back!Step, Back!TakeDown, Back!PutBack, Back!Suspend, Back!SuspendBackup, Back!ScaleDown, Back!PodsGone,
           Back!CreateSecret, Back!CreateJob, Back!WaitForJob, Back!JobResult, Back!DeleteJob, Back!JobPodGone,
           Back!DeleteSecret, Back!ResumeBackup, Back!ScaleUp, Back!Resume, Back!WaitForRollout,
           Back!Write, Back!Wait, Back!Refused, Back!Goes
  <1>4. \A q \in Restores \ {r} : api'.jobs[q] = api.jobs[q]
    BY <1>1 DEF Back!Step, Back!TakeDown, Back!PutBack, Back!Suspend, Back!SuspendBackup, Back!ScaleDown, Back!PodsGone,
           Back!CreateSecret, Back!CreateJob, Back!WaitForJob, Back!JobResult, Back!DeleteJob, Back!JobPodGone,
           Back!DeleteSecret, Back!ResumeBackup, Back!ScaleUp, Back!Resume, Back!WaitForRollout,
           Back!Write, Back!Wait, Back!Refused, Back!Objects
  <1>5. PICK me2 : restores' = [restores EXCEPT ![r] = me2]
    BY <1>3
  <1>6. Says(r, me2, api'.jobs[r])
    BY DEF Says
  <1>7. QED
    BY <1>2, <1>4, <1>5, <1>6, RunSays

LEMMA StepSays ==
  ASSUME Apart, Told, NEW r \in Restores, Back!Step(r)
  PROVE  Honest
PROOF
  <1>1. CASE Back!Overtook(r)
    BY <1>1, OvertookSays
  <1>2. CASE ~Back!Overtook(r)
    BY <1>2, SuspendSays, SuspendBackupSays, ScaleDownSays, PodsGoneSays, CreateSecretSays, CreateJobSays,
       WaitForJobSays, JobResultSays, DeleteJobSays, JobPodGoneSays, DeleteSecretSays, ResumeBackupSays,
       ScaleUpSays, ResumeSays, WaitForRolloutSays
       DEF Back!Step, Back!TakeDown, Back!PutBack
  <1>3. QED
    BY <1>1, <1>2

LEMMA KilledSays ==
  ASSUME Apart, Told, NEW r \in Restores, Back!Killed(r)
  PROVE  Honest
PROOF
  <1> DEFINE me2 == [restores[r] EXCEPT !.pc = "killed"]
  <1>1. Back!Goes(r, me2) /\ UNCHANGED <<api, Back!cluster, found>>
    BY DEF Back!Killed
  <1>2. me2.pc = "killed"
    BY SaidBefore DEF RunTypes
  <1> HIDE DEF me2
  <1>3. Says(r, me2, api.jobs[r])
    BY <1>2 DEF Says, Truthful, Late
  <1>4. QED
    BY <1>1, <1>3, StillSays

LEMMA BeginSays ==
  ASSUME Apart, Told, NEW r \in Restores, Back!Begin(r)
  PROVE  Honest
PROOF
  <1>1. PICK me2 \in {[Back!Idle EXCEPT !.pc = "suspend", !.replicas = api.replicas], [Back!Idle EXCEPT !.pc = "refused"]} :
          restores' = [restores EXCEPT ![r] = me2] /\ UNCHANGED <<api, db, restorePod>>
    BY DEF Back!Begin, Back!Goes, Back!cluster
  <1>2. me2.pc \in {"suspend", "refused"}
    BY DEF Back!Idle
  <1>3. restores'[r] = me2 /\ \A q \in Restores \ {r} : restores'[q] = restores[q] /\ found'[q] = found[q]
    BY <1>1 DEF Back!Begin, Apart, RestoreTypes
  <1>4. ASSUME NEW q \in Restores
        PROVE  Back!Overtook(q)' \/ Truthful(restores'[q], db', restorePod'[q], api'.jobs[q])
    <2>1. CASE q = r
      BY <1>2, <1>3, <2>1 DEF Truthful, Late
    <2>2. CASE q # r
      <3>1. Back!Overtook(q) \/ Truthful(restores[q], db, restorePod[q], api.jobs[q])
        BY DEF Told
      <3>2. Back!Overtook(q)' <=> Back!Overtook(q)
        BY <1>3, <2>2 DEF Back!Overtook
      <3>3. restores'[q] = restores[q]
        BY <1>3, <2>2
      <3>4. QED
        BY <1>1, <3>1, <3>2, <3>3
    <2>3. QED
      BY <2>1, <2>2
  <1>5. \A q \in Restores : Concluding(q)
    BY <1>2, <1>3 DEF Concluding, Back!Ends
  <1>6. QED
    BY <1>4, <1>5 DEF Honest, Told

(* A step of the cluster.  Of a run at work only its own pod changes the   *)
(* database, and none once its Job is complete.                            *)
LEMMA AroundSays ==
  ASSUME Apart, Told, UNCHANGED restores,
         \A r \in Restores : Back!Overtook(r)' <=> Back!Overtook(r),
         \A r \in Restores :
           ~Back!Overtook(r) /\ AtWork(r) /\ Truthful(restores[r], db, restorePod[r], api.jobs[r])
             => Truthful(restores[r], db', restorePod'[r], api'.jobs[r])
  PROVE  Honest
PROOF
  <1>1. ASSUME NEW r \in Restores, ~Back!Overtook(r)
        PROVE  Truthful(restores'[r], db', restorePod'[r], api'.jobs[r])
    <2>1. CASE AtWork(r)
      BY <1>1, <2>1 DEF Told
    <2>2. CASE ~AtWork(r)
      BY <2>2 DEF AtWork, Truthful
    <2>3. QED
      BY <2>1, <2>2
  <1>2. \A r \in Restores : Concluding(r)
    BY DEF Concluding, Back!Ends
  <1>3. QED
    BY <1>1, <1>2 DEF Honest, Told

LEMMA AppAndBackupSay ==
  ASSUME Apart, Told, Back!AppStarts \/ Back!AppStops \/ Back!BackupStarts \/ Back!BackupEnds
  PROVE  Honest
PROOF
  <1>1. UNCHANGED <<api, restorePod, restores, found>> /\ (db = "restored" => db' = "restored")
    BY DEF Back!AppStarts, Back!AppStops, Back!BackupStarts, Back!BackupEnds, Back!beside
  <1>2. \A r \in Restores : Truthful(restores[r], db, restorePod[r], api.jobs[r])
                            => Truthful(restores[r], db', restorePod'[r], api'.jobs[r])
    BY <1>1 DEF Truthful
  <1>3. \A r \in Restores : Back!Overtook(r)' <=> Back!Overtook(r)
    BY <1>1 DEF Back!Overtook
  <1>4. QED
    BY <1>1, <1>2, <1>3, AroundSays

LEMMA RecordsSay ==
  ASSUME Apart, Told, Back!Records
  PROVE  Honest
PROOF
  <1>1. UNCHANGED <<restorePod, restores, db>>
    BY DEF Back!Records, Back!UpgradeStarts, Back!UpgradeScales, Back!UnitApplies
  <1>2. api \in Back!Objects /\ \A r \in Restores : found[r] \in Back!Objects
    BY DEF Apart, RestoreTypes
  <1>3. api'.jobs = api.jobs /\ \A r \in Restores : found'[r].jobs = found[r].jobs
    BY <1>2 DEF Back!Records, Back!UpgradeStarts, Back!UpgradeScales, Back!UnitApplies, Back!Finds, Back!Objects
  <1>4. \A r \in Restores : Back!Overtook(r)' <=> Back!Overtook(r)
    BY <1>3 DEF Back!Overtook
  <1>5. \A r \in Restores : Truthful(restores[r], db, restorePod[r], api.jobs[r])
                            => Truthful(restores[r], db', restorePod'[r], api'.jobs[r])
    BY <1>1, <1>3 DEF Truthful
  <1>6. QED
    BY <1>1, <1>4, <1>5, AroundSays

(* The pod of another's Job would have been overtaken.                     *)
LEMMA PodSays ==
  ASSUME Apart, Told, NEW q \in Restores, Back!Pod(q)
  PROVE  Honest
PROOF
  <1>1. api \in Back!Objects /\ restorePod \in [Restores -> Back!Pods]
    BY DEF Apart, RestoreTypes
  <1>2. UNCHANGED <<restores, found>>
    BY DEF Back!Pod, Back!PodCreated, Back!PodStarts, Back!PodMoves, Back!PodSwaps, Back!PodFails, Back!PodGoes,
           Back!beside
  <1>3. ASSUME NEW r \in Restores, ~Back!Overtook(r), AtWork(r),
               Truthful(restores[r], db, restorePod[r], api.jobs[r])
        PROVE  Truthful(restores[r], db', restorePod'[r], api'.jobs[r])
    <2>1. CASE Back!PodCreated(q)
      BY <1>1, <1>3, <2>1 DEF Back!PodCreated, Back!PodTo, Back!Objects, Truthful, Late
    <2>2. CASE Back!PodStarts(q)
      BY <1>1, <1>3, <2>2 DEF Back!PodStarts, Back!PodTo, Truthful, Late
    <2>3. CASE Back!PodMoves(q)
      <3>1. CASE q = r
        BY <1>1, <1>3, <2>3, <3>1 DEF Back!PodMoves, Back!PodTo, Truthful, Late
      <3>2. CASE q # r
        <4>1. Active(r)
          BY <1>3 DEF AtWork, Active, Inactive, Late
        <4>2. Occupied(api, q)
          BY <2>3 DEF Back!PodMoves, Occupied
        <4>3. Beside(r, restores[r])
          BY <3>2, <4>1, <4>2 DEF Apart
        <4>4. QED
          BY <1>3, <4>3 DEF Beside
      <3>3. QED
        BY <3>1, <3>2
    <2>4. CASE Back!PodSwaps(q)
      BY <1>1, <1>3, <2>4 DEF Back!PodSwaps, Back!PodTo, Back!Answered, Back!Objects, Truthful, Late
    <2>5. CASE Back!PodFails(q)
      BY <1>1, <1>3, <2>5 DEF Back!PodFails, Back!Answered, Back!Objects, Truthful, Late
    <2>6. CASE Back!PodGoes(q)
      BY <1>1, <1>3, <2>6 DEF Back!PodGoes, Back!PodTo, Truthful, Late
    <2>7. QED
      BY <2>1, <2>2, <2>3, <2>4, <2>5, <2>6 DEF Back!Pod
  <1>4. \A r \in Restores : Back!Overtook(r)' <=> Back!Overtook(r)
    BY <1>2 DEF Back!Overtook
  <1>5. QED
    BY <1>2, <1>3, <1>4, AroundSays

LEMMA SaysNext ==
  ASSUME Apart, Told, AloneNext \/ UNCHANGED allvars
  PROVE  Honest
PROOF
  <1>1. CASE Back!Next
    BY <1>1, BeginSays, StepSays, KilledSays, PodSays, AppAndBackupSay, RecordsSay DEF Back!Next
  <1>2. CASE UNCHANGED restore
    <2>1. UNCHANGED <<api, restorePod, restores, db, found>>
      BY <1>2 DEF restore
    <2>2. \A r \in Restores : Back!Overtook(r)' <=> Back!Overtook(r)
      BY <2>1 DEF Back!Overtook
    <2>3. QED
      BY <2>1, <2>2, AroundSays
  <1>3. QED
    BY <1>1, <1>2 DEF AloneNext, allvars

(* A restore that says at its end that it restored the database did, and   *)
(* owes nothing, unless it overtook another's Job; and what it changed and *)
(* did not put back - the schedule too - it says it owes, or it says that  *)
(* it failed to suspend the schedule.                                      *)
THEOREM AccountHolds == ASSUME ~Overlap PROVE AloneSpec => AccountIsTrue
PROOF
  <1>1. AloneInit => Told
    BY DEF AloneInit, Back!Init, Back!Idle, Told, Truthful, Late
  <1>2. Apart /\ Told /\ [AloneNext]_allvars => Told'
    BY SaysNext DEF Honest
  <1>3. Apart /\ Told /\ [AloneNext]_allvars => [\A r \in Restores : Concluding(r)]_(Back!vars)
    BY SaysNext DEF Honest
  <1>4. AloneSpec => Back!RestoredMeansRestored
    BY <1>1, <1>2, <1>3, RestoreApart, PTL DEF AloneSpec, Back!RestoredMeansRestored, Concluding
  <1>5. QED
    BY <1>4, NothingIsLeftSilently DEF AccountIsTrue, Back!AccountIsTrue

-----------------------------------------------------------------------------
(***************************************************************************)
(* One job of the console per target, and none forgotten while it runs,    *)
(* for any number of pods, jobs, units and records kept, while no request  *)
(* is accepted by a pod being stopped and no read or write fails.          *)
(*                                                                         *)
(* The argument: only the last pod accepts jobs, and it starts when no     *)
(* first record of a job is on its way, so it knows of every job that      *)
(* another pod still runs.  It numbers its jobs above every number the     *)
(* store, any pod's memory or any patch names: what is still on its way    *)
(* for an older job reaches no record of a running one, and what a patch   *)
(* forgets is older than its own job and runs no more.                     *)
(***************************************************************************)


Accepted == {r \in Runs : job[r].thread # "none"}
Live(r) == job[r].thread \notin {"none", "dead"}
Held(records) == {i \in Ids : records[i] # NoRecord}

-----------------------------------------------------------------------------
(* Types, and what holds in trouble too.                                   *)

Threads == {"none", "starting", "working", "ended", "saving", "over", "dead"}
JobType == [pod : Pods \cup {0}, id : Ids \cup {0}, unit : Units, state : States, thread : Threads]
Counts == [late : Nat, crashes : Nat, restarts : Nat, faults : Nat]

(* A number and the job that has it.                                       *)
Cited(i, r) == r \in Runs /\ job[r].thread # "none" /\ job[r].id = i
Names(records) == \A i \in Held(records) : Cited(i, records[i].run)
Named ==
  /\ Names(store) /\ \A p \in Pods : Names(before[p])
  /\ \A w \in patches : Cited(w.id, w.record.run)

(* Jobs are numbered no faster than they are accepted.                     *)
Counted ==
  /\ \A p \in Pods : nextId[p] <= Cardinality(Accepted) + 1
  /\ \A r \in Accepted : job[r].id \in 1 .. Cardinality(Accepted)

(* A pod is followed only by pods that start once it is being stopped.     *)
Chain == \A p, q \in Pods : q < p /\ pod[p] # "none" => pod[q] \notin {"none", "up"}

JobOK(r) ==
  /\ job[r].thread = "none" => job[r].pod = 0
  /\ job[r].thread # "none" => job[r].pod \in Pods /\ pod[job[r].pod] # "none"
  /\ Live(r) => Alive(job[r].pod)
  /\ Running(r) => job[r].state = "running"
JobsOK == \A r \in Runs : JobOK(r)

(* A job starts while its first record is on its way, and no other one is. *)
First(w, r) == w.writer = "start" /\ w.record.run = r
Starts ==
  /\ \A r \in Runs : job[r].thread = "starting" => \E w \in patches : First(w, r)
  /\ \A w \in patches : w.writer = "start" =>
       /\ job[w.record.run].thread \in {"starting", "dead"}
       /\ w.by = job[w.record.run].pod /\ w.record.state = "running"
  /\ \A r \in Runs : \A v, w \in patches : First(v, r) /\ First(w, r) => v = w

(* A last record is on its way, or was, for no job that goes on.            *)
Finals == \A w \in patches : w.writer = "final" => job[w.record.run].thread \in {"saving", "over", "dead"}

Typed == TypeOK /\ bounds \in Counts
Always == Typed /\ Named /\ Counted /\ Chain /\ JobsOK /\ Starts /\ Finals

(* No job but an accepted one gets another pod, number or unit.            *)
JobMoves ==
  /\ job' \in [Runs -> JobType]
  /\ \A r \in Runs : job[r].thread # "none" =>
       /\ job'[r].thread # "none"
       /\ job'[r].pod = job[r].pod /\ job'[r].id = job[r].id /\ job'[r].unit = job[r].unit

LEMMA Facts ==
  ASSUME Always
  PROVE  /\ pod \in [Pods -> {"none", "up", "stopping", "draining", "ended", "gone"}]
         /\ before \in [Pods -> [Ids -> Records]]
         /\ nextId \in [Pods -> Ids]
         /\ job \in [Runs -> JobType]
         /\ store \in [Ids -> Records]
         /\ patches \subseteq Patches
         /\ bounds \in Counts
  BY DEF Always, Typed, TypeOK, JobType, Threads

LEMMA Sizes ==
  ASSUME Always
  PROVE  /\ IsFiniteSet(Runs) /\ Cardinality(Runs) \in Nat
         /\ Accepted \subseteq Runs /\ IsFiniteSet(Accepted) /\ Cardinality(Accepted) \in Nat
         /\ Cardinality(Accepted) <= Cardinality(Runs)
         /\ Ids = 1 .. Cardinality(Runs) + 1
         /\ 0 \notin Runs /\ Pods \subseteq Nat /\ MaxPods \in Nat
PROOF
  <1>1. IsFiniteSet(Runs) /\ Runs \subseteq Nat \ {0} /\ MaxPods \in Nat
    BY JobsAssumption
  <1>2. Accepted \subseteq Runs
    BY DEF Accepted
  <1>3. IsFiniteSet(Accepted) /\ Cardinality(Accepted) <= Cardinality(Runs)
    BY <1>1, <1>2, FS_Subset
  <1>4. Cardinality(Accepted) \in Nat /\ Cardinality(Runs) \in Nat
    BY <1>1, <1>3, FS_CardinalityType
  <1> QED BY <1>1, <1>2, <1>3, <1>4 DEF Ids, Pods

LEMMA CitedStays ==
  ASSUME JobMoves, NEW i, NEW r, Cited(i, r)
  PROVE  Cited(i, r)'
  BY DEF JobMoves, Cited

(* The same after the step.                                                *)
CitedNext(i, r) == r \in Runs /\ job'[r].thread # "none" /\ job'[r].id = i

LEMMA CitedGoesOn ==
  ASSUME JobMoves, NEW i, NEW r, Cited(i, r)
  PROVE  CitedNext(i, r)
  BY DEF JobMoves, Cited, CitedNext

LEMMA AcceptedGrows ==
  ASSUME JobMoves
  PROVE  Accepted \subseteq Accepted'
  BY DEF JobMoves, Accepted

(* What a pod reads, and what it saves of it.                              *)
Based(p, base) ==
  base \in [Ids -> Records] /\ \A i \in Ids : base[i] \in {NoRecord, before[p][i], store[i]}

LEMMA RecordsTyped ==
  /\ NoRecord \in Records
  /\ [i \in Ids |-> NoRecord] \in [Ids -> Records]
  BY DEF NoRecord, Records, States

LEMMA BasedOn ==
  ASSUME Always, NEW p \in Pods, NEW read \in Reads(p) \cup Loads(p)
  PROVE  \E base : /\ Based(p, base)
                   /\ read.seen \in {base, Settled(base)}
                   /\ read.patches \in {{}, SettlePatches(p, base)}
                   /\ read.faults \in {0, 1}
PROOF
  <1>0. before[p] \in [Ids -> Records] /\ store \in [Ids -> Records]
    BY Facts
  <1>1. Based(p, before[p]) /\ Based(p, store)
    BY <1>0 DEF Based
  <1>2. Based(p, [i \in Ids |-> NoRecord])
    BY RecordsTyped DEF Based
  <1>3. Based(p, Reread(p))
    BY <1>0 DEF Based, Reread
  <1>4. ASSUME NEW base, NEW settle \in BOOLEAN, NEW faults \in {0, 1}, Based(p, base),
               read = Reading(p, base, settle, faults)
        PROVE  \E b : /\ Based(p, b)
                      /\ read.seen \in {b, Settled(b)}
                      /\ read.patches \in {{}, SettlePatches(p, b)}
                      /\ read.faults \in {0, 1}
    BY <1>4 DEF Reading
  <1>5. CASE read \in Reads(p)
    <2>1. \/ read = Reading(p, before[p], FALSE, 0) \/ read = Reading(p, Reread(p), TRUE, 0)
          \/ read = Reading(p, before[p], TRUE, 1) \/ read = Reading(p, Reread(p), FALSE, 1)
      BY <1>5 DEF Reads
    <2> QED BY <2>1, <1>1, <1>3, <1>4
  <1>6. CASE read \in Loads(p)
    <2>1. \/ read = Reading(p, store, TRUE, 0) \/ read = Reading(p, store, FALSE, 1)
          \/ read = Reading(p, [i \in Ids |-> NoRecord], FALSE, 1)
      BY <1>6 DEF Loads
    <2> QED BY <2>1, <1>1, <1>2, <1>4
  <1> QED BY <1>5, <1>6

LEMMA SettlesTyped ==
  ASSUME Always, NEW p \in Pods, NEW base, Based(p, base)
  PROVE  /\ Names(base)
         /\ Settled(base) \in [Ids -> Records]
         /\ \A i \in Ids : Settled(base)[i].run = base[i].run
         /\ Held(Settled(base)) = Held(base)
         /\ SettlePatches(p, base) \subseteq Patches
         /\ \A w \in SettlePatches(p, base) :
              /\ w.by = p /\ w.writer = "settle" /\ w.forget = {}
              /\ w.id \in Held(base) /\ Cited(w.id, w.record.run) /\ w.record.run = base[w.id].run
              /\ pod[job[w.record.run].pod] = "gone"
PROOF
  <1>0. base \in [Ids -> Records] /\ Names(store) /\ Names(before[p])
    BY DEF Based, Always, Named
  <1>1. Names(base)
    BY <1>0 DEF Based, Names, Held
  <1>2. ASSUME NEW i \in Ids
        PROVE  /\ Settled(base)[i] \in Records /\ Settled(base)[i].run = base[i].run
               /\ (Settled(base)[i] = NoRecord) <=> (base[i] = NoRecord)
    <2>1. base[i] \in Records
      BY <1>0
    <2>2. CASE i \in Forsaken(base)
      <3>1. base[i].state = "running" /\ Settled(base)[i] = [base[i] EXCEPT !.state = "interrupted"]
        BY <2>2 DEF Forsaken, Settled
      <3>2. base[i] # NoRecord /\ Settled(base)[i] # NoRecord
        BY <3>1, <2>1 DEF NoRecord, Records
      <3> QED BY <3>1, <3>2, <2>1 DEF Records, States
    <2>3. CASE i \notin Forsaken(base)
      BY <2>1, <2>3 DEF Settled
    <2> QED BY <2>2, <2>3
  <1>3. Settled(base) \in [Ids -> Records]
    BY <1>2 DEF Settled
  <1>4. Held(Settled(base)) = Held(base)
    BY <1>2 DEF Held
  <1>5. ASSUME NEW w \in SettlePatches(p, base)
        PROVE  /\ w \in Patches
               /\ w.by = p /\ w.writer = "settle" /\ w.forget = {}
               /\ w.id \in Held(base) /\ Cited(w.id, w.record.run) /\ w.record.run = base[w.id].run
               /\ pod[job[w.record.run].pod] = "gone"
    <2>1. PICK i \in Forsaken(base) :
            w = [by |-> p, writer |-> "settle", id |-> i, record |-> Settled(base)[i], forget |-> {}]
      BY DEF SettlePatches
    <2>2. i \in Ids /\ base[i].state = "running" /\ pod[job[base[i].run].pod] = "gone"
      BY <2>1 DEF Forsaken, OwnerGone
    <2>3. i \in Held(base)
      BY <2>2, <1>0 DEF Held, NoRecord
    <2>4. w.record.run = base[i].run /\ w.id = i /\ w.record \in Records
      BY <2>1, <2>2, <1>2
    <2>5. Cited(i, base[i].run)
      BY <2>3, <1>1 DEF Names
    <2>6. w \in Patches
      BY <2>1, <2>2, <2>4 DEF Patches, Writers
    <2> QED BY <2>1, <2>2, <2>3, <2>4, <2>5, <2>6
  <1> QED BY <1>1, <1>2, <1>3, <1>4, <1>5

(* What reading leaves in a pod's memory and puts on its way.              *)
LEMMA ReadTyped ==
  ASSUME Always, NEW p \in Pods, NEW read \in Reads(p) \cup Loads(p)
  PROVE  /\ read.seen \in [Ids -> Records] /\ Names(read.seen)
         /\ \A i \in Held(read.seen) : i \in Held(before[p]) \/ i \in Held(store)
         /\ \A i \in Ids : read.seen[i].run \in {0, before[p][i].run, store[i].run}
         /\ read.patches \subseteq Patches /\ read.faults \in {0, 1}
         /\ \A w \in read.patches :
              /\ w.by = p /\ w.writer = "settle" /\ w.forget = {}
              /\ w.id \in Held(before[p]) \/ w.id \in Held(store)
              /\ Cited(w.id, w.record.run) /\ w.record.run \in {0, before[p][w.id].run, store[w.id].run}
              /\ pod[job[w.record.run].pod] = "gone"
PROOF
  <1>1. PICK base : /\ Based(p, base)
                    /\ read.seen \in {base, Settled(base)}
                    /\ read.patches \in {{}, SettlePatches(p, base)}
                    /\ read.faults \in {0, 1}
    BY BasedOn
  <1>2. /\ \A i \in Held(base) : i \in Held(before[p]) \/ i \in Held(store)
        /\ \A i \in Ids : base[i].run \in {0, before[p][i].run, store[i].run}
        /\ \A i \in Held(base) : i \in Ids
    BY <1>1 DEF Based, Held, NoRecord
  <1>3. /\ Names(base) /\ base \in [Ids -> Records]
        /\ Settled(base) \in [Ids -> Records]
        /\ \A i \in Ids : Settled(base)[i].run = base[i].run
        /\ Held(Settled(base)) = Held(base)
    BY <1>1, SettlesTyped DEF Based
  <1>4. Names(Settled(base))
    <2>1. \A i \in Held(base) : i \in Ids
      BY DEF Held
    <2> QED BY <1>3, <2>1 DEF Names
  <1>5. /\ SettlePatches(p, base) \subseteq Patches
        /\ \A w \in SettlePatches(p, base) :
              /\ w.by = p /\ w.writer = "settle" /\ w.forget = {}
              /\ w.id \in Held(base) /\ Cited(w.id, w.record.run) /\ w.record.run = base[w.id].run
              /\ pod[job[w.record.run].pod] = "gone"
    BY <1>1, SettlesTyped
  <1> HIDE DEF Settled
  <1> QED BY <1>1, <1>2, <1>3, <1>4, <1>5

LEMMA JobMovesThread ==
  ASSUME Always, NEW r \in Runs, job[r].thread # "none",
         NEW thread \in Threads \ {"none"}, NEW state \in States,
         \/ job' = [job EXCEPT ![r].thread = thread, ![r].state = state]
         \/ (job' = [job EXCEPT ![r].thread = thread] /\ state = job[r].state)
  PROVE  /\ JobMoves /\ Accepted' = Accepted
         /\ job'[r].thread = thread /\ job'[r].state = state
         /\ \A s \in Runs \ {r} : job'[s] = job[s]
PROOF
  <1>0. job \in [Runs -> JobType]
    BY Facts
  <1>1. /\ job'[r] = [job[r] EXCEPT !.thread = thread, !.state = state]
        /\ \A s \in Runs \ {r} : job'[s] = job[s]
        /\ DOMAIN job' = Runs
    <2>1. CASE job' = [job EXCEPT ![r].thread = thread, ![r].state = state]
      BY <1>0, <2>1 DEF JobType
    <2>2. CASE job' = [job EXCEPT ![r].thread = thread] /\ state = job[r].state
      BY <1>0, <2>2 DEF JobType
    <2> QED BY <2>1, <2>2
  <1>2. job'[r] \in JobType /\ job'[r].thread = thread /\ job'[r].state = state
        /\ job'[r].pod = job[r].pod /\ job'[r].id = job[r].id /\ job'[r].unit = job[r].unit
    BY <1>0, <1>1 DEF JobType
  <1>3. job' \in [Runs -> JobType]
    <2>1. \A s \in Runs : job'[s] \in JobType
      BY <1>0, <1>1, <1>2
    <2>2. job' = [s \in Runs |-> job'[s]]
      BY <1>0
    <2> QED BY <2>1, <2>2
  <1> QED BY <1>1, <1>2, <1>3, ZenonT(60) DEF JobMoves, Accepted

LEMMA JobMovesEnded ==
  ASSUME Always, NEW p \in Pods, job' = Ended(p)
  PROVE  /\ JobMoves /\ Accepted' = Accepted
         /\ \A r \in Runs : job[r].pod = p => job'[r].thread = "dead"
         /\ \A r \in Runs : job[r].pod # p => job'[r] = job[r]
         /\ \A r \in Runs : job'[r].state = job[r].state /\ job'[r].pod = job[r].pod
PROOF
  <1>0. job \in [Runs -> JobType] /\ 0 \notin Pods
    BY Facts DEF Pods
  <1>1. ASSUME NEW r \in Runs
        PROVE  /\ job'[r] \in JobType
               /\ job'[r].pod = job[r].pod /\ job'[r].id = job[r].id /\ job'[r].unit = job[r].unit
               /\ job'[r].state = job[r].state
               /\ job[r].pod = p => job'[r].thread = "dead"
               /\ job[r].pod # p => job'[r] = job[r]
    BY <1>0 DEF Ended, JobType, Threads
  <1>2. job' \in [Runs -> JobType]
    BY <1>1 DEF Ended
  <1>3. \A r \in Runs : job[r].thread = "none" => job[r].pod # p
    BY <1>0 DEF Always, JobsOK, JobOK
  <1> QED BY <1>1, <1>2, <1>3, SMTT(30) DEF JobMoves, Accepted

LEMMA JobMovesSubmit ==
  ASSUME Always, NEW p \in Pods, NEW r \in Runs, NEW u \in Units, job[r].thread = "none",
         job' = [job EXCEPT ![r] = [pod |-> p, id |-> nextId[p], unit |-> u,
                                    state |-> "running", thread |-> "starting"]]
  PROVE  /\ JobMoves
         /\ \A s \in Runs \ {r} : job'[s] = job[s]
         /\ job'[r] = [pod |-> p, id |-> nextId[p], unit |-> u, state |-> "running", thread |-> "starting"]
PROOF
  <1>0. job \in [Runs -> JobType] /\ nextId[p] \in Ids
    BY Facts
  <1>1. [pod |-> p, id |-> nextId[p], unit |-> u, state |-> "running", thread |-> "starting"] \in JobType
    BY <1>0 DEF JobType, Threads, States
  <1> QED BY <1>0, <1>1 DEF JobMoves

LEMMA JobStays ==
  ASSUME Always, job' = job
  PROVE  JobMoves /\ Accepted' = Accepted
  BY Facts DEF JobMoves, Accepted

LEMMA CountedStays ==
  ASSUME Counted, JobMoves, Accepted' = Accepted,
         \A p \in Pods : nextId'[p] <= Cardinality(Accepted) + 1
  PROVE  Counted'
  BY DEF Counted, JobMoves, Accepted

(* The numbers and jobs that a step leaves in records and patches.         *)
LEMMA NamedStep ==
  ASSUME JobMoves,
         \A i \in Held(store') : CitedNext(i, store'[i].run),
         \A p \in Pods : \A i \in Held(before'[p]) : Cited(i, before'[p][i].run),
         \A w \in patches' : CitedNext(w.id, w.record.run)
  PROVE  Named'
PROOF
  <1>1. Names(store)'
    BY DEF Names, Held, CitedNext, Cited
  <1>2. \A p \in Pods : Names(before[p])'
    BY CitedGoesOn DEF Names, Held, CitedNext, Cited
  <1>3. \A w \in patches' : Cited(w.id, w.record.run)'
    BY DEF CitedNext, Cited
  <1> QED BY <1>1, <1>2, <1>3 DEF Named

LEMMA NamedNow ==
  ASSUME Always
  PROVE  /\ \A i \in Held(store) : Cited(i, store[i].run)
         /\ \A p \in Pods : \A i \in Held(before[p]) : Cited(i, before[p][i].run)
         /\ \A w \in patches : Cited(w.id, w.record.run)
  BY DEF Always, Named, Names

(* A step that makes, answers and moves no first record.                   *)
LEMMA StartsStay ==
  ASSUME Always, JobMoves,
         \A w \in patches' : w.writer = "start" => w \in patches,
         \A w \in patches : w.writer = "start" => w \in patches',
         \A r \in Runs : job'[r].thread = "starting" => job[r].thread = "starting",
         \A r \in Runs : job[r].thread \in {"starting", "dead"} => job'[r].thread \in {"starting", "dead"}
  PROVE  Starts'
PROOF
  <1>1. ASSUME NEW r \in Runs, job'[r].thread = "starting"
        PROVE  \E w \in patches' : First(w, r)
    BY <1>1 DEF Always, Starts, First
  <1>2. ASSUME NEW w \in patches', w.writer = "start"
        PROVE  /\ job'[w.record.run].thread \in {"starting", "dead"}
               /\ w.by = job'[w.record.run].pod /\ w.record.state = "running"
    <2>1. w \in patches /\ Cited(w.id, w.record.run)
      BY <1>2, NamedNow
    <2> QED BY <1>2, <2>1 DEF Always, Starts, Cited, JobMoves
  <1>3. ASSUME NEW r \in Runs, NEW v \in patches', NEW w \in patches', First(v, r), First(w, r)
        PROVE  v = w
    BY <1>3 DEF Always, Starts, First
  <1>4. \A r \in Runs : job'[r].thread = "starting" => \E w \in patches' : First(w, r)
    BY <1>1
  <1> QED BY <1>2, <1>3, <1>4 DEF Starts, First

LEMMA FinalsStay ==
  ASSUME Always,
         \A w \in patches' : w.writer = "final" => w \in patches \/ job'[w.record.run].thread = "saving",
         \A r \in Runs : job[r].thread \in {"saving", "over", "dead"}
                        => job'[r].thread \in {"saving", "over", "dead"}
  PROVE  Finals'
  BY NamedNow DEF Always, Finals, Cited

(* The steps of a pod that is stopped, drains, ends and is removed.        *)
PodAction(p) == Stop(p) \/ Drain(p) \/ DrainDone(p) \/ Crash(p) \/ Removed(p)

LEMMA PodMoves ==
  ASSUME Always, NEW p \in Pods, PodAction(p)
  PROVE  /\ \E phase \in {"stopping", "draining", "ended", "gone"} :
              /\ pod' = [pod EXCEPT ![p] = phase]
              /\ phase \in {"ended", "gone"} => \A r \in Runs : job[r].pod = p => job'[r].thread = "dead"
              /\ phase = "gone" => ~Alive(p)
         /\ pod[p] \notin {"none", "gone"}
         /\ JobMoves /\ Accepted' = Accepted
         /\ \A r \in Runs : job'[r] = job[r] \/ (job'[r].thread = "dead" /\ job'[r].pod = job[r].pod)
         /\ UNCHANGED <<before, nextId, store, patches>>
         /\ bounds'.late = bounds.late /\ bounds'.faults = bounds.faults /\ bounds' \in Counts
PROOF
  <1>0. bounds \in Counts /\ 0 \notin Pods /\ pod[p] \in {"none", "up", "stopping", "draining", "ended", "gone"}
    BY Facts DEF Pods
  <1>1. CASE Stop(p)
    <2>1. pod' = [pod EXCEPT ![p] = "stopping"]
      BY <1>1 DEF Stop, Becomes
    <2> QED BY <2>1, <1>0, <1>1, JobStays DEF Stop, Counts
  <1>2. CASE Drain(p)
    <2>1. pod' = [pod EXCEPT ![p] = "draining"]
      BY <1>2 DEF Drain, Becomes
    <2> QED BY <2>1, <1>0, <1>2, JobStays DEF Drain, Counts
  <1>3. CASE DrainDone(p)
    <2>1. pod' = [pod EXCEPT ![p] = "ended"] /\ job' = Ended(p)
      BY <1>3 DEF DrainDone, Becomes
    <2> QED BY <2>1, <1>0, <1>3, JobMovesEnded DEF DrainDone, Counts
  <1>4. CASE Crash(p)
    <2>1. pod' = [pod EXCEPT ![p] = "ended"] /\ job' = Ended(p)
      BY <1>4 DEF Crash, Becomes
    <2>2. bounds'.late = bounds.late /\ bounds'.faults = bounds.faults /\ bounds' \in Counts
      BY <1>4, <1>0 DEF Crash, Happened, Counts
    <2> QED BY <2>1, <2>2, <1>0, <1>4, JobMovesEnded DEF Crash, Alive
  <1>5. CASE Removed(p)
    <2>1. pod' = [pod EXCEPT ![p] = "gone"] /\ pod[p] = "ended"
      BY <1>5 DEF Removed, Becomes
    <2>2. ~Alive(p)
      BY <2>1 DEF Alive
    <2>3. \A r \in Runs : job[r].pod = p => job[r].thread = "dead"
      BY <2>2, <1>0 DEF Always, JobsOK, JobOK, Live
    <2> QED BY <2>1, <2>2, <2>3, <1>0, <1>5, JobStays DEF Removed, Counts
  <1> QED BY <1>1, <1>2, <1>3, <1>4, <1>5 DEF PodAction

LEMMA AlwaysPod ==
  ASSUME Always, NEW p \in Pods, PodAction(p)
  PROVE  Always'
PROOF
  <1>1. PICK phase \in {"stopping", "draining", "ended", "gone"} :
              /\ pod' = [pod EXCEPT ![p] = phase]
              /\ phase \in {"ended", "gone"} => \A r \in Runs : job[r].pod = p => job'[r].thread = "dead"
              /\ phase = "gone" => ~Alive(p)
    BY PodMoves
  <1>2. /\ pod[p] \notin {"none", "gone"}
        /\ JobMoves /\ Accepted' = Accepted
        /\ \A r \in Runs : job'[r] = job[r] \/ (job'[r].thread = "dead" /\ job'[r].pod = job[r].pod)
        /\ UNCHANGED <<before, nextId, store, patches>>
        /\ bounds'.late = bounds.late /\ bounds'.faults = bounds.faults /\ bounds' \in Counts
    BY PodMoves
  <1>3. /\ pod \in [Pods -> {"none", "up", "stopping", "draining", "ended", "gone"}]
        /\ pod'[p] = phase /\ \A q \in Pods \ {p} : pod'[q] = pod[q]
    BY <1>1, Facts
  <1>4. pod' \in [Pods -> {"none", "up", "stopping", "draining", "ended", "gone"}]
    BY <1>1, <1>3
  <1>5. Typed'
    BY <1>2, <1>4, Facts DEF Typed, TypeOK, JobMoves, JobType, Threads
  <1>6. Named'
    BY <1>2, NamedNow, NamedStep, CitedGoesOn
  <1>7. Counted'
    BY <1>2, CountedStays DEF Always, Counted
  <1>8. Chain'
    <2> SUFFICES ASSUME NEW a \in Pods, NEW b \in Pods, b < a, pod'[a] # "none"
                 PROVE  pod'[b] \notin {"none", "up"}
      BY DEF Chain
    <2>1. pod[a] # "none"
      BY <1>2, <1>3
    <2>2. pod[b] \notin {"none", "up"}
      BY <2>1 DEF Always, Chain
    <2> QED BY <2>2, <1>3
  <1>9. JobsOK'
    <2> SUFFICES ASSUME NEW r \in Runs PROVE JobOK(r)'
      BY DEF JobsOK
    <2>1. JobOK(r) /\ 0 \notin Pods
      BY DEF Always, JobsOK, Pods
    <2>2. CASE job'[r] = job[r]
      BY <2>1, <2>2, <1>1, <1>2, <1>3 DEF JobOK, Live, Alive, Running
    <2>3. CASE job'[r].thread = "dead" /\ job'[r].pod = job[r].pod
      <3>1. job[r].thread # "none"
        BY <2>3, <1>2 DEF Accepted
      <3> QED BY <3>1, <2>1, <2>3, <1>2, <1>3 DEF JobOK, Live, Running
    <2> QED BY <2>2, <2>3, <1>2
  <1>10. Starts'
    <2>1. /\ \A r \in Runs : job'[r].thread = "starting" => job[r].thread = "starting"
          /\ \A r \in Runs : job[r].thread \in {"starting", "dead"} => job'[r].thread \in {"starting", "dead"}
      BY <1>2
    <2> QED BY <2>1, <1>2, StartsStay
  <1>11. Finals'
    BY <1>2, FinalsStay
  <1> QED BY <1>5, <1>6, <1>7, <1>8, <1>9, <1>10, <1>11 DEF Always

(* The steps that leave the pods as they are.                              *)
LEMMA AlwaysStep ==
  ASSUME Always, UNCHANGED pod, JobMoves,
         before' \in [Pods -> [Ids -> Records]], nextId' \in [Pods -> Ids],
         store' \in [Ids -> Records], patches' \subseteq Patches, bounds' \in Counts,
         Named', Counted', JobsOK', Starts', Finals'
  PROVE  Always'
PROOF
  <1>1. Typed'
    BY Facts DEF Typed, TypeOK, JobMoves, JobType, Threads
  <1>2. Chain'
    BY DEF Always, Chain
  <1> QED BY <1>1, <1>2 DEF Always

LEMMA HappenedTyped ==
  ASSUME bounds \in Counts, NEW late \in Nat, NEW crashes \in Nat, NEW restarts \in Nat, NEW faults \in Nat,
         Happened(late, crashes, restarts, faults)
  PROVE  bounds' \in Counts /\ bounds'.late = bounds.late + late /\ bounds'.faults = bounds.faults + faults
  BY DEF Happened, Counts

(* A pod's memory is replaced by records that name jobs as they should.    *)
LEMMA MemoryTyped ==
  ASSUME Always, NEW p \in Pods, NEW seen \in [Ids -> Records], Names(seen),
         before' = [before EXCEPT ![p] = seen]
  PROVE  /\ before' \in [Pods -> [Ids -> Records]]
         /\ before'[p] = seen /\ \A q \in Pods \ {p} : before'[q] = before[q]
         /\ \A q \in Pods : \A i \in Held(before'[q]) : Cited(i, before'[q][i].run)
PROOF
  <1>1. before \in [Pods -> [Ids -> Records]]
    BY Facts
  <1>2. before'[p] = seen /\ \A q \in Pods \ {p} : before'[q] = before[q]
    BY <1>1
  <1>3. \A q \in Pods : \A i \in Held(before'[q]) : Cited(i, before'[q][i].run)
    <2> SUFFICES ASSUME NEW q \in Pods, NEW i \in Held(before'[q])
                 PROVE  Cited(i, before'[q][i].run)
      OBVIOUS
    <2>1. CASE q = p
      BY <2>1, <1>2 DEF Names
    <2>2. CASE q # p
      BY <2>2, <1>2, NamedNow
    <2> QED BY <2>1, <2>2
  <1> QED BY <1>1, <1>2, <1>3

LEMMA AlwaysPage ==
  ASSUME Always, NEW p \in Pods, Page(p)
  PROVE  Always'
PROOF
  <1>1. PICK read \in Reads(p) :
          /\ before' = [before EXCEPT ![p] = read.seen]
          /\ patches' = patches \cup read.patches
          /\ Happened(0, 0, 0, read.faults)
    BY DEF Page
  <1>2. UNCHANGED <<pod, nextId, job, store>>
    BY DEF Page
  <1>3. /\ read.seen \in [Ids -> Records] /\ Names(read.seen)
        /\ read.patches \subseteq Patches /\ read.faults \in Nat
        /\ \A w \in read.patches : Cited(w.id, w.record.run)
    BY ReadTyped
  <1>4. JobMoves /\ Accepted' = Accepted
    BY <1>2, JobStays
  <1>5. /\ before' \in [Pods -> [Ids -> Records]]
        /\ \A q \in Pods : \A i \in Held(before'[q]) : Cited(i, before'[q][i].run)
    BY <1>1, <1>3, MemoryTyped
  <1>6. Named'
    BY <1>1, <1>2, <1>3, <1>4, <1>5, NamedNow, NamedStep, CitedGoesOn
  <1>7. Counted'
    BY <1>2, <1>4, CountedStays DEF Always, Counted
  <1>8. JobsOK'
    BY <1>2 DEF Always, JobsOK, JobOK, Live, Alive, Running
  <1>9. bounds' \in Counts
    BY <1>1, <1>3, Facts, HappenedTyped
  <1>10. Starts'
    <2>1. \A w \in read.patches : w.writer = "settle"
      BY ReadTyped
    <2>2. /\ \A w \in patches' : w.writer = "start" => w \in patches
          /\ \A w \in patches : w.writer = "start" => w \in patches'
      BY <2>1, <1>1
    <2> QED BY <2>2, <1>2, <1>4, StartsStay
  <1>11. Finals'
    <2>1. \A w \in patches' : w.writer = "final" => w \in patches
      BY <1>1, ReadTyped
    <2> QED BY <2>1, <1>2, FinalsStay
  <1> QED BY <1>1, <1>2, <1>3, <1>4, <1>5, <1>6, <1>7, <1>8, <1>9, <1>10, <1>11, Facts, AlwaysStep

LEMMA ForgottenTyped ==
  ASSUME Always, NEW p \in Pods, NEW seen \in [Ids -> Records]
  PROVE  Forgotten(p, seen) \subseteq Ids
PROOF
  <1>1. \A r \in Mine(p) : job[r].id \in Ids
    <2>1. \A r \in Mine(p) : r \in Accepted
      BY DEF Mine, Accepted, Always, JobsOK, JobOK, Pods
    <2>2. 1 .. Cardinality(Accepted) \subseteq Ids
      BY Sizes
    <2> QED BY <2>1, <2>2 DEF Always, Counted
  <1> QED BY <1>1 DEF Forgotten, MyIds

(* A request that a pod accepts.                                           *)
LEMMA SubmitMoves ==
  ASSUME Always, NEW p \in Pods, NEW r \in Runs, NEW u \in Units, Submit(p, r, u)
  PROVE  \E read \in Reads(p) :
           LET old == Forgotten(p, read.seen)
               start == [by |-> p, writer |-> "start", id |-> nextId[p],
                         record |-> [run |-> r, state |-> "running"], forget |-> old]
           IN  /\ ~Busy(p, read.seen, u)
               /\ before' = [before EXCEPT ![p] = [i \in Ids |-> IF i \in old THEN NoRecord ELSE read.seen[i]]]
               /\ patches' = patches \cup read.patches \cup {start}
               /\ Happened(IF pod[p] = "stopping" THEN 1 ELSE 0, 0, 0, read.faults)
               /\ old \subseteq Ids /\ start \in Patches
               /\ job[r].thread = "none" /\ Serving(p)
               /\ JobMoves /\ Accepted' = Accepted \cup {r} /\ r \notin Accepted
               /\ \A s \in Runs \ {r} : job'[s] = job[s]
               /\ job'[r] = [pod |-> p, id |-> nextId[p], unit |-> u, state |-> "running",
                             thread |-> "starting"]
               /\ nextId' = [nextId EXCEPT ![p] = @ + 1]
               /\ UNCHANGED <<pod, store>>
PROOF
  <1>1. PICK read \in Reads(p) :
          LET old == Forgotten(p, read.seen)
          IN  /\ ~Busy(p, read.seen, u)
              /\ before' = [before EXCEPT ![p] = [i \in Ids |-> IF i \in old THEN NoRecord ELSE read.seen[i]]]
              /\ job' = [job EXCEPT ![r] = [pod |-> p, id |-> nextId[p], unit |-> u,
                                    state |-> "running", thread |-> "starting"]]
              /\ patches' = patches \cup read.patches \cup {Patch1(r, "start", "running", old)}
              /\ Happened(IF pod[p] = "stopping" THEN 1 ELSE 0, 0, 0, read.faults)
    BY DEF Submit
  <1>2. job[r].thread = "none" /\ Serving(p) /\ nextId' = [nextId EXCEPT ![p] = @ + 1] /\ UNCHANGED <<pod, store>>
    BY DEF Submit
  <1>3. /\ JobMoves
        /\ \A s \in Runs \ {r} : job'[s] = job[s]
        /\ job'[r] = [pod |-> p, id |-> nextId[p], unit |-> u, state |-> "running", thread |-> "starting"]
    BY <1>1, <1>2, JobMovesSubmit
  <1> DEFINE old == Forgotten(p, read.seen)
             start == [by |-> p, writer |-> "start", id |-> nextId[p],
                       record |-> [run |-> r, state |-> "running"], forget |-> old]
  <1>4. Patch1(r, "start", "running", old) = start
    BY <1>3 DEF Patch1
  <1>5. old \subseteq Ids
    BY ReadTyped, ForgottenTyped
  <1>6. nextId[p] \in Ids
    BY Facts
  <1>7. start \in Patches
    BY <1>5, <1>6 DEF Patches, Writers, Records, States
  <1>8. Accepted' = Accepted \cup {r} /\ r \notin Accepted
    BY <1>2, <1>3 DEF Accepted
  <1> QED BY <1>1, <1>2, <1>3, <1>4, <1>5, <1>7, <1>8

LEMMA AlwaysSubmit ==
  ASSUME Always, NEW p \in Pods, NEW r \in Runs, NEW u \in Units, Submit(p, r, u)
  PROVE  Always'
PROOF
  <1>1. PICK read \in Reads(p) :
           LET old == Forgotten(p, read.seen)
               start == [by |-> p, writer |-> "start", id |-> nextId[p],
                         record |-> [run |-> r, state |-> "running"], forget |-> old]
           IN  /\ ~Busy(p, read.seen, u)
               /\ before' = [before EXCEPT ![p] = [i \in Ids |-> IF i \in old THEN NoRecord ELSE read.seen[i]]]
               /\ patches' = patches \cup read.patches \cup {start}
               /\ Happened(IF pod[p] = "stopping" THEN 1 ELSE 0, 0, 0, read.faults)
               /\ old \subseteq Ids /\ start \in Patches
               /\ job[r].thread = "none" /\ Serving(p)
               /\ JobMoves /\ Accepted' = Accepted \cup {r} /\ r \notin Accepted
               /\ \A s \in Runs \ {r} : job'[s] = job[s]
               /\ job'[r] = [pod |-> p, id |-> nextId[p], unit |-> u, state |-> "running",
                             thread |-> "starting"]
               /\ nextId' = [nextId EXCEPT ![p] = @ + 1]
               /\ UNCHANGED <<pod, store>>
    BY SubmitMoves
  <1> DEFINE old == Forgotten(p, read.seen)
             seen == [i \in Ids |-> IF i \in old THEN NoRecord ELSE read.seen[i]]
             start == [by |-> p, writer |-> "start", id |-> nextId[p],
                       record |-> [run |-> r, state |-> "running"], forget |-> old]
  <1>2. /\ read.seen \in [Ids -> Records] /\ Names(read.seen)
        /\ read.patches \subseteq Patches /\ read.faults \in Nat
        /\ \A w \in read.patches : Cited(w.id, w.record.run)
    BY ReadTyped
  <1>3. seen \in [Ids -> Records] /\ Names(seen)
    BY <1>2, RecordsTyped DEF Names, Held
  <1>4. /\ before' \in [Pods -> [Ids -> Records]]
        /\ \A q \in Pods : \A i \in Held(before'[q]) : Cited(i, before'[q][i].run)
    <2>1. before' = [before EXCEPT ![p] = seen]
      BY <1>1
    <2> HIDE DEF seen
    <2> QED BY <2>1, <1>3, MemoryTyped
  <1>5. CitedNext(start.id, start.record.run)
    BY <1>1 DEF CitedNext
  <1>6. \A w \in patches' : CitedNext(w.id, w.record.run)
    <2> HIDE DEF start
    <2>1. patches' = patches \cup read.patches \cup {start}
      BY <1>1 DEF start
    <2> QED BY <2>1, <1>1, <1>2, <1>5, NamedNow, CitedGoesOn
  <1>7. \A i \in Held(store') : CitedNext(i, store'[i].run)
    BY <1>1, NamedNow, CitedGoesOn
  <1>8. Named'
    BY <1>1, <1>4, <1>6, <1>7, NamedStep
  <1>9. /\ IsFiniteSet(Accepted) /\ Cardinality(Accepted) \in Nat
        /\ Cardinality(Accepted') = Cardinality(Accepted) + 1 /\ Cardinality(Accepted') <= Cardinality(Runs)
    <2>1. IsFiniteSet(Accepted) /\ Cardinality(Accepted) \in Nat /\ Accepted \subseteq Runs /\ IsFiniteSet(Runs)
      BY Sizes
    <2>2. Cardinality(Accepted') = Cardinality(Accepted) + 1
      BY <2>1, <1>1, FS_AddElement
    <2>3. Accepted' \subseteq Runs
      BY <2>1, <1>1
    <2> QED BY <2>1, <2>2, <2>3, FS_Subset
  <1>10. \A q \in Pods : nextId[q] \in Nat /\ nextId[q] >= 1 /\ nextId[q] <= Cardinality(Accepted) + 1
    BY Facts, Sizes DEF Always, Counted
  <1>11. nextId'[p] = nextId[p] + 1 /\ \A q \in Pods \ {p} : nextId'[q] = nextId[q]
    BY <1>1, Facts
  <1>12. \A q \in Pods : nextId'[q] \in Nat /\ nextId'[q] >= 1 /\ nextId'[q] <= Cardinality(Accepted) + 2
    BY <1>9, <1>10, <1>11
  <1>13. nextId' \in [Pods -> Ids]
    <2>1. \A q \in Pods : nextId'[q] \in Ids
      BY <1>9, <1>12, Sizes
    <2>2. nextId' = [q \in Pods |-> nextId'[q]]
      BY <1>1, Facts
    <2> QED BY <2>1, <2>2
  <1>14. Counted'
    <2>1. \A q \in Pods : nextId'[q] <= Cardinality(Accepted') + 1
      BY <1>9, <1>12
    <2>2. ASSUME NEW s \in Accepted'
          PROVE  job'[s].id \in 1 .. Cardinality(Accepted')
      <3>1. CASE s = r
        BY <3>1, <1>1, <1>9, <1>10
      <3>2. CASE s # r
        <4>1. s \in Accepted /\ job'[s] = job[s]
          BY <3>2, <2>2, <1>1 DEF Accepted
        <4>2. job[s].id \in 1 .. Cardinality(Accepted)
          BY <4>1 DEF Always, Counted
        <4> QED BY <4>1, <4>2, <1>9
      <3> QED BY <3>1, <3>2
    <2> QED BY <2>1, <2>2 DEF Counted
  <1>15. JobsOK'
    <2> SUFFICES ASSUME NEW s \in Runs PROVE JobOK(s)'
      BY DEF JobsOK
    <2>1. CASE s = r
      BY <2>1, <1>1 DEF JobOK, Live, Alive, Running, Serving
    <2>2. CASE s # r
      BY <2>2, <1>1 DEF Always, JobsOK, JobOK, Live, Alive, Running
    <2> QED BY <2>1, <2>2
  <1>16. bounds' \in Counts
    BY <1>1, <1>2, Facts, HappenedTyped
  <1>17. patches' \subseteq Patches
    BY <1>1, <1>2, Facts
  <1>18. Starts'
    <2> HIDE DEF start
    <2>1. patches' = patches \cup read.patches \cup {start}
      BY <1>1 DEF start
    <2>2. /\ start.writer = "start" /\ start.record.run = r /\ start.by = p
          /\ start.record.state = "running"
      BY DEF start
    <2>3. ASSUME NEW w \in patches', w.writer = "start"
          PROVE  w = start \/ (w \in patches /\ w.record.run \in Runs \ {r})
      <3>1. w \in patches \/ w \in read.patches \/ w = start
        BY <2>1
      <3>2. w \notin read.patches
        BY <2>3, ReadTyped
      <3>3. w \in patches => w.record.run \in Runs \ {r}
        BY <1>1, NamedNow DEF Cited
      <3> QED BY <3>1, <3>2, <3>3
    <2>4. ASSUME NEW s \in Runs, job'[s].thread = "starting"
          PROVE  \E w \in patches' : First(w, s)
      <3>1. CASE s = r
        BY <3>1, <2>1, <2>2 DEF First
      <3>2. CASE s # r
        BY <3>2, <2>1, <2>4, <1>1 DEF Always, Starts
      <3> QED BY <3>1, <3>2
    <2>5. ASSUME NEW w \in patches', w.writer = "start"
          PROVE  /\ job'[w.record.run].thread \in {"starting", "dead"}
                 /\ w.by = job'[w.record.run].pod /\ w.record.state = "running"
      <3>1. CASE w = start
        BY <3>1, <2>2, <1>1
      <3>2. CASE w \in patches /\ w.record.run \in Runs \ {r}
        BY <3>2, <2>5, <1>1 DEF Always, Starts
      <3> QED BY <3>1, <3>2, <2>3, <2>5
    <2>6. ASSUME NEW s \in Runs, NEW v \in patches', NEW w \in patches', First(v, s), First(w, s)
          PROVE  v = w
      BY <2>6, <2>2, <2>3 DEF Always, Starts, First
    <2>7. \A s \in Runs : job'[s].thread = "starting" => \E w \in patches' : First(w, s)
      BY <2>4
    <2> QED BY <2>5, <2>6, <2>7 DEF Starts, First
  <1>19. Finals'
    <2>1. start.writer = "start"
      OBVIOUS
    <2>2. \A w \in patches' : w.writer = "final" => w \in patches
      <3> HIDE DEF start
      <3>1. patches' = patches \cup read.patches \cup {start}
        BY <1>1 DEF start
      <3> QED BY <3>1, <2>1, ReadTyped
    <2>3. \A s \in Runs : job[s].thread \in {"saving", "over", "dead"}
                        => job'[s].thread \in {"saving", "over", "dead"}
      BY <1>1
    <2> QED BY <2>2, <2>3, FinalsStay
  <1> QED BY <1>1, <1>4, <1>8, <1>13, <1>14, <1>15, <1>16, <1>17, <1>18, <1>19, Facts, AlwaysStep

(* A job's own steps, the patch that one makes, and the end of a patch.    *)
LEMMA JobsOKThread ==
  ASSUME Always, UNCHANGED pod, NEW r \in Runs, JobMoves, job[r].thread # "none",
         job'[r].thread # "dead" => job[r].thread # "dead",
         job'[r].thread \in {"starting", "working"} => Running(r) /\ job'[r].state = job[r].state,
         \A s \in Runs \ {r} : job'[s] = job[s]
  PROVE  JobsOK'
PROOF
  <1> SUFFICES ASSUME NEW s \in Runs PROVE JobOK(s)'
    BY DEF JobsOK
  <1>1. JobOK(s)
    BY DEF Always, JobsOK
  <1>2. CASE s = r
    BY <1>1, <1>2 DEF JobOK, Live, Alive, Running, JobMoves
  <1>3. CASE s # r
    BY <1>1, <1>3 DEF JobOK, Live, Alive, Running
  <1> QED BY <1>2, <1>3

JobAction(r) == KeepRecord(r) \/ Finish(r) \/ SaveFinal(r)

LEMMA JobStep ==
  ASSUME Always, NEW r \in Runs, JobAction(r)
  PROVE  /\ JobMoves /\ Accepted' = Accepted /\ UNCHANGED <<pod, before, nextId, store, bounds>>
         /\ Live(r) /\ job[r].thread \notin {"starting", "saving", "over"}
         /\ \A s \in Runs \ {r} : job'[s] = job[s]
         /\ job'[r].thread \in {"working", "ended", "saving"}
         /\ job'[r].thread = "working" => job' = job /\ job[r].thread = "working"
         /\ \/ patches' = patches
            \/ \E w \in Patches :
                 /\ w.by = job[r].pod /\ w.id = job[r].id /\ w.record.run = r /\ w.forget = {}
                 /\ patches' = patches \cup {w}
                 /\ \/ w.writer = "keep" /\ w.record.state = "running" /\ job' = job /\ job[r].thread = "working"
                    \/ w.writer = "final" /\ job'[r].thread = "saving" /\ job[r].thread = "ended"
PROOF
  <1>0. job \in [Runs -> JobType] /\ job[r] \in JobType
    BY Facts
  <1>a. job[r].thread # "none" => job[r].pod \in Pods /\ job[r].id \in Ids
    <2>1. 1 .. Cardinality(Accepted) \subseteq Ids
      BY Sizes
    <2> QED BY <2>1 DEF Always, JobsOK, JobOK, Counted, Accepted
  <1>1. CASE KeepRecord(r)
    <2> DEFINE w == [by |-> job[r].pod, writer |-> "keep", id |-> job[r].id,
                     record |-> [run |-> r, state |-> "running"], forget |-> {}]
    <2>1. job[r].thread = "working" /\ patches' = patches \cup {w}
          /\ UNCHANGED <<pod, before, nextId, job, store, bounds>>
      BY <1>1 DEF KeepRecord
    <2>2. w \in Patches
      BY <2>1, <1>a DEF Patches, Writers, Records, States
    <2> QED BY <2>1, <2>2, JobStays DEF Live
  <1>2. CASE Finish(r)
    <2>1. PICK state \in {"succeeded", "failed"} :
            job' = [job EXCEPT ![r].thread = "ended", ![r].state = state]
      BY <1>2 DEF Finish
    <2>2. job[r].thread = "working" /\ UNCHANGED <<pod, before, nextId, store, patches, bounds>>
      BY <1>2 DEF Finish
    <2>a. state \in States /\ "ended" \in Threads \ {"none"} /\ job[r].thread # "none"
      BY <2>2 DEF States, Threads
    <2>3. /\ JobMoves /\ Accepted' = Accepted
          /\ job'[r].thread = "ended" /\ \A s \in Runs \ {r} : job'[s] = job[s]
      BY <2>1, <2>a, JobMovesThread
    <2> QED BY <2>2, <2>3 DEF Live
  <1>3. CASE SaveFinal(r)
    <2>1. /\ job[r].thread = "ended" /\ job' = [job EXCEPT ![r].thread = "saving"]
          /\ patches' = patches \cup {Patch1(r, "final", job[r].state, {})}
          /\ UNCHANGED <<pod, before, nextId, store, bounds>>
      BY <1>3 DEF SaveFinal, Thread
    <2>2. /\ JobMoves /\ Accepted' = Accepted
          /\ job'[r].thread = "saving" /\ \A s \in Runs \ {r} : job'[s] = job[s]
      BY <2>1, <1>0, JobMovesThread DEF Threads, JobType
    <2> DEFINE w == [by |-> job[r].pod, writer |-> "final", id |-> job[r].id,
                     record |-> [run |-> r, state |-> job[r].state], forget |-> {}]
    <2>3. Patch1(r, "final", job[r].state, {}) = w
      BY <2>1, <2>2 DEF Patch1, JobMoves
    <2>4. w \in Patches
      BY <2>1, <1>0, <1>a DEF Patches, Writers, Records, JobType
    <2> QED BY <2>1, <2>2, <2>3, <2>4 DEF Live
  <1> QED BY <1>1, <1>2, <1>3 DEF JobAction

LEMMA AlwaysJob ==
  ASSUME Always, NEW r \in Runs, JobAction(r)
  PROVE  Always'
PROOF
  <1>1. /\ JobMoves /\ Accepted' = Accepted /\ UNCHANGED <<pod, before, nextId, store, bounds>>
        /\ Live(r) /\ job[r].thread \notin {"starting", "saving", "over"}
        /\ \A s \in Runs \ {r} : job'[s] = job[s]
        /\ job'[r].thread \in {"working", "ended", "saving"}
        /\ job'[r].thread = "working" => job' = job /\ job[r].thread = "working"
    BY JobStep
  <1>2. \A w \in patches' : w \in patches \/ (w \in Patches /\ w.id = job[r].id /\ w.record.run = r)
    BY JobStep
  <1>3. Cited(job[r].id, r)
    BY <1>1 DEF Cited, Live
  <1>4. Named'
    BY <1>1, <1>2, <1>3, NamedNow, NamedStep, CitedGoesOn
  <1>5. Counted'
    BY <1>1, CountedStays DEF Always, Counted
  <1>6. JobsOK'
    BY <1>1, JobsOKThread DEF Live, Running
  <1>7. patches' \subseteq Patches
    BY <1>2, Facts
  <1>8. Starts'
    <2>1. /\ \A w \in patches' : w.writer = "start" => w \in patches
          /\ \A w \in patches : w.writer = "start" => w \in patches'
      BY JobStep
    <2>2. /\ \A s \in Runs : job'[s].thread = "starting" => job[s].thread = "starting"
          /\ \A s \in Runs : job[s].thread \in {"starting", "dead"} => job'[s].thread \in {"starting", "dead"}
      BY <1>1 DEF Live
    <2> QED BY <2>1, <2>2, <1>1, StartsStay
  <1>9. Finals'
    <2>1. \A w \in patches' : w.writer = "final" => w \in patches \/ job'[w.record.run].thread = "saving"
      BY JobStep
    <2>2. \A s \in Runs : job[s].thread \in {"saving", "over", "dead"}
                        => job'[s].thread \in {"saving", "over", "dead"}
      BY <1>1 DEF Live
    <2> QED BY <2>1, <2>2, FinalsStay
  <1> QED BY <1>1, <1>4, <1>5, <1>6, <1>7, <1>8, <1>9, Facts, AlwaysStep

LEMMA AnswerMoves ==
  ASSUME Always, NEW w \in patches, Answered(w)
  PROVE  LET r == w.record.run
         IN  /\ patches' = patches \ {w} /\ r \in Runs
             /\ JobMoves /\ Accepted' = Accepted
             /\ \A s \in Runs \ {r} : job'[s] = job[s]
             /\ \/ /\ job' = job
                   /\ w.writer \in {"start", "final"} => r \notin Mine(w.by)
                \/ /\ w.writer = "start" /\ job[r].thread = "starting" /\ w.by = job[r].pod
                   /\ job'[r].thread = "working" /\ job'[r].state = job[r].state
                \/ /\ w.writer = "final" /\ job[r].thread \in {"saving", "over"} /\ w.by = job[r].pod
                   /\ job'[r].thread = "over"
PROOF
  <1> DEFINE r == w.record.run
  <1>1. patches' = patches \ {w} /\ Cited(w.id, r)
    BY NamedNow DEF Answered
  <1>2. r \in Runs /\ job[r].thread # "none" /\ job[r] \in JobType
    BY <1>1, Facts DEF Cited
  <1> HIDE DEF r
  <1>3. CASE r \in Mine(w.by) /\ w.writer = "start"
    <2>1. job' = [job EXCEPT ![r].thread = "working"]
      BY <1>3 DEF Answered, Thread, r
    <2>2. job[r].thread = "starting" /\ w.by = job[r].pod
      BY <1>3 DEF Always, Starts, Mine, r
    <2>3. /\ JobMoves /\ Accepted' = Accepted
          /\ job'[r].thread = "working" /\ job'[r].state = job[r].state
          /\ \A s \in Runs \ {r} : job'[s] = job[s]
      BY <2>1, <1>2, JobMovesThread DEF Threads, JobType
    <2> QED BY <2>2, <2>3, <1>1, <1>2, <1>3 DEF r
  <1>4. CASE r \in Mine(w.by) /\ w.writer = "final"
    <2>1. job' = [job EXCEPT ![r].thread = "over"]
      BY <1>4 DEF Answered, Thread, r
    <2>2. job[r].thread \in {"saving", "over"} /\ w.by = job[r].pod
      BY <1>4 DEF Always, Finals, Mine, r
    <2>3. /\ JobMoves /\ Accepted' = Accepted
          /\ job'[r].thread = "over"
          /\ \A s \in Runs \ {r} : job'[s] = job[s]
      BY <2>1, <1>2, JobMovesThread DEF Threads, JobType
    <2> QED BY <2>2, <2>3, <1>1, <1>2, <1>4 DEF r
  <1>5. CASE ~(r \in Mine(w.by) /\ w.writer \in {"start", "final"})
    <2>1. job' = job
      BY <1>5 DEF Answered, r
    <2> QED BY <2>1, <1>1, <1>2, <1>5, JobStays DEF r
  <1> QED BY <1>3, <1>4, <1>5

LEMMA StoredTyped ==
  ASSUME Always, NEW w \in patches
  PROVE  /\ Stored(w) \in [Ids -> Records]
         /\ \A i \in Held(Stored(w)) : Cited(i, Stored(w)[i].run)
         /\ w.id \in Held(Stored(w)) /\ Stored(w)[w.id] = w.record
         /\ \A i \in Ids : Stored(w)[i] \in {w.record, NoRecord, store[i]}
PROOF
  <1>1. w \in Patches /\ store \in [Ids -> Records] /\ Cited(w.id, w.record.run)
    BY Facts, NamedNow
  <1>2. w.id \in Ids /\ w.record \in Records /\ w.record # NoRecord
    BY <1>1, Sizes DEF Patches, Cited, NoRecord
  <1>3. \A i \in Ids : Stored(w)[i] = IF i = w.id THEN w.record ELSE IF i \in w.forget THEN NoRecord ELSE store[i]
    BY DEF Stored
  <1>4. \A i \in Held(Stored(w)) : Cited(i, Stored(w)[i].run)
    <2> SUFFICES ASSUME NEW i \in Ids, Stored(w)[i] # NoRecord
                 PROVE  Cited(i, Stored(w)[i].run)
      BY DEF Held
    <2>1. CASE i = w.id
      BY <2>1, <1>1, <1>3
    <2>2. CASE i # w.id
      <3>1. Stored(w)[i] = store[i]
        BY <2>2, <1>3
      <3> QED BY <3>1, NamedNow DEF Held
    <2> QED BY <2>1, <2>2
  <1>5. Stored(w) \in [Ids -> Records]
    BY <1>1, <1>2, RecordsTyped DEF Stored
  <1> QED BY <1>2, <1>3, <1>4, <1>5 DEF Held

LEMMA AlwaysAnswered ==
  ASSUME Always, NEW w \in patches, Apply(w) \/ Lose(w)
  PROVE  Always'
PROOF
  <1> DEFINE r == w.record.run
  <1>1. /\ patches' = patches \ {w} /\ r \in Runs
        /\ JobMoves /\ Accepted' = Accepted
        /\ \A s \in Runs \ {r} : job'[s] = job[s]
        /\ \/ /\ job' = job
              /\ w.writer \in {"start", "final"} => r \notin Mine(w.by)
           \/ /\ w.writer = "start" /\ job[r].thread = "starting" /\ w.by = job[r].pod
              /\ job'[r].thread = "working" /\ job'[r].state = job[r].state
           \/ /\ w.writer = "final" /\ job[r].thread \in {"saving", "over"} /\ w.by = job[r].pod
              /\ job'[r].thread = "over"
    BY AnswerMoves DEF Apply, Lose
  <1>2. UNCHANGED <<pod, before, nextId>>
    BY DEF Apply, Lose
  <1>3. store' \in [Ids -> Records] /\ \A i \in Held(store') : Cited(i, store'[i].run)
    <2>1. CASE Apply(w)
      <3>1. store' = Stored(w)
        BY <2>1 DEF Apply
      <3> QED BY <3>1, StoredTyped
    <2>2. CASE Lose(w)
      BY <2>2, Facts, NamedNow DEF Lose
    <2> QED BY <2>1, <2>2
  <1>4. bounds' \in Counts
    <2>1. CASE Apply(w)
      BY <2>1, Facts DEF Apply
    <2>2. CASE Lose(w)
      <3>1. PICK faults \in {0, 1} : Happened(0, 0, 0, faults)
        BY <2>2 DEF Lose
      <3> QED BY <3>1, Facts, HappenedTyped
    <2> QED BY <2>1, <2>2
  <1> HIDE DEF r
  <1>5. Named'
    BY <1>1, <1>2, <1>3, NamedNow, NamedStep, CitedGoesOn
  <1>6. Counted'
    BY <1>1, <1>2, CountedStays DEF Always, Counted
  <1>7. job[r].thread # "none"
    BY NamedNow DEF Cited, r
  <1>8. JobsOK'
    <2>1. CASE job' = job
      BY <2>1, <1>2 DEF Always, JobsOK, JobOK, Live, Alive, Running
    <2>2. CASE job[r].thread = "starting" /\ job'[r].thread = "working" /\ job'[r].state = job[r].state
      BY <2>2, <1>1, <1>2, JobsOKThread DEF Running
    <2>3. CASE job[r].thread \in {"saving", "over"} /\ job'[r].thread = "over"
      BY <2>3, <1>1, <1>2, JobsOKThread DEF Running
    <2> QED BY <2>1, <2>2, <2>3, <1>1
  <1>9. Starts'
    <2>1. CASE w.writer = "start"
      <3>1. job[r].thread = "starting" => r \in Mine(w.by)
        BY <2>1, <1>1 DEF Always, Starts, Mine, r
      <3>2. job'[r].thread # "starting" /\ (job[r].thread = "dead" => job'[r].thread = "dead")
        BY <3>1, <2>1, <1>1
      <3>3. \A v \in patches' : v.writer = "start" => v.record.run # r /\ v.record.run \in Runs
        BY <1>1, <2>1, NamedNow DEF Always, Starts, First, Cited, r
      <3>4. ASSUME NEW s \in Runs, job'[s].thread = "starting"
            PROVE  \E v \in patches' : First(v, s)
        <4>1. s # r /\ job[s].thread = "starting"
          BY <3>2, <3>4, <1>1
        <4> QED BY <4>1, <1>1 DEF Always, Starts, First, r
      <3>5. \A v \in patches' : v.writer = "start" =>
              /\ job'[v.record.run].thread \in {"starting", "dead"}
              /\ v.by = job'[v.record.run].pod /\ v.record.state = "running"
        BY <3>3, <1>1 DEF Always, Starts
      <3>6. \A s \in Runs : \A u, v \in patches' : First(u, s) /\ First(v, s) => u = v
        BY <1>1 DEF Always, Starts
      <3>7. \A s \in Runs : job'[s].thread = "starting" => \E v \in patches' : First(v, s)
        BY <3>4
      <3> QED BY <3>5, <3>6, <3>7 DEF Starts, First
    <2>2. CASE w.writer # "start"
      <3>1. /\ \A v \in patches' : v.writer = "start" => v \in patches
            /\ \A v \in patches : v.writer = "start" => v \in patches'
        BY <2>2, <1>1
      <3>2. /\ \A s \in Runs : job'[s].thread = "starting" => job[s].thread = "starting"
            /\ \A s \in Runs : job[s].thread \in {"starting", "dead"} => job'[s].thread \in {"starting", "dead"}
        BY <2>2, <1>1
      <3> QED BY <3>1, <3>2, <1>1, StartsStay
    <2> QED BY <2>1, <2>2
  <1>10. Finals'
    <2>1. \A v \in patches' : v.writer = "final" => v \in patches
      BY <1>1
    <2>2. \A s \in Runs : job[s].thread \in {"saving", "over", "dead"}
                        => job'[s].thread \in {"saving", "over", "dead"}
      BY <1>1
    <2> QED BY <2>1, <2>2, FinalsStay
  <1>11. patches' \subseteq Patches
    BY <1>1, Facts
  <1> QED BY <1>1, <1>2, <1>3, <1>4, <1>5, <1>6, <1>8, <1>9, <1>10, <1>11, Facts, AlwaysStep

LEMMA NextNumber ==
  ASSUME Always, NEW p \in Pods, NEW seen \in [Ids -> Records], Names(seen),
         NEW number, number = IF Held(seen) = {} THEN 1 ELSE Max(Held(seen)) + 1
  PROVE  /\ number \in Ids /\ number <= Cardinality(Accepted) + 1
         /\ \A i \in Held(seen) : i < number
         /\ \A i \in Ids : (\E k \in Held(seen) : k >= i) => i < number
PROOF
  <1>1. Held(seen) \subseteq 0 .. Cardinality(Accepted)
    <2>1. ASSUME NEW i \in Held(seen)
          PROVE  i \in 1 .. Cardinality(Accepted)
      <3>1. Cited(i, seen[i].run)
        BY DEF Names
      <3> QED BY <3>1 DEF Cited, Accepted, Always, Counted
    <2> QED BY <2>1, Sizes
  <1>2. Ids = 1 .. Cardinality(Runs) + 1 /\ Cardinality(Accepted) \in Nat /\ Cardinality(Runs) \in Nat
        /\ Cardinality(Accepted) <= Cardinality(Runs)
    BY Sizes
  <1>3. CASE Held(seen) = {}
    BY <1>2, <1>3
  <1>4. CASE Held(seen) # {}
    <2>1. Max(Held(seen)) \in Held(seen) /\ \A i \in Held(seen) : i <= Max(Held(seen))
      BY <1>1, <1>2, <1>4, MinAndMax
    <2>2. \A i \in Held(seen) : i \in Nat /\ i <= Cardinality(Accepted)
      BY <1>1, <1>2
    <2>3. number = Max(Held(seen)) + 1
      BY <1>4
    <2> HIDE DEF Held
    <2> QED BY <1>2, <2>1, <2>2, <2>3
  <1> QED BY <1>3, <1>4

LEMMA LoadTyped ==
  ASSUME Always, NEW p \in Pods, NEW restarts \in Nat, Load(p, restarts),
         JobMoves, Accepted' = Accepted, UNCHANGED store
  PROVE  \E read \in Loads(p) :
           /\ before' = [before EXCEPT ![p] = read.seen]
           /\ nextId' = [nextId EXCEPT ![p] = IF Held(read.seen) = {} THEN 1 ELSE Max(Held(read.seen)) + 1]
           /\ patches' = patches \cup read.patches
           /\ Happened(0, 0, restarts, read.faults)
           /\ before' \in [Pods -> [Ids -> Records]] /\ nextId' \in [Pods -> Ids]
           /\ patches' \subseteq Patches /\ bounds' \in Counts
           /\ Named' /\ Counted'
           /\ \A w \in read.patches : w.writer = "settle"
PROOF
  <1>1. PICK read \in Loads(p) :
          /\ before' = [before EXCEPT ![p] = read.seen]
          /\ nextId' = [nextId EXCEPT ![p] = IF Held(read.seen) = {} THEN 1 ELSE Max(Held(read.seen)) + 1]
          /\ patches' = patches \cup read.patches
          /\ Happened(0, 0, restarts, read.faults)
    BY DEF Load, Held
  <1>2. /\ read.seen \in [Ids -> Records] /\ Names(read.seen)
        /\ read.patches \subseteq Patches /\ read.faults \in Nat
        /\ \A w \in read.patches : Cited(w.id, w.record.run) /\ w.writer = "settle"
    BY ReadTyped
  <1>3. /\ before' \in [Pods -> [Ids -> Records]]
        /\ \A q \in Pods : \A i \in Held(before'[q]) : Cited(i, before'[q][i].run)
    BY <1>1, <1>2, MemoryTyped
  <1>4. Named'
    BY <1>1, <1>2, <1>3, NamedNow, NamedStep, CitedGoesOn
  <1>5. PICK number : number = IF Held(read.seen) = {} THEN 1 ELSE Max(Held(read.seen)) + 1
    OBVIOUS
  <1>6. number \in Ids /\ number <= Cardinality(Accepted) + 1
    BY <1>2, <1>5, NextNumber
  <1>7. nextId' = [nextId EXCEPT ![p] = number] /\ nextId \in [Pods -> Ids]
    BY <1>1, <1>5, Facts
  <1>8. nextId' \in [Pods -> Ids]
    BY <1>6, <1>7
  <1>9. Counted'
    <2>1. \A q \in Pods : nextId'[q] <= Cardinality(Accepted) + 1
      BY <1>6, <1>7 DEF Always, Counted
    <2> QED BY <2>1, CountedStays DEF Always
  <1>10. patches' \subseteq Patches /\ bounds' \in Counts
    BY <1>1, <1>2, Facts, HappenedTyped
  <1> QED BY <1>1, <1>2, <1>3, <1>4, <1>8, <1>9, <1>10

LEMMA AlwaysStart ==
  ASSUME Always, NEW p \in Pods \ {1}, Start(p)
  PROVE  Always'
PROOF
  <1>1. /\ pod[p] = "none" /\ pod[p - 1] \notin {"none", "up"}
        /\ pod' = [pod EXCEPT ![p] = "up"] /\ Load(p, 0) /\ UNCHANGED <<job, store>>
    BY DEF Start, Becomes
  <1>2. JobMoves /\ Accepted' = Accepted
    BY <1>1, JobStays
  <1>3. PICK read \in Loads(p) :
           /\ patches' = patches \cup read.patches
           /\ before' \in [Pods -> [Ids -> Records]] /\ nextId' \in [Pods -> Ids]
           /\ patches' \subseteq Patches /\ bounds' \in Counts
           /\ Named' /\ Counted'
           /\ \A w \in read.patches : w.writer = "settle"
    BY <1>1, <1>2, LoadTyped
  <1>4. pod' \in [Pods -> {"none", "up", "stopping", "draining", "ended", "gone"}]
        /\ pod'[p] = "up" /\ \A q \in Pods \ {p} : pod'[q] = pod[q]
    BY <1>1, Facts
  <1>5. Typed'
    BY <1>1, <1>3, <1>4, Facts DEF Typed, TypeOK, JobType, Threads
  <1>6. Chain'
    <2> SUFFICES ASSUME NEW a \in Pods, NEW b \in Pods, b < a, pod'[a] # "none"
                 PROVE  pod'[b] \notin {"none", "up"}
      BY DEF Chain
    <2>1. p \in Nat /\ a \in Nat /\ b \in Nat /\ p > 1 /\ p - 1 \in Pods
      BY JobsAssumption DEF Pods
    <2>2. CASE a = p
      <3>1. b = p - 1 \/ b < p - 1
        BY <2>1, <2>2
      <3>2. pod[b] \notin {"none", "up"}
        BY <1>1, <2>1, <3>1 DEF Always, Chain
      <3> QED BY <3>2, <1>4, <2>1, <2>2
    <2>3. CASE a # p
      <3>1. pod[b] \notin {"none", "up"}
        BY <2>3, <1>4 DEF Always, Chain
      <3> QED BY <3>1, <1>1, <1>4
    <2> QED BY <2>2, <2>3
  <1>7. JobsOK'
    <2> SUFFICES ASSUME NEW r \in Runs PROVE JobOK(r)'
      BY DEF JobsOK
    <2> QED BY <1>1, <1>4 DEF Always, JobsOK, JobOK, Live, Alive, Running
  <1>8. Starts'
    <2>1. /\ \A w \in patches' : w.writer = "start" => w \in patches
          /\ \A w \in patches : w.writer = "start" => w \in patches'
      BY <1>3
    <2> QED BY <2>1, <1>1, <1>2, StartsStay
  <1>9. Finals'
    <2>1. \A w \in patches' : w.writer = "final" => w \in patches
      BY <1>3
    <2> QED BY <2>1, <1>1, FinalsStay
  <1> QED BY <1>3, <1>5, <1>6, <1>7, <1>8, <1>9 DEF Always

LEMMA AlwaysRestart ==
  ASSUME Always, NEW p \in Pods, Restart(p)
  PROVE  Always'
PROOF
  <1>1. pod[p] = "up" /\ job' = Ended(p) /\ Load(p, 1) /\ UNCHANGED <<pod, store>>
    BY DEF Restart
  <1>2. /\ JobMoves /\ Accepted' = Accepted
        /\ \A r \in Runs : job[r].pod = p => job'[r].thread = "dead"
        /\ \A r \in Runs : job[r].pod # p => job'[r] = job[r]
    BY <1>1, JobMovesEnded
  <1>3. PICK read \in Loads(p) :
           /\ patches' = patches \cup read.patches
           /\ before' \in [Pods -> [Ids -> Records]] /\ nextId' \in [Pods -> Ids]
           /\ patches' \subseteq Patches /\ bounds' \in Counts
           /\ Named' /\ Counted'
           /\ \A w \in read.patches : w.writer = "settle"
    BY <1>1, <1>2, LoadTyped
  <1>4. JobsOK'
    <2> SUFFICES ASSUME NEW r \in Runs PROVE JobOK(r)'
      BY DEF JobsOK
    <2>1. JobOK(r) /\ 0 \notin Pods
      BY DEF Always, JobsOK, Pods
    <2>2. CASE job[r].pod = p
      BY <2>1, <2>2, <1>1, <1>2 DEF JobOK, Live, Running, JobMoves
    <2>3. CASE job[r].pod # p
      BY <2>1, <2>3, <1>1, <1>2 DEF JobOK, Live, Alive, Running
    <2> QED BY <2>2, <2>3
  <1>5. \A r \in Runs : job'[r].thread = job[r].thread \/ job'[r].thread = "dead"
    BY <1>2
  <1>6. Starts'
    <2>1. /\ \A w \in patches' : w.writer = "start" => w \in patches
          /\ \A w \in patches : w.writer = "start" => w \in patches'
      BY <1>3
    <2>2. /\ \A s \in Runs : job'[s].thread = "starting" => job[s].thread = "starting"
          /\ \A s \in Runs : job[s].thread \in {"starting", "dead"} => job'[s].thread \in {"starting", "dead"}
      BY <1>5
    <2> QED BY <2>1, <2>2, <1>2, StartsStay
  <1>7. Finals'
    <2>1. \A w \in patches' : w.writer = "final" => w \in patches
      BY <1>3
    <2> QED BY <2>1, <1>5, FinalsStay
  <1> QED BY <1>1, <1>2, <1>3, <1>4, <1>6, <1>7, Facts, AlwaysStep

LEMMA Steps ==
  ASSUME Next
  PROVE  \/ \E p \in Pods : Page(p) \/ PodAction(p) \/ Restart(p)
         \/ \E p \in Pods \ {1} : Start(p)
         \/ \E p \in Pods, r \in Runs, u \in Units : Submit(p, r, u)
         \/ \E r \in Runs : JobAction(r)
         \/ \E w \in patches : Apply(w) \/ Lose(w)
  BY DEF Next, PodAction, JobAction

LEMMA AlwaysInit ==
  ASSUME Init
  PROVE  Always
PROOF
  <1>1. /\ Runs \subseteq Nat \ {0} /\ IsFiniteSet(Runs) /\ Cardinality(Runs) \in Nat
        /\ MaxPods \in Nat /\ 1 \in Pods /\ Pods \subseteq Nat \ {0}
    BY JobsAssumption, FS_CardinalityType DEF Pods
  <1>2. 1 \in Ids
    BY <1>1 DEF Ids
  <1>3. (CHOOSE u \in Units : TRUE) \in Units
    BY JobsAssumption
  <1>4. job \in [Runs -> JobType] /\ \A r \in Runs : job[r].thread = "none" /\ job[r].pod = 0
    BY <1>3 DEF Init, JobType, States, Threads
  <1>5. Typed
    BY <1>1, <1>2, <1>4, RecordsTyped DEF Init, Typed, TypeOK, JobType, Threads, Counts
  <1>6. Named
    BY DEF Init, Named, Names, Held
  <1>7. Accepted = {} /\ Cardinality(Accepted) = 0
    BY <1>4, FS_EmptySet DEF Accepted
  <1>8. Counted
    BY <1>7 DEF Init, Counted
  <1>9. Chain
    BY <1>1 DEF Init, Chain
  <1>10. JobsOK
    BY <1>4 DEF JobsOK, JobOK, Live, Running
  <1>11. Starts /\ Finals
    BY <1>4 DEF Init, Starts, Finals
  <1> QED BY <1>5, <1>6, <1>8, <1>9, <1>10, <1>11 DEF Always

LEMMA AlwaysNext ==
  ASSUME Always, [Next]_vars
  PROVE  Always'
PROOF
  <1>1. CASE UNCHANGED vars
    <2>1. UNCHANGED <<pod, before, nextId, job, store, patches, bounds>>
      BY <1>1 DEF vars
    <2> QED BY <2>1 DEF Always, Typed, TypeOK, Named, Names, Held, Cited, Counted, Accepted, Chain,
               JobsOK, JobOK, Live, Alive, Running, Starts, First, Finals
  <1>2. CASE Next
    BY <1>2, Steps, AlwaysPage, AlwaysPod, AlwaysRestart, AlwaysStart, AlwaysSubmit, AlwaysJob, AlwaysAnswered
  <1> QED BY <1>1, <1>2

(* The state of the pods, their memory, the jobs and the records stays     *)
(* within its types whatever is accepted late, ends, fails or is lost, for *)
(* any number of pods, jobs and units.                                     *)
THEOREM TypesKept == Spec => []TypeOK
PROOF
  <1>1. Init => Always
    BY AlwaysInit
  <1>2. Always /\ [Next]_vars => Always'
    BY AlwaysNext
  <1>3. Always => TypeOK
    BY DEF Always, Typed
  <1> QED BY <1>1, <1>2, <1>3, PTL DEF Spec

-----------------------------------------------------------------------------
(* What holds while no request comes late and no read or write fails.      *)

Last(p) == \A q \in Pods : q > p => pod[q] = "none"

(* A patch touches no record of a running job but its own.                 *)
PatchOK(w) ==
  /\ w.writer = "settle" => pod[job[w.record.run].pod] = "gone"
  /\ w.writer = "keep" => w.record.state = "running" /\ job[w.record.run].thread # "starting"
  /\ w.writer # "start" => w.forget = {}
  /\ w.writer = "start" =>
       /\ Last(w.by) /\ \A i \in w.forget : i < w.id
       /\ \A r \in Runs : Running(r) => job[r].id \notin w.forget
Sound == \A w \in patches : PatchOK(w)

(* A pod that reads the store numbers its jobs above all that is known.    *)
Topped(i) == \E k \in Held(store) : k >= i
ToppedNext(i) == \E k \in Held(store') : k >= i
Tops ==
  /\ \A p \in Pods : \A i \in Held(before[p]) : Topped(i)
  /\ \A w \in patches : w.writer # "start" => Topped(w.id)
  /\ \A r \in Runs : job[r].thread \in {"working", "ended", "saving", "over"} => Topped(job[r].id)

(* No other job has the number of one that lives.                          *)
Own(r) ==
  /\ store[job[r].id].run \in {0, r}
  /\ \A p \in Pods : before[p][job[r].id].run \in {0, r}
  /\ \A w \in patches : w.id = job[r].id => w.record.run = r
  /\ \A s \in Runs : Live(s) /\ job[s].id = job[r].id => s = r
Owns == \A r \in Runs : Live(r) => Own(r)

(* The pod that accepts jobs: its next number, and the jobs it must know.  *)
Fresh(p) ==
  /\ \A i \in Held(store) : i < nextId[p]
  /\ \A q \in Pods : \A i \in Held(before[q]) : i < nextId[p]
  /\ \A w \in patches : w.id < nextId[p]
  /\ \A r \in Runs : Live(r) => job[r].id < nextId[p]
Known(p) ==
  \A r \in Runs : Running(r) /\ job[r].pod # p => before[p][job[r].id] = [run |-> r, state |-> "running"]
Leads == \A p \in Pods : pod[p] = "up" => Fresh(p) /\ Known(p)

Remembered ==
  \A r \in Runs : job[r].thread = "working" => store[job[r].id] = [run |-> r, state |-> "running"]
Single == \A r, s \in Runs : r # s /\ Running(r) /\ Running(s) => job[r].unit # job[s].unit

Good == Sound /\ Tops /\ Owns /\ Leads /\ Remembered /\ Single

LEMMA OneUp ==
  ASSUME Always, NEW p \in Pods, pod[p] = "up", NEW q \in Pods, q # p
  PROVE  pod[q] # "up" /\ (q > p => pod[q] = "none")
PROOF
  <1>1. p \in Nat /\ q \in Nat
    BY DEF Pods
  <1> QED BY <1>1 DEF Always, Chain

(* No job starts but in the last pod.                                      *)
LEMMA StartsLast ==
  ASSUME Always, Good, NEW p \in Pods, pod[p] = "up", NEW w \in patches, w.writer = "start"
  PROVE  w.by = p
PROOF
  <1>1. w.by = job[w.record.run].pod /\ Cited(w.id, w.record.run) /\ Last(w.by)
    BY NamedNow DEF Always, Starts, Good, Sound, PatchOK
  <1>2. w.by \in Pods /\ pod[w.by] # "none"
    BY <1>1 DEF Cited, Always, JobsOK, JobOK
  <1>3. p \in Nat /\ w.by \in Nat
    BY <1>2 DEF Pods
  <1> QED BY <1>1, <1>2, <1>3 DEF Last, Always, Chain

LEMMA StartingLast ==
  ASSUME Always, Good, NEW p \in Pods, pod[p] = "up", NEW r \in Runs, job[r].thread = "starting"
  PROVE  job[r].pod = p /\ \E w \in patches : First(w, r) /\ w.by = p
PROOF
  <1>1. PICK w \in patches : First(w, r)
    BY DEF Always, Starts
  <1>2. w.by = job[r].pod
    BY <1>1 DEF Always, Starts, First
  <1> QED BY <1>1, <1>2, StartsLast DEF First

LEMMA IdOf ==
  ASSUME Always, NEW r \in Runs, job[r].thread # "none"
  PROVE  job[r].id \in Ids /\ job[r].pod \in Pods
PROOF
  <1>1. job[r].id \in 1 .. Cardinality(Accepted)
    BY DEF Always, Counted, Accepted
  <1> QED BY <1>1, Sizes DEF Always, JobsOK, JobOK

(* The steps that stop, end and remove a pod.                              *)
LEMMA GoodPod ==
  ASSUME Always, Good, NEW p \in Pods, PodAction(p)
  PROVE  Good'
PROOF
  <1>1. PICK phase \in {"stopping", "draining", "ended", "gone"} : pod' = [pod EXCEPT ![p] = phase]
    BY PodMoves
  <1>2. /\ pod[p] \notin {"none", "gone"}
        /\ JobMoves
        /\ \A r \in Runs : job'[r] = job[r] \/ (job'[r].thread = "dead" /\ job'[r].pod = job[r].pod)
        /\ UNCHANGED <<before, nextId, store, patches>>
    BY PodMoves
  <1>3. /\ pod'[p] = phase /\ \A q \in Pods \ {p} : pod'[q] = pod[q]
    BY <1>1, Facts
  <1>4. /\ \A q \in Pods : pod'[q] = "up" => pod[q] = "up"
        /\ \A q \in Pods : pod[q] = "gone" => pod'[q] = "gone"
        /\ \A q \in Pods : pod[q] = "none" => pod'[q] = "none"
    BY <1>2, <1>3
  <1>5. \A r \in Runs : job'[r].thread \notin {"none", "dead"} => job'[r] = job[r]
    BY <1>2
  <1>6. Sound'
    <2> SUFFICES ASSUME NEW w \in patches PROVE PatchOK(w)'
      BY <1>2 DEF Sound
    <2>1. PatchOK(w) /\ Cited(w.id, w.record.run) /\ w.record.run \in Runs
      BY NamedNow DEF Good, Sound, Cited
    <2>2. w.writer = "settle" => pod'[job'[w.record.run].pod] = "gone"
      <3>1. job'[w.record.run].pod = job[w.record.run].pod /\ job[w.record.run].pod \in Pods
        BY <2>1, <1>2, IdOf DEF Cited, JobMoves
      <3> QED BY <3>1, <2>1, <1>4 DEF PatchOK
    <2>3. w.writer = "keep" => w.record.state = "running" /\ job'[w.record.run].thread # "starting"
      BY <2>1, <1>5 DEF PatchOK
    <2>4. w.writer = "start" => Last(w.by)'
      BY <2>1, <1>4 DEF PatchOK, Last
    <2>5. w.writer = "start" => \A r \in Runs : Running(r)' => job'[r].id \notin w.forget
      BY <2>1, <1>5 DEF PatchOK, Running
    <2> QED BY <2>1, <2>2, <2>3, <2>4, <2>5 DEF PatchOK
  <1>7. Tops'
    BY <1>2, <1>5 DEF Good, Tops, Topped, Held
  <1>8. Owns'
    BY <1>2, <1>5 DEF Good, Owns, Own, Live
  <1>9. Leads'
    BY <1>2, <1>4, <1>5 DEF Good, Leads, Fresh, Known, Live, Running, Held
  <1>10. Remembered'
    BY <1>2, <1>5 DEF Good, Remembered
  <1>11. Single'
    BY <1>5 DEF Good, Single, Running
  <1> QED BY <1>6, <1>7, <1>8, <1>9, <1>10, <1>11 DEF Good

LEMMA GoodJob ==
  ASSUME Always, Good, NEW r \in Runs, JobAction(r)
  PROVE  Good'
PROOF
  <1>1. /\ JobMoves /\ UNCHANGED <<pod, before, nextId, store, bounds>>
        /\ Live(r) /\ job[r].thread \notin {"starting", "saving", "over"}
        /\ \A s \in Runs \ {r} : job'[s] = job[s]
        /\ job'[r].thread \in {"working", "ended", "saving"}
        /\ job'[r].thread = "working" => job' = job /\ job[r].thread = "working"
    BY JobStep
  <1>2. /\ patches \subseteq patches'
        /\ \A w \in patches' \ patches :
             /\ w.id = job[r].id /\ w.record.run = r /\ w.forget = {}
             /\ w.writer \in {"keep", "final"}
             /\ w.writer = "keep" => w.record.state = "running" /\ job' = job
    BY JobStep
  <1>3. /\ \A s \in Runs : Running(s)' => Running(s) /\ job'[s] = job[s]
        /\ \A s \in Runs : Live(s)' => Live(s)
        /\ \A s \in Runs : job[s].thread # "none" => job'[s].id = job[s].id /\ job'[s].pod = job[s].pod
        /\ \A s \in Runs : job'[s].thread = "starting" => job[s].thread = "starting"
        /\ \A s \in Runs : job'[s].thread = "working" => job[s].thread = "working"
    BY <1>1 DEF Running, Live, JobMoves
  <1>4. Topped(job[r].id)
    BY <1>1 DEF Live, Good, Tops, Always, Typed, TypeOK
  <1>5. Sound'
    <2> SUFFICES ASSUME NEW w \in patches' PROVE PatchOK(w)'
      BY DEF Sound
    <2>1. CASE w \in patches
      <3>1. PatchOK(w) /\ w.record.run \in Runs /\ job[w.record.run].thread # "none"
        BY <2>1, NamedNow DEF Good, Sound, Cited
      <3>2. w.writer = "settle" => pod'[job'[w.record.run].pod] = "gone"
        BY <3>1, <1>1, <1>3 DEF PatchOK
      <3>3. w.writer = "keep" => w.record.state = "running" /\ job'[w.record.run].thread # "starting"
        BY <3>1, <1>3 DEF PatchOK
      <3>4. w.writer = "start" =>
              /\ Last(w.by)' /\ \A i \in w.forget : i < w.id
              /\ \A s \in Runs : Running(s)' => job'[s].id \notin w.forget
        BY <3>1, <1>1, <1>3 DEF PatchOK, Last
      <3> QED BY <3>1, <3>2, <3>3, <3>4 DEF PatchOK
    <2>2. CASE w \notin patches
      BY <2>2, <1>1, <1>2 DEF PatchOK
    <2> QED BY <2>1, <2>2
  <1>6. Tops'
    <2>1. \A w \in patches' : w.writer # "start" => Topped(w.id)
      BY <1>2, <1>4 DEF Good, Tops
    <2>2. \A s \in Runs : job'[s].thread \in {"working", "ended", "saving", "over"} => Topped(job'[s].id)
      BY <1>1, <1>4, <1>3 DEF Good, Tops, Live
    <2> QED BY <2>1, <2>2, <1>1 DEF Good, Tops, Topped, Held
  <1>7. Owns'
    <2> SUFFICES ASSUME NEW s \in Runs, Live(s)' PROVE Own(s)'
      BY DEF Owns
    <2>1. Live(s) /\ Own(s) /\ job'[s].id = job[s].id
      BY <1>3 DEF Good, Owns, Live
    <2>2. \A w \in patches' : w.id = job[s].id => w.record.run = s
      BY <2>1, <1>1, <1>2 DEF Own
    <2>3. \A t \in Runs : Live(t)' /\ job'[t].id = job[s].id => t = s
      BY <2>1, <1>3 DEF Own, Live
    <2> QED BY <2>1, <2>2, <2>3, <1>1 DEF Own
  <1>8. Leads'
    <2> SUFFICES ASSUME NEW p \in Pods, pod[p] = "up" PROVE Fresh(p)' /\ Known(p)'
      BY <1>1 DEF Leads
    <2>1. Fresh(p) /\ Known(p)
      BY DEF Good, Leads
    <2>2. \A w \in patches' : w.id < nextId[p]
      BY <2>1, <1>1, <1>2 DEF Fresh
    <2>3. \A s \in Runs : Live(s)' => job'[s].id < nextId[p]
      BY <2>1, <1>3 DEF Fresh, Live
    <2>4. Known(p)'
      BY <2>1, <1>1, <1>3 DEF Known
    <2> QED BY <2>1, <2>2, <2>3, <2>4, <1>1 DEF Fresh, Held
  <1>9. Remembered'
    BY <1>1, <1>3 DEF Good, Remembered, Running
  <1>10. Single'
    BY <1>3 DEF Good, Single
  <1> QED BY <1>5, <1>6, <1>7, <1>8, <1>9, <1>10 DEF Good

(* What a pod reads without a failure, and saves of it.                    *)
LEMMA ReadGood ==
  ASSUME Always, Good, NEW p \in Pods, NEW read \in Reads(p) \cup Loads(p)
  PROVE  /\ \A i \in Held(read.seen) : Topped(i)
         /\ \A w \in read.patches : Topped(w.id)
         /\ \A r \in Runs : Live(r) =>
              /\ read.seen[job[r].id].run \in {0, r}
              /\ \A w \in read.patches : w.id = job[r].id => w.record.run = r
PROOF
  <1>1. /\ \A i \in Held(read.seen) : i \in Held(before[p]) \/ i \in Held(store)
        /\ \A i \in Ids : read.seen[i].run \in {0, before[p][i].run, store[i].run}
        /\ \A w \in read.patches :
              /\ w.id \in Held(before[p]) \/ w.id \in Held(store)
              /\ Cited(w.id, w.record.run) /\ w.record.run \in {0, before[p][w.id].run, store[w.id].run}
    BY ReadTyped
  <1>2. \A i \in Ids : i \in Held(before[p]) \/ i \in Held(store) => Topped(i)
    <2>1. \A i \in Held(store) : Topped(i)
      BY Sizes DEF Topped, Held
    <2> QED BY <2>1 DEF Good, Tops
  <1>3. Held(read.seen) \subseteq Ids /\ Held(store) \subseteq Ids /\ Held(before[p]) \subseteq Ids
    BY DEF Held
  <1>4. ASSUME NEW r \in Runs, Live(r)
        PROVE  /\ read.seen[job[r].id].run \in {0, r}
               /\ \A w \in read.patches : w.id = job[r].id => w.record.run = r
    <2>1. job[r].id \in Ids
      BY <1>4, IdOf DEF Live
    <2>2. store[job[r].id].run \in {0, r} /\ before[p][job[r].id].run \in {0, r}
      BY <1>4 DEF Good, Owns, Own
    <2>3. \A w \in read.patches : w.record.run # 0
      BY <1>1, Sizes DEF Cited
    <2> QED BY <1>1, <2>1, <2>2, <2>3
  <1> QED BY <1>1, <1>2, <1>3, <1>4

LEMMA ReadKnows ==
  ASSUME Always, Good, NEW p \in Pods, pod[p] = "up", NEW read \in Reads(p), read.faults = 0,
         NEW r \in Runs, Running(r), job[r].pod # p
  PROVE  read.seen[job[r].id] = [run |-> r, state |-> "running"]
PROOF
  <1> DEFINE i == job[r].id
             mine == [run |-> r, state |-> "running"]
  <1>1. i \in Ids
    BY IdOf DEF Running
  <1>2. before[p][i] = mine
    BY DEF Good, Leads, Known
  <1>3. job[r].thread = "working"
    BY StartingLast DEF Running
  <1>4. store[i] = mine
    BY <1>3 DEF Good, Remembered
  <1>5. Reread(p)[i] = mine
    BY <1>1, <1>2, <1>4 DEF Reread
  <1>6. pod[job[r].pod] # "gone"
    BY DEF Always, JobsOK, JobOK, Live, Alive, Running
  <1>7. i \notin Forsaken(Reread(p))
    BY <1>5, <1>6 DEF Forsaken, OwnerGone
  <1>8. Settled(Reread(p))[i] = mine
    BY <1>1, <1>5, <1>7 DEF Settled
  <1>9. read = Reading(p, before[p], FALSE, 0) \/ read = Reading(p, Reread(p), TRUE, 0)
    <2>1. \/ read = Reading(p, before[p], FALSE, 0) \/ read = Reading(p, Reread(p), TRUE, 0)
          \/ read = Reading(p, before[p], TRUE, 1) \/ read = Reading(p, Reread(p), FALSE, 1)
      BY DEF Reads
    <2> QED BY <2>1 DEF Reading
  <1> QED BY <1>2, <1>8, <1>9 DEF Reading

LEMMA GoodPage ==
  ASSUME Always, Good, NEW p \in Pods, Page(p), bounds'.faults = bounds.faults
  PROVE  Good'
PROOF
  <1>1. PICK read \in Reads(p) :
          /\ before' = [before EXCEPT ![p] = read.seen]
          /\ patches' = patches \cup read.patches
          /\ Happened(0, 0, 0, read.faults)
    BY DEF Page
  <1>2. UNCHANGED <<pod, nextId, job, store>>
    BY DEF Page
  <1>3. read.faults = 0
    <2>1. bounds \in Counts /\ read.faults \in {0, 1}
      BY Facts, ReadTyped
    <2>2. bounds'.faults = bounds.faults + read.faults
      BY <1>1, <2>1, HappenedTyped
    <2> QED BY <2>1, <2>2 DEF Counts
  <1>4. before'[p] = read.seen /\ \A q \in Pods \ {p} : before'[q] = before[q]
    BY <1>1, Facts
  <1>5. \A w \in read.patches : w.writer = "settle" /\ w.forget = {} /\ pod[job[w.record.run].pod] = "gone"
    BY ReadTyped
  <1>6. /\ \A i \in Held(read.seen) : Topped(i)
        /\ \A w \in read.patches : Topped(w.id)
        /\ \A r \in Runs : Live(r) =>
              /\ read.seen[job[r].id].run \in {0, r}
              /\ \A w \in read.patches : w.id = job[r].id => w.record.run = r
    BY ReadGood
  <1>7. Sound'
    <2> SUFFICES ASSUME NEW w \in patches' PROVE PatchOK(w)'
      BY DEF Sound
    <2>1. CASE w \in patches
      BY <2>1, <1>2 DEF Good, Sound, PatchOK, Last, Running
    <2>2. CASE w \in read.patches
      BY <2>2, <1>2, <1>5 DEF PatchOK
    <2> QED BY <2>1, <2>2, <1>1
  <1>8. Tops'
    <2>1. \A q \in Pods : \A i \in Held(before'[q]) : Topped(i)
      BY <1>4, <1>6 DEF Good, Tops
    <2>2. \A w \in patches' : w.writer # "start" => Topped(w.id)
      BY <1>1, <1>6 DEF Good, Tops
    <2> QED BY <2>1, <2>2, <1>2 DEF Good, Tops, Topped, Held
  <1>9. Owns'
    <2> SUFFICES ASSUME NEW r \in Runs, Live(r) PROVE Own(r)'
      BY <1>2 DEF Owns, Live
    <2>1. Own(r)
      BY DEF Good, Owns
    <2>2. \A q \in Pods : before'[q][job[r].id].run \in {0, r}
      BY <2>1, <1>4, <1>6 DEF Own
    <2>3. \A w \in patches' : w.id = job[r].id => w.record.run = r
      BY <2>1, <1>1, <1>6 DEF Own
    <2> QED BY <2>1, <2>2, <2>3, <1>2 DEF Own, Live
  <1>10. Leads'
    <2> SUFFICES ASSUME NEW q \in Pods, pod[q] = "up" PROVE Fresh(q)' /\ Known(q)'
      BY <1>2 DEF Leads
    <2>1. Fresh(q) /\ Known(q) /\ nextId[q] \in Ids
      BY Facts DEF Good, Leads
    <2>2. \A i \in Ids : Topped(i) => i < nextId[q]
      BY <2>1, Sizes DEF Topped, Fresh, Held
    <2>3. \A x \in Pods : \A i \in Held(before'[x]) : i < nextId[q]
      BY <2>1, <2>2, <1>4, <1>6 DEF Fresh, Held
    <2>4. \A w \in patches' : w.id < nextId[q]
      <3>1. \A w \in read.patches : w.id \in Ids
        BY ReadTyped DEF Patches
      <3> QED BY <3>1, <2>1, <2>2, <1>1, <1>6 DEF Fresh
    <2>5. Known(q)'
      <3>1. CASE q = p
        BY <3>1, <1>2, <1>3, <1>4, ReadKnows DEF Known, Running
      <3>2. CASE q # p
        BY <3>2, <2>1, <1>2, <1>4 DEF Known, Running
      <3> QED BY <3>1, <3>2
    <2> QED BY <2>1, <2>3, <2>4, <2>5, <1>2 DEF Fresh, Live
  <1>11. Remembered' /\ Single'
    BY <1>2 DEF Good, Remembered, Single, Running
  <1> QED BY <1>7, <1>8, <1>9, <1>10, <1>11 DEF Good

LEMMA GoodSubmit ==
  ASSUME Always, Good, NEW p \in Pods, NEW r \in Runs, NEW u \in Units, Submit(p, r, u),
         bounds'.faults = bounds.faults, bounds'.late = bounds.late
  PROVE  Good'
PROOF
  <1>1. PICK read \in Reads(p) :
           LET old == Forgotten(p, read.seen)
               start == [by |-> p, writer |-> "start", id |-> nextId[p],
                         record |-> [run |-> r, state |-> "running"], forget |-> old]
           IN  /\ ~Busy(p, read.seen, u)
               /\ before' = [before EXCEPT ![p] = [i \in Ids |-> IF i \in old THEN NoRecord ELSE read.seen[i]]]
               /\ patches' = patches \cup read.patches \cup {start}
               /\ Happened(IF pod[p] = "stopping" THEN 1 ELSE 0, 0, 0, read.faults)
               /\ old \subseteq Ids /\ start \in Patches
               /\ job[r].thread = "none" /\ Serving(p)
               /\ JobMoves /\ Accepted' = Accepted \cup {r} /\ r \notin Accepted
               /\ \A s \in Runs \ {r} : job'[s] = job[s]
               /\ job'[r] = [pod |-> p, id |-> nextId[p], unit |-> u, state |-> "running",
                             thread |-> "starting"]
               /\ nextId' = [nextId EXCEPT ![p] = @ + 1]
               /\ UNCHANGED <<pod, store>>
    BY SubmitMoves
  <1> DEFINE old == Forgotten(p, read.seen)
             seen == [i \in Ids |-> IF i \in old THEN NoRecord ELSE read.seen[i]]
             start == [by |-> p, writer |-> "start", id |-> nextId[p],
                       record |-> [run |-> r, state |-> "running"], forget |-> old]
  <1>2. read.faults = 0 /\ pod[p] = "up"
    <2>1. bounds \in Counts /\ read.faults \in {0, 1}
      BY Facts, ReadTyped
    <2>2. PICK late \in {0, 1} : late = IF pod[p] = "stopping" THEN 1 ELSE 0
      OBVIOUS
    <2>3. bounds'.faults = bounds.faults + read.faults /\ bounds'.late = bounds.late + late
      BY <1>1, <2>1, <2>2, HappenedTyped
    <2> QED BY <1>1, <2>1, <2>2, <2>3 DEF Counts, Serving
  <1>3. before' = [before EXCEPT ![p] = seen] /\ before'[p] = seen /\ \A q \in Pods \ {p} : before'[q] = before[q]
    BY <1>1, Facts
  <1>4. /\ start.by = p /\ start.writer = "start" /\ start.id = nextId[p] /\ start.record.run = r
        /\ start.forget = old /\ patches' = patches \cup read.patches \cup {start}
    BY <1>1
  <1>5. \A i \in Ids : seen[i] = NoRecord \/ (seen[i] = read.seen[i] /\ i \notin old)
    OBVIOUS
  <1>6. \A i \in Ids : i \notin old => seen[i] = read.seen[i]
    OBVIOUS
  <1>7. Fresh(p) /\ Known(p) /\ nextId[p] \in Ids /\ nextId'[p] = nextId[p] + 1
    BY <1>1, <1>2, Facts DEF Good, Leads
  <1>8. /\ read.seen \in [Ids -> Records]
        /\ \A w \in read.patches :
             /\ w.writer = "settle" /\ w.forget = {} /\ pod[job[w.record.run].pod] = "gone"
             /\ w.id \in Ids /\ Cited(w.id, w.record.run)
    BY ReadTyped DEF Patches
  <1>9. /\ \A i \in Held(read.seen) : Topped(i)
        /\ \A w \in read.patches : Topped(w.id)
        /\ \A s \in Runs : Live(s) =>
              /\ read.seen[job[s].id].run \in {0, s}
              /\ \A w \in read.patches : w.id = job[s].id => w.record.run = s
    BY ReadGood
  <1>10. \A i \in Ids : Topped(i) => i < nextId[p]
    BY <1>7, Sizes DEF Topped, Fresh, Held
  <1>11. \A i \in Held(read.seen) : i \in Ids /\ i < nextId[p]
    BY <1>9, <1>10 DEF Held
  <1>12. ASSUME NEW s \in Runs \ {r}, Running(s), job[s].pod # p
         PROVE  read.seen[job[s].id] = [run |-> s, state |-> "running"]
    BY <1>2, <1>12, ReadKnows
  <1>13. \A s \in Mine(p) : Live(s)
    <2>1. 0 \notin Pods
      BY DEF Pods
    <2> QED BY <2>1 DEF Mine, Live, Always, JobsOK, JobOK
  <1>14. ASSUME NEW s \in Runs \ {r}, Running(s)
         PROVE  job[s].id \notin old /\ job[s].unit # u /\ job[s].state = "running"
    <2>1. job[s].id \in Ids /\ job[s].state = "running" /\ job[s].thread # "dead"
      BY <1>14, IdOf DEF Running, Always, JobsOK, JobOK
    <2>2. CASE job[s].pod = p
      <3>1. s \in Mine(p)
        BY <2>1, <2>2 DEF Mine
      <3> QED BY <3>1, <2>1, <1>1 DEF Forgotten, Busy
    <2>3. CASE job[s].pod # p
      <3>1. read.seen[job[s].id] = [run |-> s, state |-> "running"]
        BY <2>3, <1>12, <1>14
      <3> QED BY <3>1, <2>1, <1>1 DEF Forgotten, Busy
    <2> QED BY <2>2, <2>3
  <1>15. \A i \in old : i \in Ids /\ i < nextId[p]
    <2>1. \A s \in Mine(p) : job[s].id < nextId[p]
      BY <1>7, <1>13 DEF Fresh, Mine
    <2>2. \A i \in old : i \in Held(read.seen) \/ \E s \in Mine(p) : i = job[s].id
      BY DEF Forgotten, MyIds, Held
    <2> QED BY <2>1, <2>2, <1>1, <1>11
  <1> HIDE DEF old, seen, start
  <1>16. \A s \in Runs : Live(s) => s # r
    BY <1>1 DEF Live
  <1>17. \A s \in Runs : Live(s) => job[s].id \in Ids /\ job[s].id < nextId[p] /\ job[s].id # nextId[p]
    <2>1. nextId[p] \in Nat /\ \A s \in Runs : Live(s) => job[s].id \in Ids /\ job[s].id < nextId[p]
      BY <1>7, IdOf, Sizes DEF Fresh, Live
    <2>2. \A s \in Runs : Live(s) => job[s].id \in Nat
      BY <2>1, Sizes
    <2> QED BY <2>1, <2>2
  <1>18. Sound'
    <2> SUFFICES ASSUME NEW w \in patches' PROVE PatchOK(w)'
      BY DEF Sound
    <2>1. CASE w \in patches
      <3>1. PatchOK(w) /\ w.record.run \in Runs \ {r}
        BY <2>1, <1>1, NamedNow DEF Good, Sound, Cited
      <3>2. w.writer = "start" => job'[r].id \notin w.forget
        <4>1. w.writer = "start" => \A i \in w.forget : i < w.id
          BY <3>1 DEF PatchOK
        <4>2. w.id < nextId[p] /\ w.id \in Ids /\ w.forget \subseteq Ids
          BY <2>1, <1>7, Facts DEF Fresh, Patches
        <4>3. nextId[p] \in Nat /\ w.id \in Nat /\ w.forget \subseteq Nat
          BY <4>2, <1>7, Sizes
        <4> QED BY <4>1, <4>2, <4>3, <1>1
      <3>3. w.writer = "start" => \A s \in Runs : Running(s)' => job'[s].id \notin w.forget
        BY <3>1, <3>2, <1>1 DEF PatchOK, Running
      <3> QED BY <3>1, <3>3, <1>1 DEF PatchOK, Last
    <2>2. CASE w \in read.patches
      <3>1. w.record.run \in Runs \ {r}
        BY <2>2, <1>1, <1>8 DEF Cited
      <3> QED BY <3>1, <2>2, <1>1, <1>8 DEF PatchOK
    <2>3. CASE w = start
      <3>1. Last(p)'
        BY <1>1, <1>2, OneUp DEF Last, Pods
      <3>2. \A i \in w.forget : i < w.id
        BY <2>3, <1>4, <1>15
      <3>3. \A s \in Runs : Running(s)' => job'[s].id \notin w.forget
        <4>1. nextId[p] \in Nat /\ old \subseteq Nat
          BY <1>7, <1>15, Sizes
        <4>2. job'[r].id \notin old
          BY <4>1, <1>1, <1>15
        <4> QED BY <4>2, <2>3, <1>1, <1>4, <1>14 DEF Running
      <3> QED BY <3>1, <3>2, <3>3, <2>3, <1>4 DEF PatchOK
    <2> QED BY <2>1, <2>2, <2>3, <1>4
  <1>19. Tops'
    <2>1. \A q \in Pods : \A i \in Held(before'[q]) : Topped(i)
      <3>1. \A i \in Held(seen) : i \in Held(read.seen)
        BY <1>5 DEF Held
      <3> QED BY <3>1, <1>3, <1>9 DEF Good, Tops
    <2>2. \A w \in patches' : w.writer # "start" => Topped(w.id)
      BY <1>4, <1>9 DEF Good, Tops
    <2>3. \A s \in Runs : job'[s].thread \in {"working", "ended", "saving", "over"} => Topped(job'[s].id)
      BY <1>1 DEF Good, Tops
    <2> QED BY <2>1, <2>2, <2>3, <1>1 DEF Tops, Topped, Held
  <1>20. \A i \in Held(store) : i \in Ids /\ i < nextId[p] /\ i # nextId[p]
    BY <1>7, Sizes DEF Fresh, Held
  <1>21. \A q \in Pods : \A i \in Held(before'[q]) : i \in Ids /\ i < nextId[p] /\ i # nextId[p]
    <2>1. \A i \in Held(seen) : i \in Held(read.seen)
      BY <1>5 DEF Held
    <2>2. \A q \in Pods : \A i \in Held(before'[q]) : i \in Ids /\ i < nextId[p]
      <3>1. \A q \in Pods : \A i \in Held(before'[q]) : i \in Ids
        BY DEF Held
      <3> QED BY <3>1, <2>1, <1>3, <1>7, <1>11 DEF Fresh
    <2>3. nextId[p] \in Nat /\ Ids \subseteq Nat
      BY <1>7, Sizes
    <2> QED BY <2>2, <2>3
  <1>22. \A w \in patches \cup read.patches : w.id \in Ids /\ w.id < nextId[p] /\ w.id # nextId[p]
    <2>1. \A w \in patches \cup read.patches : w.id \in Ids /\ w.id < nextId[p]
      BY <1>7, <1>8, <1>9, <1>10, Facts DEF Fresh, Patches
    <2>2. nextId[p] \in Nat /\ Ids \subseteq Nat
      BY <1>7, Sizes
    <2> QED BY <2>1, <2>2
  <1>23. Owns'
    <2> SUFFICES ASSUME NEW s \in Runs, Live(s)' PROVE Own(s)'
      BY DEF Owns
    <2>1. CASE s = r
      <3>1. job'[s].id = nextId[p]
        BY <2>1, <1>1
      <3>2. store'[nextId[p]].run \in {0, s}
        BY <1>1, <1>7, <1>20 DEF Held, NoRecord
      <3>3. \A q \in Pods : before'[q][nextId[p]].run \in {0, s}
        BY <1>7, <1>21 DEF Held, NoRecord
      <3>4. \A w \in patches' : w.id = nextId[p] => w.record.run = s
        BY <2>1, <1>4, <1>22
      <3>5. \A t \in Runs : Live(t)' /\ job'[t].id = nextId[p] => t = s
        BY <2>1, <1>1, <1>17 DEF Live
      <3> QED BY <3>1, <3>2, <3>3, <3>4, <3>5 DEF Own
    <2>2. CASE s # r
      <3>1. Live(s) /\ Own(s) /\ job'[s] = job[s] /\ job[s].id \in Ids /\ job[s].id # nextId[p]
        BY <2>2, <1>1, <1>17 DEF Good, Owns, Live
      <3>2. seen[job[s].id].run \in {0, s}
        BY <3>1, <1>5, <1>9 DEF NoRecord
      <3>3. \A q \in Pods : before'[q][job[s].id].run \in {0, s}
        BY <3>1, <3>2, <1>3 DEF Own
      <3>4. \A w \in patches' : w.id = job[s].id => w.record.run = s
        BY <3>1, <1>4, <1>9 DEF Own
      <3>5. \A t \in Runs : Live(t)' /\ job'[t].id = job[s].id => t = s
        <4> SUFFICES ASSUME NEW t \in Runs, Live(t)', job'[t].id = job[s].id
                     PROVE  t = s
          OBVIOUS
        <4>1. CASE t = r
          BY <4>1, <3>1, <1>1
        <4>2. CASE t # r
          BY <4>2, <3>1, <1>1 DEF Own, Live
        <4> QED BY <4>1, <4>2
      <3> QED BY <3>1, <3>3, <3>4, <3>5, <1>1 DEF Own
    <2> QED BY <2>1, <2>2
  <1>24. Leads'
    <2> SUFFICES ASSUME NEW q \in Pods, pod'[q] = "up" PROVE Fresh(q)' /\ Known(q)'
      BY DEF Leads
    <2>1. q = p
      BY <1>1, <1>2, OneUp
    <2>2. nextId[p] \in Nat /\ nextId'[p] = nextId[p] + 1 /\ Ids \subseteq Nat
      BY <1>7, Sizes
    <2>3. (\A i \in Ids : i < nextId[p] => i < nextId'[p]) /\ nextId[p] < nextId'[p]
      <3>1. \A m, n \in Nat : (m < n => m < n + 1) /\ n < n + 1
        OBVIOUS
      <3> QED BY <3>1, <2>2
    <2>4. \A i \in Held(store') : i < nextId'[p]
      BY <2>3, <1>1, <1>20
    <2>5. \A x \in Pods : \A i \in Held(before'[x]) : i < nextId'[p]
      BY <2>3, <1>21
    <2>6. \A w \in patches' : w.id < nextId'[p]
      BY <2>3, <1>4, <1>22
    <2>7. \A s \in Runs : Live(s)' => job'[s].id < nextId'[p]
      <3> SUFFICES ASSUME NEW s \in Runs, Live(s)' PROVE job'[s].id < nextId'[p]
        OBVIOUS
      <3>1. CASE s = r
        BY <3>1, <2>2, <1>1
      <3>2. CASE s # r
        BY <3>2, <2>3, <1>1, <1>17 DEF Live
      <3> QED BY <3>1, <3>2
    <2>8. Known(p)'
      <3> SUFFICES ASSUME NEW s \in Runs, Running(s)', job'[s].pod # p
                   PROVE  before'[p][job'[s].id] = [run |-> s, state |-> "running"]
        BY DEF Known
      <3>1. s # r /\ job'[s] = job[s] /\ Running(s) /\ job[s].pod # p
        BY <1>1 DEF Running
      <3>2. job[s].id \notin old /\ job[s].id \in Ids
        BY <3>1, <1>14, IdOf DEF Running
      <3> QED BY <3>1, <3>2, <1>3, <1>6, <1>12
    <2> QED BY <2>1, <2>4, <2>5, <2>6, <2>7, <2>8 DEF Fresh
  <1>25. Remembered'
    BY <1>1 DEF Good, Remembered
  <1>26. Single'
    <2> SUFFICES ASSUME NEW s \in Runs, NEW t \in Runs, s # t, Running(s)', Running(t)'
                 PROVE  job'[s].unit # job'[t].unit
      BY DEF Single
    <2>1. CASE s = r
      BY <2>1, <1>1, <1>14 DEF Running
    <2>2. CASE t = r
      BY <2>2, <1>1, <1>14 DEF Running
    <2>3. CASE s # r /\ t # r
      BY <2>3, <1>1 DEF Good, Single, Running
    <2> QED BY <2>1, <2>2, <2>3
  <1> QED BY <1>18, <1>19, <1>23, <1>24, <1>25, <1>26 DEF Good

LEMMA GoodLose ==
  ASSUME Always, Good, NEW w \in patches, Lose(w), bounds'.faults = bounds.faults
  PROVE  Good'
PROOF
  <1>1. UNCHANGED <<pod, before, nextId, store>> /\ Answered(w)
        /\ Happened(0, 0, 0, IF Alive(w.by) THEN 1 ELSE 0)
    BY DEF Lose
  <1>2. ~Alive(w.by)
    <2>1. PICK faults \in {0, 1} : faults = IF Alive(w.by) THEN 1 ELSE 0
      OBVIOUS
    <2>2. bounds'.faults = bounds.faults + faults
      BY <1>1, <2>1, Facts, HappenedTyped
    <2> QED BY <2>1, <2>2, Facts DEF Counts
  <1>3. job' = job /\ patches' = patches \ {w}
    <2> DEFINE r == w.record.run
    <2>1. /\ patches' = patches \ {w} /\ r \in Runs
          /\ \/ job' = job
             \/ job[r].thread = "starting" /\ w.by = job[r].pod
             \/ job[r].thread \in {"saving", "over"} /\ w.by = job[r].pod
      BY <1>1, AnswerMoves
    <2> QED BY <2>1, <1>2 DEF Always, JobsOK, JobOK, Live
  <1>4. \A v \in patches : PatchOK(v) => PatchOK(v)'
    BY <1>1, <1>3 DEF PatchOK, Last, Running
  <1>5. Sound' /\ Tops'
    BY <1>1, <1>3, <1>4 DEF Good, Sound, Tops, Topped, Held
  <1>6. Owns'
    BY <1>1, <1>3 DEF Good, Owns, Own, Live
  <1>7. Leads'
    BY <1>1, <1>3 DEF Good, Leads, Fresh, Known, Live, Running, Held
  <1>8. Remembered' /\ Single'
    BY <1>1, <1>3 DEF Good, Remembered, Single, Running
  <1> QED BY <1>5, <1>6, <1>7, <1>8 DEF Good

LEMMA GoodApply ==
  ASSUME Always, Good, NEW w \in patches, Apply(w)
  PROVE  Good'
PROOF
  <1> DEFINE r == w.record.run
  <1>1. /\ patches' = patches \ {w} /\ r \in Runs
        /\ JobMoves
        /\ \A s \in Runs \ {r} : job'[s] = job[s]
        /\ \/ /\ job' = job
              /\ w.writer \in {"start", "final"} => r \notin Mine(w.by)
           \/ /\ w.writer = "start" /\ job[r].thread = "starting" /\ w.by = job[r].pod
              /\ job'[r].thread = "working" /\ job'[r].state = job[r].state
           \/ /\ w.writer = "final" /\ job[r].thread \in {"saving", "over"} /\ w.by = job[r].pod
              /\ job'[r].thread = "over"
    BY AnswerMoves DEF Apply
  <1>2. UNCHANGED <<pod, before, nextId>> /\ store' = Stored(w)
    BY DEF Apply
  <1>3. /\ PatchOK(w) /\ Cited(w.id, r) /\ w \in Patches
    BY NamedNow, Facts DEF Good, Sound
  <1>4. job[r].thread # "none" /\ job[r].id = w.id /\ w.id \in Ids /\ w.id \in Nat
    BY <1>3, Sizes DEF Cited, Patches
  <1>5. w.writer = "start" => job[r].thread \in {"starting", "dead"} /\ w.by = job[r].pod /\ w.record.state = "running"
    BY DEF Always, Starts
  <1>6. w.writer = "final" => job[r].thread \in {"saving", "over", "dead"}
    BY DEF Always, Finals
  <1>7. /\ store'[w.id] = w.record /\ w.id \in Held(store')
        /\ \A i \in Ids : i # w.id /\ i \notin w.forget => store'[i] = store[i]
        /\ \A i \in Ids : store'[i] \in {w.record, NoRecord, store[i]}
        /\ \A i \in Ids : i # w.id => store'[i] \in {NoRecord, store[i]}
    BY <1>2, StoredTyped DEF Stored
  <1> HIDE DEF r
  <1>8. /\ \A s \in Runs : Live(s)' => Live(s)
        /\ \A s \in Runs : Live(s) => job'[s].id = job[s].id /\ job'[s].pod = job[s].pod /\ job'[s].unit = job[s].unit
        /\ \A s \in Runs : Running(s)' => Running(s)
        /\ \A s \in Runs : job[s].thread # "none" => job'[s].id = job[s].id /\ job'[s].pod = job[s].pod
        /\ \A s \in Runs : job'[s].thread = "starting" => job[s].thread = "starting"
    BY <1>1 DEF Live, Running, JobMoves
  <1>9. Sound'
    <2> SUFFICES ASSUME NEW v \in patches PROVE PatchOK(v)'
      BY <1>1 DEF Sound
    <2>1. PatchOK(v) /\ v.record.run \in Runs /\ job[v.record.run].thread # "none"
      BY NamedNow DEF Good, Sound, Cited
    <2>2. v.writer = "settle" => pod'[job'[v.record.run].pod] = "gone"
      BY <2>1, <1>2, <1>8 DEF PatchOK
    <2>3. v.writer = "keep" => v.record.state = "running" /\ job'[v.record.run].thread # "starting"
      BY <2>1, <1>8 DEF PatchOK
    <2>4. v.writer = "start" =>
            /\ Last(v.by)' /\ \A i \in v.forget : i < v.id
            /\ \A s \in Runs : Running(s)' => job'[s].id \notin v.forget
      BY <2>1, <1>2, <1>8 DEF PatchOK, Last, Running
    <2> QED BY <2>1, <2>2, <2>3, <2>4 DEF PatchOK
  <1>10. \A i \in Ids : Topped(i) => ToppedNext(i)
    <2> SUFFICES ASSUME NEW i \in Ids, NEW k \in Held(store), k >= i
                 PROVE  \E m \in Held(store') : m >= i
      BY DEF Topped, ToppedNext
    <2>1. k \in Ids /\ i \in Nat /\ k \in Nat /\ store[k] # NoRecord
      BY Sizes DEF Held
    <2>2. CASE k = w.id
      BY <2>2, <1>7
    <2>3. CASE k # w.id /\ k \in w.forget
      <3>1. k < w.id
        BY <2>3, <1>3 DEF PatchOK
      <3>2. w.id >= i
        BY <3>1, <2>1, <1>4
      <3> QED BY <3>2, <1>7
    <2>4. CASE k # w.id /\ k \notin w.forget
      <3>1. k \in Held(store')
        BY <2>4, <2>1, <1>7 DEF Held
      <3> QED BY <3>1
    <2> QED BY <2>2, <2>3, <2>4
  <1>11. ToppedNext(w.id)
    BY <1>4, <1>7 DEF ToppedNext
  <1>12. Tops'
    <2>1. \A p \in Pods : \A i \in Held(before[p]) : ToppedNext(i)
      BY <1>10 DEF Good, Tops, Held
    <2>2. \A v \in patches' : v.writer # "start" => ToppedNext(v.id)
      BY <1>1, <1>10, Facts DEF Good, Tops, Patches
    <2>3. \A s \in Runs : job'[s].thread \in {"working", "ended", "saving", "over"} => ToppedNext(job'[s].id)
      <3> SUFFICES ASSUME NEW s \in Runs, job'[s].thread \in {"working", "ended", "saving", "over"}
                   PROVE  ToppedNext(job'[s].id)
        OBVIOUS
      <3>1. job'[s].id = job[s].id /\ job[s].id \in Ids
        BY <1>8, IdOf DEF Live
      <3>2. PICK i \in Ids : i = job[s].id
        BY <3>1
      <3>3. CASE job[s].thread = "starting"
        <4>1. s = r
          BY <3>3, <1>1
        <4> QED BY <4>1, <3>1, <1>4, <1>11
      <3>4. CASE job[s].thread # "starting"
        <4>1. Topped(i)
          BY <3>2, <3>4, <1>8 DEF Good, Tops, Live, Always, Typed, TypeOK
        <4>2. ToppedNext(i)
          BY <4>1, <1>10
        <4> QED BY <4>2, <3>1, <3>2
      <3> QED BY <3>3, <3>4
    <2> QED BY <2>1, <2>2, <2>3, <1>2 DEF Tops, Topped, ToppedNext, Held
  <1>13. Owns'
    <2> SUFFICES ASSUME NEW s \in Runs, Live(s)' PROVE Own(s)'
      BY DEF Owns
    <2>1. Live(s) /\ Own(s) /\ job'[s].id = job[s].id /\ job[s].id \in Ids
      BY <1>8, IdOf DEF Good, Owns, Live
    <2>2. store'[job[s].id].run \in {0, s}
      <3>1. w.id = job[s].id => w.record.run = s
        BY <2>1 DEF Own
      <3> QED BY <3>1, <2>1, <1>7 DEF Own, NoRecord
    <2>3. \A t \in Runs : Live(t)' /\ job'[t].id = job[s].id => t = s
      BY <2>1, <1>8 DEF Own
    <2> QED BY <2>1, <2>2, <2>3, <1>1, <1>2 DEF Own
  <1>14. Leads'
    <2> SUFFICES ASSUME NEW p \in Pods, pod[p] = "up" PROVE Fresh(p)' /\ Known(p)'
      BY <1>2 DEF Leads
    <2>1. Fresh(p) /\ Known(p)
      BY DEF Good, Leads
    <2>2. \A i \in Held(store') : i < nextId[p]
      <3> SUFFICES ASSUME NEW i \in Ids, store'[i] # NoRecord PROVE i < nextId[p]
        BY DEF Held
      <3>1. CASE i = w.id
        BY <3>1, <2>1 DEF Fresh
      <3>2. CASE i # w.id
        BY <3>2, <2>1, <1>7 DEF Fresh, Held
      <3> QED BY <3>1, <3>2
    <2>3. \A s \in Runs : Live(s)' => job'[s].id < nextId[p]
      BY <2>1, <1>8 DEF Fresh
    <2>4. Known(p)'
      BY <2>1, <1>2, <1>8 DEF Known, Running
    <2> QED BY <2>1, <2>2, <2>3, <2>4, <1>1, <1>2 DEF Fresh, Held
  <1>15. Remembered'
    <2> SUFFICES ASSUME NEW s \in Runs, job'[s].thread = "working"
                 PROVE  store'[job'[s].id] = [run |-> s, state |-> "running"]
      BY DEF Remembered
    <2>0. Live(s) /\ Own(s) /\ Running(s) /\ job'[s].id = job[s].id /\ job[s].id \in Ids
      BY <1>8, IdOf DEF Good, Owns, Live, Running
    <2>1. CASE job[s].id = w.id
      <3>1. s = r
        BY <2>0, <2>1 DEF Own, r
      <3>2. w.writer \in {"start", "keep"}
        <4>1. w.writer # "settle"
          <5>1. Alive(job[r].pod)
            BY <3>1, <2>0 DEF Always, JobsOK, JobOK
          <5> QED BY <5>1, <1>3 DEF PatchOK, Alive, r
        <4>2. w.writer # "final"
          BY <3>1, <2>0, <1>6 DEF Running
        <4> QED BY <4>1, <4>2, <1>3 DEF Patches, Writers
      <3>3. w.record.state = "running" /\ w.record \in Records
        BY <3>2, <1>3, <1>5 DEF PatchOK, Patches
      <3>4. w.record = [run |-> r, state |-> "running"]
        BY <3>3 DEF Records, r
      <3> QED BY <3>1, <3>4, <2>0, <2>1, <1>7
    <2>2. CASE job[s].id # w.id
      <3>1. s # r
        BY <2>2, <1>4
      <3>2. job[s].thread = "working"
        BY <3>1, <1>1
      <3>3. job[s].id \notin w.forget
        BY <2>0, <1>3 DEF PatchOK
      <3> QED BY <3>2, <3>3, <2>0, <2>2, <1>7 DEF Good, Remembered
    <2> QED BY <2>1, <2>2
  <1>16. Single'
    BY <1>8 DEF Good, Single, Running, Live
  <1> QED BY <1>9, <1>12, <1>13, <1>14, <1>15, <1>16 DEF Good

(* A pod that starts, or starts again, reads the store.                    *)
LEMMA GoodLoad ==
  ASSUME Always, Good, NEW p \in Pods, NEW restarts \in Nat, Load(p, restarts), bounds'.faults = bounds.faults,
         UNCHANGED store, JobMoves, Accepted' = Accepted,
         \A r \in Runs : job'[r] = job[r] \/ job'[r].thread = "dead",
         \A w \in patches : w.writer # "start",
         pod'[p] = "up", pod[p] # "gone", \A q \in Pods \ {p} : pod'[q] = pod[q] /\ pod[q] # "up"
  PROVE  Good'
PROOF
  <1>1. PICK read \in Loads(p) :
           /\ before' = [before EXCEPT ![p] = read.seen]
           /\ nextId' = [nextId EXCEPT ![p] = IF Held(read.seen) = {} THEN 1 ELSE Max(Held(read.seen)) + 1]
           /\ patches' = patches \cup read.patches
           /\ Happened(0, 0, restarts, read.faults)
    BY DEF Load, Held
  <1>2. read = Reading(p, store, TRUE, 0)
    <2>1. bounds \in Counts /\ read.faults \in {0, 1}
      BY Facts, ReadTyped
    <2>2. bounds'.faults = bounds.faults + read.faults
      <3>1. read.faults \in Nat
        BY <2>1
      <3> QED BY <1>1, <2>1, <3>1, HappenedTyped
    <2>3. read.faults # 1
      BY <2>1, <2>2 DEF Counts
    <2> QED BY <2>3 DEF Loads, Reading
  <1>3. before'[p] = read.seen /\ \A q \in Pods \ {p} : before'[q] = before[q]
    BY <1>1, Facts
  <1>4. /\ read.seen \in [Ids -> Records] /\ Names(read.seen)
        /\ \A w \in read.patches : w.writer = "settle" /\ w.forget = {} /\ w.id \in Ids
             /\ Cited(w.id, w.record.run) /\ pod[job[w.record.run].pod] = "gone"
    BY ReadTyped DEF Patches
  <1>5. /\ \A i \in Held(read.seen) : Topped(i)
        /\ \A w \in read.patches : Topped(w.id)
        /\ \A r \in Runs : Live(r) =>
              /\ read.seen[job[r].id].run \in {0, r}
              /\ \A w \in read.patches : w.id = job[r].id => w.record.run = r
    BY ReadGood
  <1>6. Held(read.seen) = Held(store)
    <2>1. Based(p, store)
      BY Facts DEF Based
    <2> QED BY <2>1, <1>2, SettlesTyped DEF Reading
  <1>7. PICK number : number = IF Held(read.seen) = {} THEN 1 ELSE Max(Held(read.seen)) + 1
    OBVIOUS
  <1>8. nextId'[p] = number /\ \A i \in Ids : Topped(i) => i < number
    <2>1. nextId'[p] = number
      BY <1>1, <1>7, Facts
    <2>2. \A i \in Ids : (\E k \in Held(read.seen) : k >= i) => i < number
      BY <1>4, <1>7, NextNumber
    <2> QED BY <2>1, <2>2, <1>6 DEF Topped
  <1>9. \A r \in Runs : job[r].thread # "starting"
    BY DEF Always, Starts, First
  <1>10. /\ \A r \in Runs : job'[r].thread \notin {"none", "dead"} => job'[r] = job[r]
         /\ \A r \in Runs : Live(r)' => Live(r) /\ job'[r] = job[r]
         /\ \A r \in Runs : Running(r)' => Running(r) /\ job'[r] = job[r] /\ job[r].thread = "working"
    BY <1>9 DEF Live, Running
  <1>11. Sound'
    <2> SUFFICES ASSUME NEW w \in patches' PROVE PatchOK(w)'
      BY DEF Sound
    <2>1. /\ w.writer # "start" /\ w.forget = {}
          /\ w.writer = "settle" => pod[job[w.record.run].pod] = "gone"
          /\ w.writer = "keep" => w.record.state = "running"
          /\ Cited(w.id, w.record.run)
      BY <1>1, <1>4, NamedNow DEF Good, Sound, PatchOK
    <2>2. job'[w.record.run].pod = job[w.record.run].pod /\ job[w.record.run].pod \in Pods
      BY <2>1, IdOf DEF Cited, JobMoves
    <2>3. job'[w.record.run].thread # "starting"
      BY <2>1, <1>9, <1>10 DEF Cited
    <2> QED BY <2>1, <2>2, <2>3 DEF PatchOK
  <1>12. \A q \in Pods : \A i \in Held(before'[q]) : i \in Ids /\ Topped(i)
    BY <1>3, <1>5 DEF Good, Tops, Held
  <1>13. \A w \in patches' : w.id \in Ids /\ Topped(w.id)
    BY <1>1, <1>4, <1>5, Facts DEF Good, Tops, Patches
  <1>14. Tops'
    <2>1. \A r \in Runs : job'[r].thread \in {"working", "ended", "saving", "over"} => Topped(job'[r].id)
      BY <1>10 DEF Good, Tops
    <2> QED BY <2>1, <1>12, <1>13 DEF Tops, Topped, Held
  <1>15. Owns'
    <2> SUFFICES ASSUME NEW r \in Runs, Live(r)' PROVE Own(r)'
      BY DEF Owns
    <2>1. Live(r) /\ Own(r) /\ job'[r] = job[r]
      BY <1>10 DEF Good, Owns
    <2>2. \A q \in Pods : before'[q][job[r].id].run \in {0, r}
      BY <2>1, <1>3, <1>5 DEF Own
    <2>3. \A w \in patches' : w.id = job[r].id => w.record.run = r
      BY <2>1, <1>1, <1>5 DEF Own
    <2>4. \A s \in Runs : Live(s)' /\ job'[s].id = job[r].id => s = r
      BY <2>1, <1>10 DEF Own
    <2> QED BY <2>1, <2>2, <2>3, <2>4 DEF Own
  <1>16. Leads'
    <2> SUFFICES ASSUME NEW q \in Pods, pod'[q] = "up" PROVE Fresh(q)' /\ Known(q)'
      BY DEF Leads
    <2>1. q = p
      OBVIOUS
    <2>2. \A i \in Held(store) : i < number
      <3>1. \A i \in Held(store) : i \in Ids /\ Topped(i)
        BY Sizes DEF Held, Topped
      <3> QED BY <3>1, <1>8
    <2>3. \A r \in Runs : Live(r)' => job'[r].id < number
      <3> SUFFICES ASSUME NEW r \in Runs, Live(r)' PROVE job'[r].id < number
        OBVIOUS
      <3>1. Live(r) /\ job'[r] = job[r] /\ job[r].id \in Ids
        BY <1>10, IdOf DEF Live
      <3>2. job[r].thread \in {"working", "ended", "saving", "over"}
        BY <3>1, <1>9, Facts DEF Live, JobType, Threads
      <3>3. Topped(job[r].id)
        BY <3>2 DEF Good, Tops
      <3> QED BY <3>1, <3>3, <1>8
    <2>4. Known(p)'
      <3> SUFFICES ASSUME NEW r \in Runs, Running(r)', job'[r].pod # p
                   PROVE  before'[p][job'[r].id] = [run |-> r, state |-> "running"]
        BY DEF Known
      <3>1. Running(r) /\ job'[r] = job[r] /\ job[r].thread = "working" /\ job[r].id \in Ids
        BY <1>10, IdOf DEF Running
      <3>2. store[job[r].id] = [run |-> r, state |-> "running"]
        BY <3>1 DEF Good, Remembered
      <3>3. pod[job[r].pod] # "gone"
        BY <3>1 DEF Always, JobsOK, JobOK, Live, Alive, Running
      <3>4. Settled(store)[job[r].id] = store[job[r].id]
        BY <3>1, <3>2, <3>3 DEF Settled, Forsaken, OwnerGone
      <3> QED BY <3>1, <3>2, <3>4, <1>2, <1>3 DEF Reading
    <2> QED BY <2>1, <2>2, <2>3, <2>4, <1>8, <1>12, <1>13 DEF Fresh
  <1>17. Remembered' /\ Single'
    BY <1>10 DEF Good, Remembered, Single
  <1> QED BY <1>11, <1>14, <1>15, <1>16, <1>17 DEF Good

LEMMA GoodStart ==
  ASSUME Always, Good, NEW p \in Pods \ {1}, Start(p), bounds'.faults = bounds.faults
  PROVE  Good'
PROOF
  <1>1. /\ pod[p] = "none" /\ pod[p - 1] \notin {"none", "up"} /\ \A w \in patches : w.writer # "start"
        /\ pod' = [pod EXCEPT ![p] = "up"] /\ Load(p, 0) /\ UNCHANGED <<job, store>>
    BY DEF Start, Becomes
  <1>2. pod'[p] = "up" /\ \A q \in Pods \ {p} : pod'[q] = pod[q]
    BY <1>1, Facts
  <1>3. ASSUME NEW q \in Pods \ {p}
        PROVE  pod[q] # "up"
    <2>1. p \in Nat /\ q \in Nat /\ p > 1 /\ p - 1 \in Pods
      BY JobsAssumption DEF Pods
    <2>2. q = p - 1 \/ q < p - 1 \/ p < q
      BY <2>1
    <2> QED BY <2>1, <2>2, <1>1 DEF Always, Chain
  <1> QED BY <1>1, <1>2, <1>3, JobStays, GoodLoad

LEMMA GoodRestart ==
  ASSUME Always, Good, NEW p \in Pods, Restart(p), bounds'.faults = bounds.faults
  PROVE  Good'
PROOF
  <1>1. /\ pod[p] = "up" /\ \A w \in patches : w.by # p
        /\ job' = Ended(p) /\ Load(p, 1) /\ UNCHANGED <<pod, store>>
    BY DEF Restart
  <1>2. \A w \in patches : w.writer # "start"
    BY <1>1, StartsLast
  <1>3. JobMoves /\ Accepted' = Accepted /\ \A r \in Runs : job'[r] = job[r] \/ job'[r].thread = "dead"
    BY <1>1, JobMovesEnded
  <1>4. pod'[p] = "up" /\ \A q \in Pods \ {p} : pod'[q] = pod[q] /\ pod[q] # "up"
    BY <1>1, OneUp
  <1> QED BY <1>1, <1>2, <1>3, <1>4, GoodLoad

-----------------------------------------------------------------------------
(* The theorems.                                                           *)

(* What is counted is never taken back: a step that ends undisturbed began *)
(* so, and met neither a late request nor a failure.                       *)
LEMMA Calm ==
  ASSUME Always, [Next]_vars, Undisturbed'
  PROVE  Undisturbed /\ bounds'.faults = bounds.faults /\ bounds'.late = bounds.late
PROOF
  <1>0. bounds \in Counts
    BY Facts
  <1>1. ASSUME NEW late \in Nat, NEW crashes \in Nat, NEW restarts \in Nat, NEW faults \in Nat,
               Happened(late, crashes, restarts, faults)
        PROVE  Undisturbed /\ bounds'.faults = bounds.faults /\ bounds'.late = bounds.late
    <2>1. bounds'.late = bounds.late + late /\ bounds'.faults = bounds.faults + faults
      BY <1>0, <1>1, HappenedTyped
    <2>2. bounds'.late = 0 /\ bounds'.faults = 0
      BY DEF Undisturbed
    <2>3. bounds.late \in Nat /\ bounds.faults \in Nat
      BY <1>0 DEF Counts
    <2>4. \A m, n, k \in Nat : m = n + k /\ m = 0 => n = 0
      OBVIOUS
    <2>5. bounds.late = 0 /\ bounds.faults = 0
      BY <2>1, <2>2, <2>3, <2>4
    <2> QED BY <2>2, <2>5 DEF Undisturbed
  <1>2. CASE bounds' = bounds
    BY <1>2 DEF Undisturbed
  <1>3. ASSUME NEW p \in Pods, Page(p)
        PROVE  \E faults \in Nat : Happened(0, 0, 0, faults)
    BY <1>3, ReadTyped DEF Page
  <1>4. ASSUME NEW p \in Pods, PodAction(p)
        PROVE  bounds'.late = bounds.late /\ bounds'.faults = bounds.faults
    BY <1>4, PodMoves
  <1>5. ASSUME NEW p \in Pods, NEW restarts \in Nat, Load(p, restarts)
        PROVE  \E faults \in Nat : Happened(0, 0, restarts, faults)
    BY <1>5, ReadTyped DEF Load
  <1>6. ASSUME NEW p \in Pods, NEW r \in Runs, NEW u \in Units, Submit(p, r, u)
        PROVE  \E late \in Nat, faults \in Nat : Happened(late, 0, 0, faults)
    <2>1. PICK read \in Reads(p) : Happened(IF pod[p] = "stopping" THEN 1 ELSE 0, 0, 0, read.faults)
      BY <1>6 DEF Submit
    <2> QED BY <2>1, ReadTyped
  <1>7. ASSUME NEW w \in patches, Lose(w)
        PROVE  \E faults \in Nat : Happened(0, 0, 0, faults)
    BY <1>7 DEF Lose
  <1>8. CASE UNCHANGED vars
    BY <1>2, <1>8 DEF vars
  <1>9. CASE Next
    <2>1. CASE \E p \in Pods : Page(p)
      BY <2>1, <1>1, <1>3
    <2>2. CASE \E p \in Pods : PodAction(p)
      BY <2>2, <1>4 DEF Undisturbed
    <2>3. CASE \E p \in Pods : Restart(p)
      BY <2>3, <1>1, <1>5 DEF Restart
    <2>4. CASE \E p \in Pods \ {1} : Start(p)
      BY <2>4, <1>1, <1>5 DEF Start
    <2>5. CASE \E p \in Pods, r \in Runs, u \in Units : Submit(p, r, u)
      BY <2>5, <1>1, <1>6
    <2>6. CASE \E r \in Runs : JobAction(r)
      BY <2>6, <1>2, JobStep
    <2>7. CASE \E w \in patches : Apply(w)
      BY <2>7, <1>2 DEF Apply
    <2>8. CASE \E w \in patches : Lose(w)
      BY <2>8, <1>1, <1>7
    <2> QED BY <1>9, Steps, <2>1, <2>2, <2>3, <2>4, <2>5, <2>6, <2>7, <2>8
  <1> QED BY <1>8, <1>9

Careful == Always /\ (Undisturbed => Good)

LEMMA CarefulInit ==
  ASSUME Init
  PROVE  Careful
PROOF
  <1>1. Always
    BY AlwaysInit
  <1>2. job \in [Runs -> JobType] /\ \A r \in Runs : job[r].thread = "none"
    <2>1. \A r \in Runs : job[r].thread = "none"
      BY DEF Init
    <2> QED BY <2>1, <1>1, Facts
  <1>3. patches = {} /\ Held(store) = {} /\ \A p \in Pods : Held(before[p]) = {}
    BY DEF Init, Held
  <1>4. Good
    BY <1>2, <1>3 DEF Good, Sound, Tops, Owns, Leads, Fresh, Known, Remembered, Single, Live, Running
  <1> QED BY <1>1, <1>4 DEF Careful

LEMMA CarefulNext ==
  ASSUME Careful, [Next]_vars
  PROVE  Careful'
PROOF
  <1>1. Always'
    BY AlwaysNext DEF Careful
  <1>2. ASSUME Undisturbed'
        PROVE  Good'
    <2>1. Always /\ Good /\ bounds'.faults = bounds.faults /\ bounds'.late = bounds.late
      BY <1>2, Calm DEF Careful
    <2>2. CASE UNCHANGED vars
      <3>1. UNCHANGED <<pod, before, nextId, job, store, patches, bounds>>
        BY <2>2 DEF vars
      <3>2. Sound' /\ Tops'
        BY <2>1, <3>1 DEF Good, Sound, PatchOK, Last, Running, Tops, Topped, Held
      <3>3. Owns' /\ Leads'
        BY <2>1, <3>1 DEF Good, Owns, Own, Live, Leads, Fresh, Known, Running, Held
      <3>4. Remembered' /\ Single'
        BY <2>1, <3>1 DEF Good, Remembered, Single, Running
      <3> QED BY <3>2, <3>3, <3>4 DEF Good
    <2>3. CASE Next
      BY <2>1, <2>3, Steps, GoodPage, GoodPod, GoodRestart, GoodStart, GoodSubmit, GoodJob, GoodApply, GoodLose
    <2> QED BY <2>2, <2>3
  <1> QED BY <1>1, <1>2 DEF Careful

(* While no request is accepted by a pod that is being stopped and no read *)
(* or write fails, no two jobs change one unit at a time, whatever pods    *)
(* are replaced, crash and restart, for any number of them, of jobs, units *)
(* and records kept.                                                       *)
THEOREM OnePerTarget == Spec => []OneJobPerTarget
PROOF
  <1>1. Init => Careful
    BY CarefulInit
  <1>2. Careful /\ [Next]_vars => Careful'
    BY CarefulNext
  <1>3. Careful => OneJobPerTarget
    BY DEF Careful, Good, Single, OneJobPerTarget
  <1> QED BY <1>1, <1>2, <1>3, PTL DEF Spec

(* With the same exceptions the record of a running job stays in the       *)
(* store as the job's own and as running: no older job's patch, no other   *)
(* job's forgetting and no other pod's judgement reaches it.               *)
THEOREM NoneForgotten == Spec => []RunningIsRemembered
PROOF
  <1>1. Init => Careful
    BY CarefulInit
  <1>2. Careful /\ [Next]_vars => Careful'
    BY CarefulNext
  <1>3. Careful => RunningIsRemembered
    BY DEF Careful, Good, Remembered, RunningIsRemembered
  <1> QED BY <1>1, <1>2, <1>3, PTL DEF Spec

=============================================================================
