------------------------------- MODULE Notify -------------------------------
(***************************************************************************)
(* The notify service (v2/orchestration/notify.go and                      *)
(* v2/cmd/swhurl-v2/notify.go): HTTP handlers that queue copies in the     *)
(* outbox, the delivery loop that sends them to ntfy, the one lock that    *)
(* orders both, and the ConfigMap the outbox is saved in.                  *)
(*                                                                         *)
(* What can go wrong around it is nondeterministic: a read or a write of   *)
(* the ConfigMap fails, a write is applied though its caller sees an       *)
(* error, a publication reaches ntfy though its answer is lost, the pod    *)
(* stops at any point and a new one starts.  Each is one fault, and there  *)
(* are at most MaxFaults of them.  The channels in DeadChannels have no    *)
(* Secret or an address that refuses: sending to them always fails.        *)
(***************************************************************************)
EXTENDS Outbox

CONSTANTS
  Handlers,      \* concurrent requests
  DeadChannels,  \* channels every send to which fails
  Nil,           \* the notifier holds no outbox: read it before using it
  MaxFaults,     \* bound on faults
  LastRequest,   \* bound: no request arrives after this time
  MaxTime        \* bound on the clock

ASSUME NotifyAssumption ==
  /\ DeadChannels \subseteq Channels
  /\ Nil \notin State /\ Nil \notin RequestKeys
  /\ MaxFaults \in Nat /\ LastRequest \in Nat /\ MaxTime \in Nat

VARIABLES
  clock,     \* seconds since the start
  stored,    \* the outbox as the ConfigMap holds it
  outbox,    \* Notifier.outbox: as last read or saved, or Nil
  handlers,  \* what each request in progress has done so far
  pass,      \* what the delivery loop is doing
  wake,      \* whether the loop's wake channel (capacity 1) is full
  posts,     \* history: how often ntfy got each copy since it was queued
  quiet,     \* history: copies saved by a write that reported an error
  faults     \* history: how many faults there have been

vars == <<clock, stored, outbox, handlers, pass, wake, posts, quiet, faults>>

HandlerStates ==
  {handler \in [pc : {"idle", "queue", "answer"}, request : RequestKeys \cup {Nil},
                channels : SUBSET Channels, at : Nat] :
     handler.pc = "idle" <=> handler.request = Nil}
IdleHandler == [pc |-> "idle", request |-> Nil, channels |-> {}, at |-> 0]

(* "called" is Deliver before it has the lock, at its now; "offer" and     *)
(* "checkpoint" hold the lock, with left copies still to offer; offered    *)
(* and failed tell what became of the last pass once it is "idle".         *)
PassStates ==
  [pc : {"idle", "called", "offer", "checkpoint"}, at : Nat, left : Nat,
   retries : BOOLEAN, offered : SUBSET Copies, failed : BOOLEAN]

IdlePass(offered, failed) ==
  [pc |-> "idle", at |-> 0, left |-> 0, retries |-> FALSE,
   offered |-> offered, failed |-> failed]

Init ==
  /\ clock = 0
  /\ stored = EmptyOutbox
  /\ outbox = Nil
  /\ handlers = [h \in Handlers |-> IdleHandler]
  /\ pass = IdlePass({}, FALSE)
  /\ wake = TRUE
  /\ posts = [c \in Copies |-> 0]
  /\ quiet = {}
  /\ faults = 0

-----------------------------------------------------------------------------
(* Reading and saving the outbox, both under the lock.                     *)

LockFree == pass.pc \in {"idle", "called"}

Fault == faults < MaxFaults /\ faults' = faults + 1

(* loaded: the outbox in memory, or else the ConfigMap's.                  *)
Loaded == IF outbox = Nil THEN stored ELSE outbox
LoadFails == outbox = Nil /\ Fault

(* save: the write succeeds, or the notifier forgets its outbox and the    *)
(* write may or may not have been applied.                                 *)
NotSavedKept(state) ==      \* faulty: trusts memory after a failed save
  /\ outbox' = state
  /\ Fault /\ stored' \in {stored, state}

Saved(state) == Fits(state) /\ stored' = state /\ outbox' = state /\ UNCHANGED faults
NotSaved(state) ==
  /\ outbox' = Nil
  /\ \/ ~Fits(state) /\ UNCHANGED <<stored, faults>>
     \/ Fits(state) /\ Fault /\ stored' \in {stored, state}

-----------------------------------------------------------------------------
(* One request: AcceptMessage or AcceptAlert, past what refuses it without *)
(* touching the outbox (body, token, secret, rate), with the channels of   *)
(* its team read before the lock is taken.                                 *)

Request(h, request, channels) ==
  /\ handlers[h].pc = "idle"
  /\ clock <= LastRequest
  /\ handlers' = [handlers EXCEPT ![h] =
       [pc |-> "queue", request |-> request, channels |-> channels, at |-> clock]]
  /\ UNCHANGED <<clock, stored, outbox, pass, wake, posts, quiet, faults>>

InQueue(h) == handlers[h].pc = "queue" /\ LockFree
QueuedFor(h) == Unqueued(Loaded, handlers[h].request, handlers[h].channels)
Done(h) == handlers' = [handlers EXCEPT ![h] = IdleHandler]

(* 503: the outbox could not be read.                                      *)
QueueUnread(h) ==
  /\ InQueue(h)
  /\ LoadFails
  /\ Done(h)
  /\ UNCHANGED <<clock, stored, outbox, pass, wake, posts, quiet>>

(* 503: the outbox is full.                                                *)
QueueFull(h) ==
  /\ InQueue(h)
  /\ ~HasRoom(Loaded, QueuedFor(h))
  /\ outbox' = Loaded
  /\ Done(h)
  /\ UNCHANGED <<clock, stored, pass, wake, posts, quiet, faults>>

(* 202 with no channel: every copy waits or is remembered already, or the  *)
(* team has no channel.  Nothing is saved and the loop is not woken.       *)
QueueNothing(h) ==
  /\ InQueue(h)
  /\ QueuedFor(h) = {}
  /\ HasRoom(Loaded, {})
  /\ outbox' = Loaded
  /\ Done(h)
  /\ UNCHANGED <<clock, stored, pass, wake, posts, quiet, faults>>

NewPosts == [c \in Copies |-> IF c \in Waiting(stored') \ Waiting(stored) THEN 0 ELSE posts[c]]

Queue(h) ==
  /\ InQueue(h)
  /\ QueuedFor(h) # {}
  /\ HasRoom(Loaded, QueuedFor(h))
  /\ \E order \in Orders(QueuedFor(h)) :
       LET accepted == Accept(Loaded, handlers[h].request, order, handlers[h].at)
       IN  \/ /\ Saved(accepted)
              /\ handlers' = [handlers EXCEPT ![h] =
                   [@ EXCEPT !.pc = "answer", !.channels = QueuedFor(h), !.at = 0]]
              /\ UNCHANGED quiet
           \/ /\ NotSaved(accepted)       \* 503
              /\ Done(h)
              /\ quiet' = quiet \cup (Waiting(stored') \ Waiting(stored))
  /\ posts' = NewPosts
  /\ UNCHANGED <<clock, pass, wake>>

AnswerAsleep(h) ==          \* faulty: answers without waking the loop
  /\ handlers[h].pc = "answer"
  /\ Done(h)
  /\ UNCHANGED <<clock, stored, outbox, pass, wake, posts, quiet, faults>>

(* 202: endpoint wakes the loop, then answers.                             *)
Answer(h) ==
  /\ handlers[h].pc = "answer"
  /\ wake' = TRUE
  /\ Done(h)
  /\ UNCHANGED <<clock, stored, outbox, pass, posts, quiet, faults>>

-----------------------------------------------------------------------------
(* The delivery loop: a pass whenever it is woken, and every interval.     *)

Call ==
  /\ pass.pc = "idle"
  /\ pass' = [pass EXCEPT !.pc = "called", !.at = clock]

Woken == wake /\ wake' = FALSE /\ Call /\ UNCHANGED <<clock, stored, outbox, handlers, posts, quiet, faults>>

Timer == Call /\ UNCHANGED <<clock, stored, outbox, handlers, wake, posts, quiet, faults>>

(* The connection, or the outbox, cannot be read.                          *)
PassUnread ==
  /\ pass.pc = "called"
  /\ Fault
  /\ pass' = IdlePass({}, TRUE)
  /\ UNCHANGED <<clock, stored, outbox, handlers, wake, posts, quiet>>

PassNothing ==
  /\ pass.pc = "called"
  /\ Loaded.pending = <<>>
  /\ outbox' = Expire(Loaded, pass.at)
  /\ pass' = IdlePass({}, FALSE)
  /\ UNCHANGED <<clock, stored, handlers, wake, posts, quiet, faults>>

PassBegin ==
  /\ pass.pc = "called"
  /\ Loaded.pending # <<>>
  /\ LET expired == Expire(Loaded, pass.at)
     IN  \/ /\ Saved(expired)
            /\ pass' = [pass EXCEPT !.pc = "offer", !.left = Len(expired.pending),
                                    !.retries = FALSE, !.offered = {}]
            /\ quiet' = {}
         \/ /\ NotSaved(expired)
            /\ pass' = IdlePass({}, TRUE)
            /\ UNCHANGED quiet
  /\ UNCHANGED <<clock, handlers, wake, posts>>

(* One publication: ntfy has it and says so; ntfy has it but the answer is *)
(* lost; it is refused, or the channel's address cannot be read.           *)
Publish(copy, sent) ==
  LET live == copy[2] \notin DeadChannels
      posted == [posts EXCEPT ![copy] = @ + 1]
  IN  \/ sent /\ live /\ posts' = posted /\ UNCHANGED faults
      \/ ~sent /\ live /\ posts' \in {posts, posted} /\ Fault
      \/ ~sent /\ ~live /\ UNCHANGED <<posts, faults>>

(* Each copy the pass began with is offered once: put back at the end at   *)
(* once when it is to be retried, or settled and then saved.               *)
Offer ==
  /\ pass.pc = "offer"
  /\ pass.left > 0
  /\ LET entry == Head(outbox.pending)
         offered == [pass EXCEPT !.left = @ - 1, !.offered = @ \cup {entry.copy}]
     IN  \E sent \in BOOLEAN :
           /\ Publish(entry.copy, sent)
           /\ IF KeepsTrying(entry, sent, pass.at)
              THEN /\ outbox' = Requeue(outbox)
                   /\ pass' = [offered EXCEPT !.retries = TRUE]
              ELSE /\ outbox' = Settle(outbox, pass.at)
                   /\ pass' = [offered EXCEPT !.pc = "checkpoint"]
  /\ UNCHANGED <<clock, stored, handlers, wake, quiet>>

(* Saving after each copy that is done.                                    *)
Checkpoint ==
  /\ pass.pc = "checkpoint"
  /\ \/ Saved(outbox) /\ pass' = [pass EXCEPT !.pc = "offer"]
     \/ NotSaved(outbox) /\ pass' = IdlePass(pass.offered, TRUE)
  /\ UNCHANGED <<clock, handlers, wake, posts, quiet>>

Finish ==
  /\ pass.pc = "offer"
  /\ pass.left = 0
  /\ IF pass.retries
     THEN \/ Saved(outbox) /\ pass' = IdlePass(pass.offered, FALSE)
          \/ NotSaved(outbox) /\ pass' = IdlePass(pass.offered, TRUE)
     ELSE UNCHANGED <<stored, outbox, faults>> /\ pass' = IdlePass(pass.offered, FALSE)
  /\ UNCHANGED <<clock, handlers, wake, posts, quiet>>

-----------------------------------------------------------------------------
(* The pod stops at any point, and a new one starts by waking its loop.    *)
Restart ==
  /\ Fault
  /\ outbox' = Nil
  /\ handlers' = [h \in Handlers |-> IdleHandler]
  /\ pass' = IdlePass({}, FALSE)
  /\ wake' = TRUE
  /\ UNCHANGED <<clock, stored, posts, quiet>>

Tick ==
  /\ clock < MaxTime
  /\ clock' = clock + 1
  /\ UNCHANGED <<stored, outbox, handlers, pass, wake, posts, quiet, faults>>

Handler(h) == QueueUnread(h) \/ QueueFull(h) \/ QueueNothing(h) \/ Queue(h) \/ Answer(h)
Loop == Woken \/ Timer \/ PassUnread \/ PassNothing \/ PassBegin \/ Offer \/ Checkpoint \/ Finish

Next ==
  \/ \E h \in Handlers : Handler(h)
  \/ \E h \in Handlers, request \in RequestKeys, channels \in SUBSET Channels :
       Request(h, request, channels)
  \/ Loop
  \/ Restart
  \/ Tick

Spec == Init /\ [][Next]_vars

(* The server and the loop keep running, the timer fires, time passes.     *)
Fairness ==
  /\ WF_vars(Timer)
  /\ WF_vars(PassUnread \/ PassNothing \/ PassBegin \/ Offer \/ Checkpoint \/ Finish)
  /\ WF_vars(Tick)

FairSpec == Spec /\ Fairness

-----------------------------------------------------------------------------
(* What the service promises.                                              *)

TypeOK ==
  /\ clock \in Nat /\ faults \in Nat /\ wake \in BOOLEAN
  /\ stored \in State /\ outbox \in State \cup {Nil}
  /\ handlers \in [Handlers -> HandlerStates]
  /\ pass \in PassStates
  /\ posts \in [Copies -> Nat] /\ quiet \in SUBSET Copies

(* A copy waits at most once, and never while its key is remembered: what  *)
(* Accept's look at both the Seen map and the queue is for, whatever was   *)
(* lost, half saved or requeued between two requests with one key.         *)
QueuedOnce == Distinct(stored) /\ (outbox # Nil => Distinct(outbox))

(* The outbox's bounds hold of every document ever saved, and a pass never *)
(* meets the size bound: what it saves fits because what it read did.      *)
WithinBounds ==
  /\ Len(stored.pending) <= MaxPending /\ Fits(stored)
  /\ ~LockFree => Fits(outbox)

(* Delivery is at least once, and only a fault repeats it: once queued, a  *)
(* copy reaches ntfy at most once more than there were restarts, failed    *)
(* saves and lost answers.                                                 *)
RepeatsNeedFaults == \A c \in Copies : posts[c] <= 1 + faults

(* "What is in memory is never ahead of the ConfigMap": between uses of    *)
(* the lock the queue in memory is the saved one, and memory remembers no  *)
(* key the ConfigMap does not (an idle pass forgets expired keys unsaved). *)
NeverAhead ==
  LockFree /\ outbox # Nil =>
    /\ outbox.pending = stored.pending
    /\ \A c \in Copies : outbox.seen[c] \in {NotSeen, stored.seen[c]}

(* The queue is sound: it holds each copy once and within its bounds, and  *)
(* memory and ConfigMap differ only while the lock is held.                *)
QueueSound == QueuedOnce /\ WithinBounds /\ NeverAhead

(* While a pass runs, every copy the ConfigMap still holds is in memory    *)
(* too, so no checkpoint loses one: only the copy being settled is gone.   *)
CheckpointKeepsOthers ==
  ~LockFree =>
    /\ Waiting(outbox) \subseteq Waiting(stored)
    /\ \A c, d \in Waiting(stored) \ Waiting(outbox) : c = d
    /\ pass.pc = "offer" => Waiting(outbox) = Waiting(stored)

(* A pass offers every copy once, however many of them fail: those it has  *)
(* still to offer lead the queue, and all others have been offered.        *)
OffersEachOnce ==
  ~LockFree =>
    /\ pass.left <= Len(outbox.pending)
    /\ \A i \in DOMAIN outbox.pending :
         outbox.pending[i].copy \in pass.offered <=> i > pass.left

(* A wake-up is never lost: when the loop rests with no wake-up due, every *)
(* copy still waiting was offered by the last pass, that pass failed, its  *)
(* request is about to wake the loop, or its request was answered 503.     *)
Answering ==
  UNION {{<<handlers[h].request, c>> : c \in handlers[h].channels} :
         h \in {g \in Handlers : handlers[g].pc = "answer"}}
WakeNotLost ==
  pass.pc = "idle" /\ ~wake /\ ~pass.failed =>
    Waiting(stored) \subseteq pass.offered \cup Answering \cup quiet

(* Every saved copy is sent or given up in the end, a dead channel's too.  *)
EventuallyDischarged ==
  \A c \in Copies : c \in Waiting(stored) ~> c \notin Waiting(stored)
=============================================================================
