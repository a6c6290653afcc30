------------------------------- MODULE Outbox -------------------------------
(***************************************************************************)
(* The notify service's outbox (v2/notify/outbox.go): the copies waiting   *)
(* to be sent, in order, and the keys remembered so that a repeated        *)
(* request is not sent twice.  These are the pure operations on one        *)
(* outbox document; Notify.tla has the service that calls them.            *)
(*                                                                         *)
(* A copy is a request key for one channel, the "<key>@<channel>" of the   *)
(* code; a notice's text, priority and link never influence a decision and *)
(* are left out.  A key that is not in the Seen map is mapped to NotSeen.  *)
(***************************************************************************)
EXTENDS Integers, Sequences, FiniteSets, Functions

CONSTANTS
  RequestKeys,     \* the keys requests may carry
  Channels,        \* the notification channels
  MaxPending,      \* copies the outbox may hold
  MaxOutboxBytes,  \* size of the encoded document, in units of
  EntryBytes,      \*   what one waiting copy takes in it and
  SeenBytes,       \*   what one remembered key takes in it
  History,         \* how long a key is remembered
  ChannelRetry     \* how long a copy that cannot be sent is retried

(* A waiting copy's JSON repeats its key, beside its text and channel, so  *)
(* it is never shorter than the "key":time pair that replaces it.          *)
ASSUME OutboxAssumption ==
  /\ IsFiniteSet(RequestKeys) /\ IsFiniteSet(Channels)
  /\ MaxPending \in Nat /\ MaxOutboxBytes \in Nat
  /\ SeenBytes \in Nat /\ EntryBytes \in Nat /\ SeenBytes <= EntryBytes
  /\ History \in Nat \ {0} /\ ChannelRetry \in Nat \ {0}

Copies == RequestKeys \X Channels
Entries == [copy : Copies, queued : Nat]
NotSeen == 0
State == [seen : [Copies -> Nat], pending : Seq(Entries)]

EmptyOutbox == [seen |-> [c \in Copies |-> NotSeen], pending |-> <<>>]

Waiting(state) == {state.pending[i].copy : i \in DOMAIN state.pending}
Remembered(state) == {c \in Copies : state.seen[c] # NotSeen}

(* Each copy waits once, and none whose key is remembered.                 *)
Once(pending) ==
  \A i, j \in DOMAIN pending : pending[i].copy = pending[j].copy => i = j
Distinct(state) == Once(state.pending) /\ Waiting(state) \cap Remembered(state) = {}

(* Encode: the document is refused when it would exceed MaxOutboxBytes.    *)
Size(state) == EntryBytes * Len(state.pending) + SeenBytes * Cardinality(Remembered(state))
Fits(state) == Size(state) <= MaxOutboxBytes

(* Accept: the channels a request is queued for, whether the outbox has    *)
(* room for them, and the outbox that has them.  Routes list channels in   *)
(* some order; order is any enumeration of the queued ones.                *)
UnqueuedUnseen(state, request, channels) ==  \* faulty: overlooks waiting copies
  {c \in channels : <<request, c>> \notin Remembered(state)}

Unqueued(state, request, channels) ==
  {c \in channels : <<request, c>> \notin Waiting(state) \cup Remembered(state)}

HasRoom(state, queued) == Len(state.pending) + Cardinality(queued) <= MaxPending

Orders(queued) == Bijection(1..Cardinality(queued), queued)

Accept(state, request, order, now) ==
  [state EXCEPT !.pending =
     @ \o [i \in DOMAIN order |-> [copy |-> <<request, order[i]>>, queued |-> now]]]

(* Expire: forget the keys whose time is up.                               *)
Expire(state, now) ==
  [state EXCEPT !.seen = [c \in Copies |-> IF @[c] <= now THEN NotSeen ELSE @[c]]]

(* Take gives the head of the queue; Settle keeps it for another try while *)
(* it failed for less than ChannelRetry, and remembers it otherwise.       *)
KeepsTryingLate(entry, sent, now) == ~sent /\ now - entry.queued > ChannelRetry  \* faulty: reversed
KeepsTryingEver(entry, sent, now) == ~sent                                      \* faulty: never gives up
KeepsTryingSent(entry, sent, now) == now - entry.queued < ChannelRetry          \* faulty: sent or not
KeepsTrying(entry, sent, now) == ~sent /\ now - entry.queued < ChannelRetry

Settle(state, now) ==
  [seen |-> [state.seen EXCEPT ![Head(state.pending).copy] = now + History],
   pending |-> Tail(state.pending)]

RequeueLast(state) == [state EXCEPT !.pending = Tail(@)]  \* faulty: out of the queue until the pass ends
RequeueFirst(state) == state                              \* faulty: put back where it was

Requeue(state) == [state EXCEPT !.pending = Append(Tail(@), Head(@))]
=============================================================================
