------------------------------- MODULE Events -------------------------------
(***************************************************************************)
(* Integration events between the services: the identity service's outbox  *)
(* and its publisher, the broker's queue with retries and dead letters     *)
(* (packages/observability/messaging), the communication service's inbox   *)
(* and handlers, and the administrators' view of the dead letters.         *)
(*                                                                         *)
(* Saves of the publisher look at the row's id only.  The rows of a batch  *)
(* share nothing, so each is played by a publisher of its own.             *)
(***************************************************************************)
EXTENDS Naturals, FiniteSetsExt

CONSTANTS
  Envelopes,      \* event ids
  Secret,         \* those whose payload is encrypted in the outbox
  Publishers, Consumers, Admins,
  MaxPublish,     \* OUTBOX_MAX_ATTEMPTS
  MaxDeaths,      \* maxRetries, 3 in the code
  MaxCopies,      \* bound: copies of an event at the broker
  NoOne

ASSUME EventsConstants ==
  /\ Secret \subseteq Envelopes /\ NoOne \notin Publishers \cup Envelopes
  /\ MaxPublish \in Nat \ {0} /\ MaxDeaths \in Nat /\ MaxCopies \in Nat \ {0}

VARIABLES
  row,        \* IdentityOutbox documents
  publisher,  \* publishRow, one row at a time
  queue,      \* messages of the main and the retry queue, by x-death count
  consumer,   \* deliveries to the communication service
  inbox,      \* ProcessedMessage documents
  dlq,        \* events in the broker's dead-letter queues
  dead,       \* ConsumerDeadLetter documents
  admin,      \* retryDlqMessage and discardDlqMessage
  applied,    \* history: how often a handler's writes for an event were committed
  listening,  \* the consumer has started once: its durable queue is bound
  misread,    \* history: events committed by a handler that is not theirs
  dropped     \* history: events the broker had no queue for, a copy at least

brokerVars == <<listening, misread, dropped>>
eventVars == <<row, publisher, queue, consumer, inbox, dlq, dead, admin, applied,
               brokerVars>>

FreeRow == [status |-> "none", by |-> NoOne, leased |-> FALSE, attempts |-> 0,
            readable |-> TRUE]
IdlePublisher == [at |-> "idle", row |-> NoOne, attempts |-> 0, readable |-> FALSE]
IdleConsumer == [at |-> "idle", event |-> NoOne, deaths |-> 0, own |-> FALSE]
IdleAdmin == [at |-> "idle", event |-> NoOne]

EventsInit ==
  /\ row = [e \in Envelopes |-> FreeRow]
  /\ publisher = [p \in Publishers |-> IdlePublisher]
  /\ queue = [m \in Envelopes \X (0..MaxDeaths) |-> 0]
  /\ consumer = [c \in Consumers |-> IdleConsumer]
  /\ inbox = {} /\ dlq = {}
  /\ dead = [e \in Envelopes |-> "none"]
  /\ admin = [a \in Admins |-> IdleAdmin]
  /\ applied = [e \in Envelopes |-> 0]
  /\ listening = FALSE /\ misread = {} /\ dropped = {}
-----------------------------------------------------------------------------
(* The outbox and its publisher. *)

UnlessPublishing == <<queue, consumer, inbox, dlq, dead, admin, applied, brokerVars>>
UnlessSent == <<row, consumer, inbox, dlq, dead, admin, applied, listening, misread>>

(* enqueueEvent, in the transaction of the change it announces.  Here are   *)
(* the events somebody listens to.                                         *)
EnqueueEvent(e) ==
  /\ row[e].status = "none"
  /\ row' = [row EXCEPT ![e].status = "pending"]
  /\ UNCHANGED <<publisher, UnlessPublishing>>

Publishable(e) ==
  \/ row[e].status \in {"pending", "failed"}
  \/ row[e].status = "processing" /\ ~row[e].leased

CountUp(n, bound) == IF n < bound THEN n + 1 ELSE n

ClaimRow(p, e) ==
  LET n == CountUp(row[e].attempts, MaxPublish) IN
  /\ publisher[p] = IdlePublisher
  /\ Publishable(e)
  /\ row' = [row EXCEPT ![e].status = "processing", ![e].by = p,
                        ![e].leased = TRUE, ![e].attempts = n]
  /\ publisher' = [publisher EXCEPT ![p] = 
       [at |-> "send", row |-> e, attempts |-> n, readable |-> row[e].readable]]
  /\ UNCHANGED UnlessPublishing

Put(e, d) == [queue EXCEPT ![<<e, d>>] = @ + 1]
Copies(e) ==
  MapThenSumSet(LAMBDA d : queue[<<e, d>>], 0..MaxDeaths)
    + Cardinality({c \in Consumers : consumer[c].event = e})

(* channel.publish without "mandatory": the queue takes a copy, or there   *)
(* is none yet and the broker drops the message.                           *)
Arrives(e) ==
  IF listening THEN Copies(e) < MaxCopies /\ queue' = Put(e, 0) /\ UNCHANGED dropped
           ELSE dropped' = dropped \cup {e} /\ UNCHANGED queue

Sending(p) == publisher[p].at = "send" /\ publisher[p].readable

(* Mutant of PublishEvent: the publisher does not wait for the broker.     *)
PublishUnconfirmed(p) ==
  /\ Sending(p)
  /\ publisher' = [publisher EXCEPT ![p].at = "confirmed"]
  /\ UNCHANGED <<UnlessSent, queue, dropped>>

(* The broker confirms, whether it had a queue or not.  A row that had     *)
(* been published when it was claimed has no ciphertext to publish.        *)
PublishEvent(p) ==
  /\ Sending(p)
  /\ Arrives(publisher[p].row)
  /\ publisher' = [publisher EXCEPT ![p].at = "confirmed"]
  /\ UNCHANGED UnlessSent

(* The broker refuses the message, or only its confirmation is lost. *)
PublishFails(p) ==
  /\ publisher[p].at = "send"
  /\ \/ UNCHANGED <<queue, dropped>>
     \/ Sending(p) /\ Arrives(publisher[p].row)
  /\ publisher' = [publisher EXCEPT ![p].at = "failed"]
  /\ UNCHANGED UnlessSent

Released(e, status) ==
  [row EXCEPT ![e].status = status, ![e].by = NoOne, ![e].leased = FALSE]

SavePublished(p) ==
  LET e == publisher[p].row IN
  /\ publisher[p].at = "confirmed"
  /\ row' = [Released(e, "published") EXCEPT ![e].readable = e \notin Secret]
  /\ publisher' = [publisher EXCEPT ![p] = IdlePublisher]
  /\ UNCHANGED UnlessPublishing

(* After the last attempt markDead mirrors the row to a queue for dead     *)
(* letters, if the broker takes it.                                        *)
SaveFailed(p) ==
  LET e == publisher[p].row
      last == publisher[p].attempts >= MaxPublish
  IN
  /\ publisher[p].at = "failed"
  /\ row' = Released(e, IF last THEN "dead" ELSE "failed")
  /\ publisher' = [publisher EXCEPT ![p] = IdlePublisher]
  /\ \/ last /\ dlq' = dlq \cup {e}
     \/ UNCHANGED dlq
  /\ UNCHANGED <<queue, consumer, inbox, dead, admin, applied, brokerVars>>

(* stop: the rows of this process are free for the others at once. *)
StopPublisher(p) ==
  /\ publisher[p].at # "idle"
  /\ row' = [e \in Envelopes |->
       IF row[e].status = "processing" /\ row[e].by = p
         THEN [row[e] EXCEPT !.status = "pending", !.by = NoOne, !.leased = FALSE]
         ELSE row[e]]
  /\ publisher' = [publisher EXCEPT ![p] = IdlePublisher]
  /\ UNCHANGED UnlessPublishing

PublisherDies(p) ==
  /\ publisher[p].at # "idle"
  /\ publisher' = [publisher EXCEPT ![p] = IdlePublisher]
  /\ UNCHANGED <<row, UnlessPublishing>>

(* OUTBOX_LEASE_MS are over; the publisher may be at work still. *)
RowLeaseEnds(e) ==
  /\ row[e].status = "processing" /\ row[e].leased
  /\ row' = [row EXCEPT ![e].leased = FALSE]
  /\ UNCHANGED <<publisher, UnlessPublishing>>
-----------------------------------------------------------------------------
(* subscribeEvent and processIdempotent. *)

UnlessConsuming == <<row, publisher, admin, listening>>

Goes(c, at) == consumer' = [consumer EXCEPT ![c].at = at]
Done(c) == consumer' = [consumer EXCEPT ![c] = IdleConsumer]

(* start: the queue and its bindings are there from now on. *)
StartConsumer ==
  /\ ~listening /\ listening' = TRUE
  /\ UNCHANGED <<row, publisher, admin, queue, consumer, inbox, dlq, dead, applied,
                 misread, dropped>>

(* start subscribes eight handlers to one queue: the broker gives a message *)
(* to its own handler or to one of the others.                             *)
Receive(c, e, d) ==
  /\ consumer[c] = IdleConsumer /\ queue[<<e, d>>] > 0
  /\ queue' = [queue EXCEPT ![<<e, d>>] = @ - 1]
  /\ \E own \in BOOLEAN :
       consumer' = [consumer EXCEPT ![c] =
         [at |-> "check", event |-> e, deaths |-> d, own |-> own]]
  /\ UNCHANGED <<UnlessConsuming, inbox, dlq, dead, applied, misread, dropped>>

(* A row of the inbox that another transaction has not committed is not    *)
(* visible here.                                                           *)
CheckInbox(c) ==
  /\ consumer[c].at = "check"
  /\ Goes(c, IF consumer[c].event \in inbox THEN "ack" ELSE "insert")
  /\ UNCHANGED <<UnlessConsuming, queue, inbox, dlq, dead, applied, misread, dropped>>

Inserting(e) == \E c \in Consumers : consumer[c].at = "apply" /\ consumer[c].event = e

(* Mutant of InsertInbox: only the check tells what was processed.         *)
InsertAnyway(c) ==
  /\ consumer[c].at = "insert"
  /\ Goes(c, "apply")
  /\ UNCHANGED <<UnlessConsuming, queue, inbox, dlq, dead, applied, misread, dropped>>

(* The unique index of the inbox: a committed row means processed, one of  *)
(* a transaction under way is a write conflict.                            *)
InsertInbox(c) ==
  LET e == consumer[c].event IN
  /\ consumer[c].at = "insert"
  /\ Goes(c, IF e \in inbox THEN "ack" ELSE IF Inserting(e) THEN "failed" ELSE "apply")
  /\ UNCHANGED <<UnlessConsuming, queue, inbox, dlq, dead, applied, misread, dropped>>

(* The handler's writes and the row of the inbox commit together.  So they *)
(* do in the handler of another event, which finds none of its fields:     *)
(* handleUserUpdated updates nobody.                                       *)
CommitEffect(c) ==
  LET e == consumer[c].event IN
  /\ consumer[c].at = "apply"
  /\ inbox' = inbox \cup {e}
  /\ applied' = [applied EXCEPT ![e] = @ + 1]
  /\ misread' = IF consumer[c].own THEN misread ELSE misread \cup {e}
  /\ Goes(c, "ack")
  /\ UNCHANGED <<UnlessConsuming, queue, dlq, dead, dropped>>

(* The transaction of the handler aborts. *)
HandlerFails(c) ==
  /\ consumer[c].at = "apply"
  /\ Goes(c, "failed")
  /\ UNCHANGED <<UnlessConsuming, queue, inbox, dlq, dead, applied, misread, dropped>>

Ack(c) ==
  /\ consumer[c].at = "ack"
  /\ Done(c)
  /\ UNCHANGED <<UnlessConsuming, queue, inbox, dlq, dead, applied, misread, dropped>>

(* reject without requeue.  A dead-letter policy of the broker sends the   *)
(* message round by the retry queue; subscribeEvent relies on one, its     *)
(* queues are declared without, and then the broker drops the message.     *)
Reject(c) ==
  LET e == consumer[c].event
      d == consumer[c].deaths
  IN
  /\ consumer[c].at = "failed" /\ d < MaxDeaths
  /\ \/ queue' = Put(e, d + 1) /\ UNCHANGED dropped
     \/ dropped' = dropped \cup {e} /\ UNCHANGED queue
  /\ Done(c)
  /\ UNCHANGED <<UnlessConsuming, inbox, dlq, dead, applied, misread>>

(* onDeadLetter; its failure is logged. *)
DeadLetter(c) ==
  LET e == consumer[c].event IN
  /\ consumer[c].at = "failed" /\ consumer[c].deaths = MaxDeaths
  /\ \/ dead' = [dead EXCEPT ![e] = "pending"]
     \/ UNCHANGED dead
  /\ Goes(c, "to_dlq")
  /\ UNCHANGED <<UnlessConsuming, queue, inbox, dlq, applied, misread, dropped>>

(* publishToDlq: acknowledged once the broker has confirmed, else requeued *)
PublishToDlq(c) ==
  LET e == consumer[c].event
      d == consumer[c].deaths
  IN
  /\ consumer[c].at = "to_dlq"
  /\ \/ dlq' = dlq \cup {e} /\ UNCHANGED queue
     \/ queue' = Put(e, d) /\ UNCHANGED dlq
  /\ Done(c)
  /\ UNCHANGED <<UnlessConsuming, inbox, dead, applied, misread, dropped>>

(* The process stops; what it had not acknowledged is delivered again. *)
ConsumerDies(c) ==
  LET e == consumer[c].event
      d == consumer[c].deaths
  IN
  /\ consumer[c].at # "idle"
  /\ queue' = Put(e, d)
  /\ Done(c)
  /\ UNCHANGED <<UnlessConsuming, inbox, dlq, dead, applied, misread, dropped>>
-----------------------------------------------------------------------------
(* The administrators' dead letters. *)

UnlessAdmin == <<row, publisher, consumer, inbox, dlq, applied, brokerVars>>

(* retryDlqMessage.  A letter with a secret was stored without it. *)
ClaimLetter(a, e) ==
  /\ admin[a] = IdleAdmin /\ dead[e] = "pending"
  /\ dead' = [dead EXCEPT ![e] = IF e \in Secret THEN "discarded" ELSE "processing"]
  /\ admin' = [admin EXCEPT ![a] =
       IF e \in Secret THEN IdleAdmin ELSE [at |-> "replay", event |-> e]]
  /\ UNCHANGED <<UnlessAdmin, queue>>

(* The stored headers go out again, the x-death count among them, so this  *)
(* message has no retries left.                                            *)
Replay(a) ==
  LET e == admin[a].event IN
  /\ admin[a].at = "replay"
  /\ \/ /\ Copies(e) < MaxCopies /\ queue' = Put(e, MaxDeaths)
        /\ admin' = [admin EXCEPT ![a].at = "replayed"]
     \/ /\ UNCHANGED queue
        /\ admin' = [admin EXCEPT ![a].at = "undo"]
  /\ UNCHANGED <<UnlessAdmin, dead>>

(* A failure of the activity log, too, makes the letter pending again. *)
ReplaySaved(a) ==
  /\ \/ /\ admin[a].at = "replayed"
        /\ \E status \in {"replayed", "pending"} :
             dead' = [dead EXCEPT ![admin[a].event] = status]
     \/ /\ admin[a].at = "undo"
        /\ dead' = [dead EXCEPT ![admin[a].event] = "pending"]
  /\ admin' = [admin EXCEPT ![a] = IdleAdmin]
  /\ UNCHANGED <<UnlessAdmin, queue>>

DiscardLoad(a, e) ==
  /\ admin[a] = IdleAdmin /\ dead[e] = "pending"
  /\ admin' = [admin EXCEPT ![a] = [at |-> "discard", event |-> e]]
  /\ UNCHANGED <<UnlessAdmin, queue, dead>>

DiscardSave(a) ==
  /\ admin[a].at = "discard"
  /\ dead' = [dead EXCEPT ![admin[a].event] = "discarded"]
  /\ admin' = [admin EXCEPT ![a] = IdleAdmin]
  /\ UNCHANGED <<UnlessAdmin, queue>>
-----------------------------------------------------------------------------
(* processOutbox *)
Publishing(p) ==
  \/ \E e \in Envelopes : ClaimRow(p, e)
  \/ PublishEvent(p) \/ PublishFails(p) \/ SavePublished(p) \/ SaveFailed(p)

(* One delivery, from the broker to its acknowledgement. *)
Consuming(c) ==
  \/ \E e \in Envelopes, d \in 0..MaxDeaths : Receive(c, e, d)
  \/ CheckInbox(c) \/ InsertInbox(c) \/ CommitEffect(c) \/ HandlerFails(c)
  \/ Ack(c) \/ Reject(c) \/ DeadLetter(c) \/ PublishToDlq(c)

AdminStep(a) ==
  \/ \E e \in Envelopes : ClaimLetter(a, e) \/ DiscardLoad(a, e)
  \/ Replay(a) \/ ReplaySaved(a) \/ DiscardSave(a)

EventsNext ==
  \/ StartConsumer
  \/ \E e \in Envelopes : EnqueueEvent(e) \/ RowLeaseEnds(e)
  \/ \E p \in Publishers : Publishing(p) \/ StopPublisher(p) \/ PublisherDies(p)
  \/ \E c \in Consumers : Consuming(c) \/ ConsumerDies(c)
  \/ \E a \in Admins : AdminStep(a)

EventsSpec == EventsInit /\ [][EventsNext]_eventVars
-----------------------------------------------------------------------------
(* An event is committed by one handler once, however often it is          *)
(* published, delivered or replayed, and whoever crashes                   *)
(* (processIdempotent).                                                    *)
AppliedOnce == \A e \in Envelopes : applied[e] <= 1

Underway(e) ==
  \/ \E d \in 0..MaxDeaths : queue[<<e, d>>] > 0
  \/ \E c \in Consumers : consumer[c].event = e
  \/ \E p \in Publishers : publisher[p].row = e

(* Its own handler's writes are committed. *)
Effective(e) == applied[e] > 0 /\ e \notin misread

(* The two ways in which the services lose an event that was published: a  *)
(* handler of another event acknowledged it, or the broker had no queue    *)
(* for a copy of it.                                                       *)
Strayed(e) == e \in misread \/ e \in dropped

(* An event that left the outbox is on its way, or has taken effect, or    *)
(* lies in a queue for dead letters, unless it strayed: confirms, late     *)
(* acknowledgements and the requeue of what cannot be dead-lettered leave  *)
(* no other gap.                                                           *)
NothingLost ==
  \A e \in Envelopes :
    row[e].status = "published" =>
      Underway(e) \/ Effective(e) \/ e \in dlq \/ Strayed(e)

(* Together: what arrives is committed once, and what does not arrive has  *)
(* strayed in one of the two ways.                                         *)
DeliveredOnce == AppliedOnce /\ NothingLost
=============================================================================
