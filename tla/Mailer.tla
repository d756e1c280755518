------------------------------- MODULE Mailer -------------------------------
(***************************************************************************)
(* The communication service after an event was accepted: notifications,   *)
(* the outbox of mails and pushes with its two workers, push subscriptions *)
(* of one user, and the middleware that makes requests idempotent.         *)
(*                                                                         *)
(* The workers save their rows without a look at the lease.  The rows of a *)
(* batch share nothing, so each is played by a worker of its own.          *)
(***************************************************************************)
EXTENDS Naturals, FiniteSets, Sequences, SequencesExt

CONSTANTS
  Notes,       \* events that notify the user
  Texts,       \* their texts, which the keys of the rows are hashes of
  TextOf,
  Senders,     \* workers
  MaxSends,    \* attempts at a row, 8 in the code
  Endpoints,   \* of the user's browsers
  MaxActive,   \* active subscriptions of a user, 10 in the code
  Requests,    \* HTTP requests with the same Idempotency-Key
  Nil

ASSUME MailerConstants ==
  /\ TextOf \in [Notes -> Texts] /\ Nil \notin Texts \cup Endpoints
  /\ MaxSends \in Nat \ {0} /\ MaxActive \in Nat \ {0}

Items == {"mail", "push"} \X Texts

VARIABLES
  note,      \* Notification documents
  prefers,   \* NotificationPreference
  item,      \* CommunicationOutbox documents
  sender,    \* processEmailQueue and processPushQueue, one row at a time
  active,    \* active PushSubscriptions by createdAt, the oldest first
  age,       \* the order in which they were created, 0 for none
  reached,   \* PushDelivery documents with Status success
  pushes,    \* history: how often a push was sent to an endpoint
  doubted,   \* history: rows sent beyond a lease or by a process that died
  unnoted,   \* history: pushes sent whose PushDelivery could not be created
  saving,    \* saveSubscription after its upsert
  request,   \* the requests with their key
  record,    \* the IdempotencyRecord of the key
  runs       \* history: how often the keyed operation ran

pushVars == <<active, age, reached, pushes, doubted, unnoted, saving>>
keyVars == <<request, record, runs>>
mailerVars == <<note, prefers, item, sender, pushVars, keyVars>>

NoItem == [status |-> "none", leased |-> FALSE, attempts |-> 0, full |-> TRUE]
IdleSender == [at |-> "idle", item |-> Nil, attempts |-> 0, todo |-> <<>>, retry |-> FALSE]

MailerInit ==
  /\ note = [n \in Notes |-> "none"]
  /\ prefers = {"mail", "push"}
  /\ item = [i \in Items |-> NoItem]
  /\ sender = [s \in Senders |-> IdleSender]
  /\ active = <<>> /\ age = [e \in Endpoints |-> 0] /\ reached = {}
  /\ pushes = [x \in Items \X Endpoints |-> 0]
  /\ doubted = {} /\ unnoted = {} /\ saving = {}
  /\ request = [q \in Requests |-> "new"]
  /\ record = "none" /\ runs = 0
-----------------------------------------------------------------------------
(* Notifications.  Keys of rows are made of the recipient and a hash of    *)
(* the text: a second equal text aborts the event's transaction.           *)
Notify(n) ==
  LET rows == prefers \X {TextOf[n]} IN
  /\ note[n] = "none"
  /\ \A i \in rows : item[i].status = "none"
  /\ note' = [note EXCEPT ![n] = "unread"]
  /\ item' = [i \in Items |->
       IF i \in rows THEN [item[i] EXCEPT !.status = "pending"] ELSE item[i]]
  /\ UNCHANGED <<prefers, sender, pushVars, keyVars>>

MarkRead(ns) ==
  note' = [n \in Notes |-> IF n \in ns /\ note[n] = "unread" THEN "read" ELSE note[n]]

DeleteNote(n) == note[n] \in {"unread", "read"} /\ note' = [note EXCEPT ![n] = "deleted"]

(* markRead, markAllRead, deleteNotification *)
Notifications ==
  /\ \/ \E n \in Notes : note[n] = "unread" /\ MarkRead({n})
     \/ MarkRead(Notes)
     \/ \E n \in Notes : DeleteNote(n)
  /\ UNCHANGED <<prefers, item, sender, pushVars, keyVars>>

UpdatePreferences ==
  /\ prefers' \in SUBSET {"mail", "push"}
  /\ UNCHANGED <<note, item, sender, pushVars, keyVars>>
-----------------------------------------------------------------------------
(* The workers. *)

UnlessSending == <<note, prefers, active, age, unnoted, saving, keyVars>>
UnlessPushing == <<note, prefers, item, age, saving, keyVars>>

Ready(i) ==
  \/ item[i].status \in {"pending", "failed"}
  \/ item[i].status = "processing" /\ ~item[i].leased

Another(n) == IF n < MaxSends THEN n + 1 ELSE n

(* claimEmailBatch, claimPushBatch; the worker keeps the copy it claimed. *)
ClaimItem(s, i) ==
  LET n == Another(item[i].attempts) IN
  /\ sender[s] = IdleSender /\ Ready(i)
  /\ item' = [item EXCEPT ![i].status = "processing", ![i].leased = TRUE,
                          ![i].attempts = n]
  /\ sender' = [sender EXCEPT ![s] =
       [at |-> "claimed", item |-> i, attempts |-> n, todo |-> <<>>, retry |-> FALSE]]
  /\ doubted' = IF item[i].status = "processing" THEN doubted \cup {i} ELSE doubted
  /\ UNCHANGED <<UnlessSending, reached, pushes>>

(* dispatchEmail.  A row that was sent once has lost its data and cannot   *)
(* be rendered.                                                            *)
DispatchEmail(s) ==
  LET i == sender[s].item IN
  /\ sender[s].at = "claimed" /\ i[1] = "mail"
  /\ \/ item[i].full /\ sender' = [sender EXCEPT ![s].at = "sent"]
     \/ sender' = [sender EXCEPT ![s].at = "failed"]
  /\ UNCHANGED <<UnlessSending, item, reached, pushes, doubted>>

(* notifyPush reads the active subscriptions once. *)
ListSubscriptions(s) ==
  /\ sender[s].at = "claimed" /\ sender[s].item[1] = "push"
  /\ sender' = [sender EXCEPT ![s].at = "pushing", ![s].todo = active]
  /\ UNCHANGED <<UnlessSending, item, reached, pushes, doubted>>

Following(s) == sender' = [sender EXCEPT ![s].at = "pushing", ![s].todo = Tail(@)]

(* Mutant of PushNext: deliveries already recorded are not looked up.      *)
PushAgain(s) ==
  LET i == sender[s].item
      e == Head(sender[s].todo)
  IN
  /\ sender[s].at = "pushing" /\ sender[s].todo # <<>>
  /\ pushes' = [pushes EXCEPT ![<<i, e>>] = Another(@)]
  /\ sender' = [sender EXCEPT ![s].at = "pushed"]
  /\ UNCHANGED <<UnlessSending, item, reached, doubted>>

(* To the next endpoint, unless its delivery is recorded. *)
PushNext(s) ==
  LET i == sender[s].item
      e == Head(sender[s].todo)
  IN
  /\ sender[s].at = "pushing" /\ sender[s].todo # <<>>
  /\ IF <<i, e>> \in reached
       THEN Following(s) /\ UNCHANGED pushes
       ELSE /\ pushes' = [pushes EXCEPT ![<<i, e>>] = Another(@)]
            /\ sender' = [sender EXCEPT ![s].at = "pushed"]
  /\ UNCHANGED <<UnlessSending, item, reached, doubted>>

(* The PushDelivery of a success. *)
RecordPush(s) ==
  /\ sender[s].at = "pushed"
  /\ reached' = reached \cup {<<sender[s].item, Head(sender[s].todo)>>}
  /\ Following(s)
  /\ UNCHANGED <<UnlessSending, item, pushes, doubted>>

(* It cannot be created although the push is out.  The catch block records *)
(* a failure without a status code and goes on; if that record fails, too, *)
(* the row fails.                                                          *)
RecordFails(s) ==
  /\ sender[s].at = "pushed"
  /\ unnoted' = unnoted \cup {<<sender[s].item, Head(sender[s].todo)>>}
  /\ \/ Following(s)
     \/ sender' = [sender EXCEPT ![s].at = "failed"]
  /\ UNCHANGED <<UnlessPushing, active, reached, pushes, doubted>>

(* Its subscription, if still active, is no longer. *)
Revoke(e) ==
  \/ \E n \in DOMAIN active : active[n] = e /\ active' = RemoveAt(active, n)
  \/ ~Contains(active, e) /\ UNCHANGED active

(* The push service refuses: 410 and 404 end the subscription, 429 and     *)
(* server errors are tried again with the whole row, any other error is    *)
(* recorded and no more.  When it cannot be recorded the row fails.        *)
PushFails(s) ==
  LET next == [sender[s] EXCEPT !.todo = Tail(@)] IN
  /\ sender[s].at = "pushing" /\ sender[s].todo # <<>>
  /\ <<sender[s].item, Head(sender[s].todo)>> \notin reached
  /\ \/ Revoke(Head(sender[s].todo)) /\ sender' = [sender EXCEPT ![s] = next]
     \/ /\ \/ sender' = [sender EXCEPT ![s] = [next EXCEPT !.retry = TRUE]]
           \/ sender' = [sender EXCEPT ![s] = next]
           \/ sender' = [sender EXCEPT ![s].at = "failed"]
        /\ UNCHANGED active
  /\ UNCHANGED <<UnlessPushing, reached, pushes, doubted, unnoted>>

PushEnds(s) ==
  /\ sender[s].at = "pushing" /\ sender[s].todo = <<>>
  /\ sender' = [sender EXCEPT ![s].at = IF sender[s].retry THEN "failed" ELSE "sent"]
  /\ UNCHANGED <<UnlessSending, item, reached, pushes, doubted>>

(* item.save: a mail that is out keeps no data. *)
SaveSent(s) ==
  LET i == sender[s].item IN
  /\ sender[s].at = "sent"
  /\ item' = [item EXCEPT ![i].status = "sent", ![i].full = @ /\ i[1] = "push"]
  /\ sender' = [sender EXCEPT ![s] = IdleSender]
  /\ UNCHANGED <<UnlessSending, reached, pushes, doubted>>

SaveUnsent(s) ==
  /\ sender[s].at = "failed"
  /\ item' = [item EXCEPT ![sender[s].item].status =
       IF sender[s].attempts >= MaxSends THEN "dead" ELSE "failed"]
  /\ sender' = [sender EXCEPT ![s] = IdleSender]
  /\ UNCHANGED <<UnlessSending, reached, pushes, doubted>>

SenderDies(s) ==
  /\ sender[s].at # "idle"
  /\ doubted' = doubted \cup {sender[s].item}
  /\ sender' = [sender EXCEPT ![s] = IdleSender]
  /\ UNCHANGED <<UnlessSending, item, reached, pushes>>

(* 30 seconds are over. *)
ItemLeaseEnds(i) ==
  /\ item[i].status = "processing" /\ item[i].leased
  /\ item' = [item EXCEPT ![i].leased = FALSE]
  /\ UNCHANGED <<UnlessSending, sender, reached, pushes, doubted>>
-----------------------------------------------------------------------------
(* Subscriptions. *)

UnlessSubscribing == <<note, prefers, item, sender, reached, pushes, doubted,
                       unnoted, keyVars>>

(* createdAt of a subscription that is upserted: its own, if it was there  *)
(* before, revoked or not.                                                 *)
CreatedAt(e) ==
  IF age[e] > 0 THEN age[e] ELSE 1 + Cardinality({x \in Endpoints : age[x] > 0})

(* The upsert of saveSubscription. *)
Subscribe(e) ==
  /\ e \notin saving
  /\ age' = [age EXCEPT ![e] = CreatedAt(e)]
  /\ \/ Contains(active, e) /\ UNCHANGED active
     \/ /\ ~Contains(active, e)
        /\ \E n \in 1..(Len(active) + 1) :
             /\ \A k \in DOMAIN active : age[active[k]] < CreatedAt(e) <=> k < n
             /\ active' = InsertAt(active, n, e)
  /\ saving' = saving \cup {e}
  /\ UNCHANGED UnlessSubscribing

(* The oldest beyond the limit are revoked. *)
Trim(e) ==
  LET over == Len(active) - MaxActive IN
  /\ e \in saving
  /\ active' = IF over > 0 THEN SubSeq(active, over + 1, Len(active)) ELSE active
  /\ saving' = saving \ {e}
  /\ UNCHANGED <<age, UnlessSubscribing>>

Unsubscribe(e) ==
  /\ Contains(active, e)
  /\ Revoke(e)
  /\ UNCHANGED <<saving, age, UnlessSubscribing>>
-----------------------------------------------------------------------------
(* The middleware idempotency, for requests with one key and one body. *)

UnlessKeyed == <<note, prefers, item, sender, pushVars>>
Becomes(q, at) == request' = [request EXCEPT ![q] = at]

(* IdempotencyRecord.create: the unique ScopeKey has one winner. *)
Begin(q) ==
  /\ request[q] = "new"
  /\ IF record = "none"
       THEN record' = "pending" /\ runs' = runs + 1 /\ Becomes(q, "run")
       ELSE Becomes(q, "poll") /\ UNCHANGED <<record, runs>>
  /\ UNCHANGED UnlessKeyed

(* res.send: the response goes out while its record is written. *)
Respond(q) ==
  /\ request[q] = "run"
  /\ record' = "completed" /\ Becomes(q, "answered")
  /\ UNCHANGED <<runs, UnlessKeyed>>

(* The others wait two seconds at most. *)
Poll(q) ==
  /\ request[q] = "poll"
  /\ \/ record = "completed" /\ Becomes(q, "answered")
     \/ record # "completed" /\ Becomes(q, "conflict")
  /\ UNCHANGED <<record, runs, UnlessKeyed>>

(* The winner's process stops; its record stays pending for a day. *)
RequestDies(q) ==
  /\ request[q] = "run"
  /\ Becomes(q, "lost")
  /\ UNCHANGED <<record, runs, UnlessKeyed>>

(* A client that got no answer or a conflict tries again. *)
TryAgain(q) ==
  /\ request[q] \in {"lost", "conflict"}
  /\ Becomes(q, "new")
  /\ UNCHANGED <<record, runs, UnlessKeyed>>

Keyed(q) == Begin(q) \/ Respond(q) \/ Poll(q) \/ RequestDies(q) \/ TryAgain(q)

SendQueue(s) ==
  \/ \E i \in Items : ClaimItem(s, i)
  \/ DispatchEmail(s)
  \/ ListSubscriptions(s) \/ PushNext(s) \/ RecordPush(s) \/ RecordFails(s)
  \/ PushFails(s) \/ PushEnds(s)
  \/ SaveSent(s) \/ SaveUnsent(s)

MailerNext ==
  \/ \E n \in Notes : Notify(n)
  \/ Notifications \/ UpdatePreferences
  \/ \E s \in Senders : SendQueue(s) \/ SenderDies(s)
  \/ \E i \in Items : ItemLeaseEnds(i)
  \/ \E e \in Endpoints : Subscribe(e) \/ Trim(e) \/ Unsubscribe(e)
  \/ \E q \in Requests : Keyed(q)

MailerSpec == MailerInit /\ [][MailerNext]_mailerVars
-----------------------------------------------------------------------------
(* A push that failed for one browser does not reach another twice when it *)
(* is tried again, unless its worker died or outlived its lease, or the    *)
(* record of the first delivery could not be written.                      *)
PushOnce ==
  \A i \in Items \ doubted, e \in Endpoints :
    <<i, e>> \notin unnoted => pushes[<<i, e>>] <= 1

(* Once the saves of subscriptions are done, no user has more than the     *)
(* limit, in whatever order they ran.                                      *)
FewActive == saving = {} => Len(active) <= MaxActive

(* Requests with one key run once, also when the first answer was lost.    *)
RunsOnce == runs <= 1

(* Together: few browsers, each of which gets a notification once, and a   *)
(* request that is sent again is not run again.                            *)
SentOnce == PushOnce /\ FewActive /\ RunsOnce
=============================================================================
