---------------------------- MODULE MCMessaging -----------------------------
(***************************************************************************)
(* Events and their delivery to people.  Events ends where the inbox has   *)
(* taken an event, Mailer begins there, and the two share no document: a   *)
(* behaviour plays one scene of one of them.                               *)
(*   publish   two publishers, deliveries that fail, crashes               *)
(*   letters   dead letters, replayed and discarded                        *)
(*   pushes    the workers, while subscriptions come and go                *)
(*   saves     concurrent saves of subscriptions, notifications            *)
(*   keyed     requests with one Idempotency-Key                           *)
(***************************************************************************)
EXTENDS Events, Mailer

VARIABLE scene

messagingVars == <<eventVars, mailerVars, scene>>

OneText == [n \in Notes |-> CHOOSE t \in Texts : TRUE]

MessagingInit ==
  /\ EventsInit /\ MailerInit
  /\ scene \in {"publish", "letters", "pushes", "saves", "keyed"}

Plays(scenes) == scene \in scenes /\ UNCHANGED scene
FirstOf(ps, p) == p = CHOOSE q \in ps : TRUE

Unsent == \A e \in Envelopes : row[e].status = "none"

(* Messages stray to the handlers of one process.  Nobody reads the stored *)
(* letters in "publish"; none is stored there.                             *)
Reads(c) == FirstOf(Consumers, c) \/ consumer'[c].at # "check" \/ consumer'[c].own

(* Of processes that are alike, one may stop: the bounds are for the order *)
(* of the steps, not for their number.                                     *)
EventsScene ==
  /\ UNCHANGED mailerVars
  /\ \/ \E e \in Envelopes : EnqueueEvent(e) /\ Plays({"publish", "letters"})
     \/ \E e \in Envelopes : Plays({"publish"}) /\ RowLeaseEnds(e)
     \/ \E p \in Publishers :
          \/ Plays({"publish"}) /\ Publishing(p)
          \/ Plays({"letters"}) /\ Publishing(p) /\ FirstOf(Publishers, p)
          \/ Plays({"publish"}) /\ FirstOf(Publishers, p)
             /\ (StopPublisher(p) \/ PublisherDies(p))
     \/ Plays({"publish", "letters"}) /\ (Unsent \/ dropped # {}) /\ StartConsumer
     \/ \E c \in Consumers : Plays({"publish"}) /\ Consuming(c) /\ Reads(c) /\ UNCHANGED dead
     \/ \E c \in Consumers : Plays({"letters"}) /\ Consuming(c) /\ Reads(c)
     \/ \E c \in Consumers : Plays({"publish"}) /\ FirstOf(Consumers, c) /\ ConsumerDies(c)
     \/ \E a \in Admins : Plays({"letters"}) /\ AdminStep(a)

(* The other worker takes rows over whose lease has ended. *)
Works(s) ==
  \/ FirstOf(Senders, s) \/ sender[s] # IdleSender
  \/ \E i \in Items : item[i].status = "processing" /\ ~item[i].leased

(* Two browsers, one after the other. *)
InTurn(e) ==
  /\ ~FirstOf(Endpoints, e)
  /\ active # <<>> => e # Head(active)
  /\ active = <<>> => FirstOf({x \in Endpoints : ~FirstOf(Endpoints, x)}, e)

Quiet == \A i \in Items : item[i].status = "none"

MailerScene ==
  /\ UNCHANGED eventVars
  /\ \/ \E n \in Notes : Plays({"pushes"}) /\ Cardinality(prefers) = 1 /\ Notify(n)
     \/ \E n \in Notes : Plays({"saves"}) /\ Notify(n)
     \/ Plays({"pushes", "saves"}) /\ Quiet /\ UpdatePreferences
     \/ Plays({"saves"}) /\ Notifications
     \/ \E s \in Senders : Plays({"pushes"}) /\ Works(s) /\ SendQueue(s)
     \/ \E s \in Senders : Plays({"pushes"}) /\ FirstOf(Senders, s) /\ SenderDies(s)
     \/ \E i \in Items : Plays({"pushes"}) /\ ItemLeaseEnds(i)
     \/ \E e \in Endpoints :
          \/ Plays({"pushes"}) /\ Quiet /\ saving = {} /\ InTurn(e) /\ Subscribe(e)
          \/ Plays({"pushes"}) /\ Quiet /\ Trim(e)
          \/ Plays({"saves"}) /\ (Subscribe(e) \/ Trim(e) \/ Unsubscribe(e))
     \/ \E q \in Requests : Plays({"keyed"}) /\ Keyed(q)

MessagingNext == EventsScene \/ MailerScene

MessagingSpec == MessagingInit /\ [][MessagingNext]_messagingVars

Published(p) == Plays({"publish"}) /\ Publishing(p) /\ UNCHANGED mailerVars
Consumed(c) ==
  Plays({"publish"}) /\ Consuming(c) /\ Reads(c) /\ UNCHANGED <<dead, mailerVars>>

Requeued(c) == PublishToDlq(c) /\ queue' # queue

(* The publisher polls, the broker delivers and leases end.  From some     *)
(* moment on no process stops, no publisher outlives its lease, and the    *)
(* broker takes dead letters.                                              *)
FairMessaging ==
  /\ MessagingSpec
  /\ \A p \in Publishers : WF_messagingVars(Published(p))
  /\ \A c \in Consumers : WF_messagingVars(Consumed(c))
  /\ \A e \in Envelopes :
       WF_messagingVars(Plays({"publish"}) /\ RowLeaseEnds(e) /\ UNCHANGED mailerVars)
  /\ <>[][/\ \A p \in Publishers : ~StopPublisher(p) /\ ~PublisherDies(p)
          /\ \A c \in Consumers : ~ConsumerDies(c) /\ ~Requeued(c)
          /\ \A e \in Envelopes :
               ~(RowLeaseEnds(e) /\ \E p \in Publishers : publisher[p].row = e)
         ]_messagingVars
-----------------------------------------------------------------------------
(* What a transaction announced takes effect in the other service, or ends *)
(* where an operator finds it, in spite of failing handlers, brokers and   *)
(* processes: the outbox gives up on nothing silently.  An event that      *)
(* strayed, to a handler not its own or to no queue, is lost.              *)
Announced ==
  \A e \in Envelopes :
    scene = "publish" /\ row[e].status = "pending"
      ~> Effective(e) \/ e \in dlq \/ row[e].status = "dead" \/ Strayed(e)
=============================================================================
