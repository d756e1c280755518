------------------------------- MODULE Content -------------------------------
(***************************************************************************)
(* The content service: pages, redirects and translations that several     *)
(* editors change, the transaction every edit runs in, the outbox and its  *)
(* publisher, and the script that copies the monolith's content over.      *)
(*                                                                         *)
(* MongoDB runs a transaction on the snapshot of its first read and aborts *)
(* it when a document it writes has changed since; a document it only read *)
(* may change.  An edit is therefore two steps, its reads and its commit.  *)
(***************************************************************************)
EXTENDS Integers, FiniteSets

CONSTANTS
  Slugs,        \* pages
  Paths,        \* redirects, by the path they start from
  Words,        \* translations
  Editors,      \* each with one request under way
  Tokens,       \* keys a client may send along
  Publishers,   \* processes that run the outbox publisher
  MaxEdits,     \* bound on the edits begun
  MaxHops,      \* the longest chain of redirects (20 in the code)
  MaxAttempts,  \* tries before an event is dead (5 in the code)
  MaxClaims,    \* bound on the times one event is claimed
  Absent,       \* no path, no document, no key
  Here          \* the monolith, as the author of a text

VARIABLES
  document,  \* the pages, redirects and translations
  ask,       \* the request of each editor
  begun,     \* how many edits were begun
  event,     \* the outbox: events by the edit that stored them
  claimed,   \* the keys the idempotency records hold, each with its route
  sent,      \* the events the broker has taken
  batch      \* the event each publisher works on

(* Neither is the number of an edit. *)
ContentConstants == MaxEdits \in Nat /\ {Absent, Here} \cap (1..MaxEdits) = {}

contentVars == <<document, ask, begun, event, claimed, sent, batch>>

-----------------------------------------------------------------------------
Places == Slugs \cup Paths \cup Words
Edits == 1..MaxEdits
Route(k) == IF k \in Slugs THEN "page" ELSE IF k \in Paths THEN "redirect" ELSE "word"

(* A page: `text` is its content, `stamp` the edit that set updatedAt,     *)
(* `to` the target of a redirect, `shown` whether it is published/active.  *)
NoDocument == [id |-> 0, version |-> 0, text |-> Absent, stamp |-> 0,
               to |-> Absent, shown |-> FALSE]
Stored(k) == document[k] # NoDocument

(* The ETag digests the content and updatedAt, not the version. *)
ETag(d) == <<d.text, d.stamp>>

NoAsk == [at |-> "none", on |-> Absent, to |-> Absent, shown |-> FALSE, edit |-> 0,
          match |-> Absent, token |-> Absent, seen |-> NoDocument]
NoBatch == [edit |-> 0, tries |-> 0, taken |-> FALSE]

ContentInit ==
  /\ document = [k \in Places |-> NoDocument]
  /\ ask = [e \in Editors |-> NoAsk]
  /\ begun = 0
  /\ event = [n \in {} |-> NoBatch]
  /\ claimed = {}
  /\ sent = {}
  /\ batch = [w \in Publishers |-> NoBatch]

-----------------------------------------------------------------------------
(* The idempotency middleware lets a key through once on a route; a repeat *)
(* gets the first answer or a refusal and never reaches the controller.    *)
Claims(token, k) ==
  /\ <<token, Route(k)>> \notin claimed
  /\ claimed' = IF token = Absent THEN claimed ELSE claimed \cup {<<token, Route(k)>>}

(* What a request brings, with the snapshot of the document it is about. *)
Asks(e, k, to, shown, match, token) ==
  /\ ask[e].at = "none" /\ begun < MaxEdits
  /\ Claims(token, k)
  /\ begun' = begun + 1
  /\ ask' = [ask EXCEPT ![e] =
       [at |-> "open", on |-> k, to |-> to, shown |-> shown, edit |-> begun',
        match |-> match, token |-> token, seen |-> document[k]]]
  /\ UNCHANGED <<document, event, sent, batch>>

(* An editor read the page at some time: the ETag names any past version. *)
BeginPage(e, k, shown, match, token) ==
  /\ k \in Slugs
  /\ match # Absent /\ Stored(k) => match = ETag(document[k])
  /\ Asks(e, k, Absent, shown, match, token)

(* Where a chain of active redirects leads after n hops, Absent at its end. *)
Trail(from) ==
  LET hop[n \in 0..MaxHops] ==
        IF n = 0 THEN from
        ELSE LET p == hop[n - 1]
             IN IF p \in Paths /\ document[p].shown THEN document[p].to ELSE Absent
  IN hop

detectRedirectCycle(from, to) ==
  \/ \E n \in 0..MaxHops - 1 : Trail(to)[n] = from
  \/ Trail(to)[MaxHops] # Absent

BeginRedirect(e, from, to, shown, token) ==
  /\ from \in Paths /\ from # to
  /\ ~detectRedirectCycle(from, to)
  /\ Asks(e, from, to, shown, Absent, token)

BeginWord(e, k, token) == k \in Words /\ Asks(e, k, Absent, TRUE, Absent, token)

-----------------------------------------------------------------------------
(* The event's key is the client's own, or names the version written. *)
EventKey(a, d) == IF a.token # Absent THEN <<a.token>> ELSE <<a.on, d.id, d.version>>

Written(a) ==
  [id |-> IF a.seen = NoDocument THEN a.edit ELSE a.seen.id,
   version |-> a.seen.version + 1,
   text |-> a.edit, stamp |-> a.edit, to |-> a.to, shown |-> a.shown]

UnchangedAnyway(a) == TRUE
Unchanged(a) == document[a.on] = a.seen

(* findOneAndUpdate, audit log and outbox row commit together. *)
CommitEdit(e) ==
  LET a == ask[e] d == Written(a)
  IN /\ a.at = "open"
     /\ Unchanged(a)
     /\ \A n \in DOMAIN event : event[n].key # EventKey(a, d)
     /\ document' = [document EXCEPT ![a.on] = d]
     /\ event' = [n \in DOMAIN event \cup {a.edit} |->
          IF n = a.edit THEN [key |-> EventKey(a, d), status |-> "pending", tries |-> 0]
          ELSE event[n]]
     /\ ask' = [ask EXCEPT ![e] = NoAsk]
     /\ UNCHANGED <<begun, claimed, sent, batch>>

(* A write conflict, a duplicate event key or a stop leaves nothing behind; *)
(* after a duplicate key the answer is the document as it stands.           *)
AbortEdit(e) ==
  /\ ask[e].at = "open"
  /\ ask' = [ask EXCEPT ![e] = NoAsk]
  /\ UNCHANGED <<document, begun, event, claimed, sent, batch>>

(* deletePage and deleteRedirect are one write each, and tell nobody. *)
Delete(k) ==
  /\ k \in Slugs \cup Paths /\ Stored(k)
  /\ document' = [document EXCEPT ![k] = NoDocument]
  /\ UNCHANGED <<ask, begun, event, claimed, sent, batch>>

(* runBackfill copies the monolith's row over whatever stands, without a   *)
(* version, updatedAt or event.                                            *)
Backfill(k, to, shown) ==
  /\ begun < MaxEdits /\ begun' = begun + 1
  /\ k \in Paths <=> to # Absent
  /\ document' = [document EXCEPT ![k] =
       [id      |-> IF Stored(k) THEN document[k].id ELSE begun',
        version |-> document[k].version, text |-> Here, stamp |-> document[k].stamp,
        to      |-> to, shown |-> shown]]
  /\ UNCHANGED <<ask, event, claimed, sent, batch>>

-----------------------------------------------------------------------------
(* claimOutboxBatch: a row that is due, or whose lease has run out (any    *)
(* row in processing: a lease is over when a slow holder outlives it).     *)
ClaimEvent(w, n) ==
  /\ batch[w] = NoBatch
  /\ event[n].status \in {"pending", "failed", "processing"} /\ event[n].tries < MaxClaims
  /\ event' = [event EXCEPT ![n].status = "processing", ![n].tries = @ + 1]
  /\ batch' = [batch EXCEPT ![w] = [edit |-> n, tries |-> event[n].tries + 1, taken |-> FALSE]]
  /\ UNCHANGED <<document, ask, begun, claimed, sent>>

(* The broker takes the event, whether or not its confirm comes back. *)
Publish(w) ==
  /\ batch[w] # NoBatch /\ ~batch[w].taken
  /\ sent' = sent \cup {batch[w].edit}
  /\ \E confirmed \in BOOLEAN : batch' = [batch EXCEPT ![w].taken = confirmed]
  /\ UNCHANGED <<document, ask, begun, event, claimed>>

(* item.save() after a confirm, or after an error. *)
Settled(b) ==
  IF b.taken THEN "published" ELSE IF b.tries >= MaxAttempts THEN "dead" ELSE "failed"

SaveEvent(w) ==
  /\ batch[w] # NoBatch
  /\ event' = [event EXCEPT ![batch[w].edit].status = Settled(batch[w])]
  /\ batch' = [batch EXCEPT ![w] = NoBatch]
  /\ UNCHANGED <<document, ask, begun, claimed, sent>>

StopPublisher(w) ==
  /\ batch[w] # NoBatch
  /\ batch' = [batch EXCEPT ![w] = NoBatch]
  /\ UNCHANGED <<document, ask, begun, event, claimed, sent>>

-----------------------------------------------------------------------------
PageNext ==
  \/ \E e \in Editors, k \in Slugs, s \in BOOLEAN, t \in Tokens \cup {Absent} :
       \E m \in {ETag(document[k]), Absent} : BeginPage(e, k, s, m, t)
  \/ \E k \in Slugs : Delete(k)

RedirectNext ==
  \/ \E e \in Editors, k, to \in Paths, s \in BOOLEAN, t \in Tokens \cup {Absent} :
       BeginRedirect(e, k, to, s, t)
  \/ \E k \in Paths : Delete(k)

WordNext == \E e \in Editors, k \in Words, t \in Tokens \cup {Absent} : BeginWord(e, k, t)

EndNext == \E e \in Editors : CommitEdit(e) \/ AbortEdit(e)

CopyNext ==
  \E k \in Places, s \in BOOLEAN, to \in Paths \cup {Absent} : Backfill(k, to, s)

PublishNext ==
  \/ \E w \in Publishers, n \in DOMAIN event : ClaimEvent(w, n)
  \/ \E w \in Publishers : Publish(w) \/ SaveEvent(w) \/ StopPublisher(w)

ContentNext == PageNext \/ RedirectNext \/ WordNext \/ EndNext \/ CopyNext \/ PublishNext

ContentSpec == ContentInit /\ [][ContentNext]_contentVars
-----------------------------------------------------------------------------
(* An edit that named the version it was made on replaces that version and *)
(* no other, although the check of If-Match and the write are apart and    *)
(* other editors, deletions and the backfill run between them (upsertPage: *)
(* "Optimistic Concurrency Check").                                        *)
EditsNamed ==
  [][\A e \in Editors :
       ask[e].at = "open" /\ ask[e].match # Absent /\ Stored(ask[e].on)
         /\ document'[ask[e].on] # document[ask[e].on] /\ document'[ask[e].on].text = ask[e].edit
       => ETag(document[ask[e].on]) = ask[e].match]_contentVars

(* A row that says published has reached the broker, and a document that   *)
(* stands as an edit left it has that edit's event in the outbox.          *)
EditsTold ==
  /\ \A n \in DOMAIN event : event[n].status = "published" => n \in sent
  /\ \A k \in Places : document[k].text \in Edits => document[k].text \in DOMAIN event

(* Together: an edit replaces what its editor saw, and is announced.       *)
EditsHold == []EditsTold /\ EditsNamed
=============================================================================
