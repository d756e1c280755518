------------------------------- MODULE Outbox -------------------------------
(***************************************************************************)
(* The monolith's transactional outbox (outboxService) and the workers     *)
(* that drain it (jobWorker): notifications, e-mails, audit entries and    *)
(* provider refunds that a business transaction has promised.              *)
(*                                                                         *)
(* A worker claims a whole batch under one lease, then delivers its events *)
(* one after the other; delivery and the mark that follows it are separate *)
(* steps.  A lease may lapse under a worker that is slow or has died.      *)
(***************************************************************************)
EXTENDS Naturals, Sequences

CONSTANTS
  Events,       \* idempotency keys
  Expiring,     \* those with an ExpiresAt
  Swallowed,    \* notifications, template mails, audit entries and metrics,
                \* whose services log their errors and return normally
  Templates,    \* the template mails among them
  Workers,      \* processPending calls, each with a worker id of its own
  Limit,        \* size of a batch, 20 in the code
  MaxAttempts,  \* 8 in the code
  SlowWorkers,  \* a worker may outlive the lease of its batch
  Nobody

ASSUME OutboxConstants ==
  /\ Expiring \subseteq Events /\ Nobody \notin Workers
  /\ Swallowed \subseteq Events /\ Templates \subseteq Swallowed
  /\ Limit \in Nat \ {0} /\ MaxAttempts \in Nat \ {0}
  /\ SlowWorkers \in BOOLEAN

VARIABLES
  event,      \* OutboxEvent documents
  expired,    \* the events whose ExpiresAt has passed
  delivered,  \* history: the events that reached their service at least once
  worker      \* the running processPending calls

outboxVars == <<event, expired, delivered, worker>>

IdleWorker == [pc |-> "idle", batch |-> <<>>]

OutboxInit ==
  /\ event = [e \in Events |->
       [status |-> "none", by |-> Nobody, leased |-> FALSE, attempts |-> 0]]
  /\ expired = {}
  /\ delivered = {}
  /\ worker = [w \in Workers |-> IdleWorker]

AtMost(n, bound) == IF n <= bound THEN n ELSE bound

(* A committed business transaction; a key that exists is not added again. *)
Enqueue(e) ==
  /\ event[e].status = "none"
  /\ event' = [event EXCEPT ![e].status = "pending"]
  /\ UNCHANGED <<expired, delivered, worker>>

(* The backoff of a failed event and the delay of a new one are over at    *)
(* some moment, so AvailableAt guards nothing here.                        *)
Claimable(e) ==
  /\ \/ event[e].status \in {"pending", "failed"}
     \/ event[e].status = "processing" /\ ~event[e].leased
  /\ e \notin expired

(* Mutant of Claim: leases of dead workers are never taken over. *)
ClaimNewOnly(w, e) ==
  /\ worker[w].pc \in {"idle", "claiming"} /\ Len(worker[w].batch) < Limit
  /\ event[e].status \in {"pending", "failed"} /\ e \notin expired
  /\ event' = [event EXCEPT ![e] =
       [status |-> "processing", by |-> w, leased |-> TRUE,
        attempts |-> AtMost(@.attempts + 1, MaxAttempts)]]
  /\ worker' = [worker EXCEPT ![w] =
       [pc |-> "claiming", batch |-> Append(@.batch, e)]]
  /\ UNCHANGED <<expired, delivered>>

(* claimBatch, one iteration.  Only attempts >= MaxAttempts matters later. *)
Claim(w, e) ==
  /\ worker[w].pc \in {"idle", "claiming"} /\ Len(worker[w].batch) < Limit
  /\ Claimable(e)
  /\ event' = [event EXCEPT ![e] =
       [status |-> "processing", by |-> w, leased |-> TRUE,
        attempts |-> AtMost(@.attempts + 1, MaxAttempts)]]
  /\ worker' = [worker EXCEPT ![w] =
       [pc |-> "claiming", batch |-> Append(@.batch, e)]]
  /\ UNCHANGED <<expired, delivered>>

(* claimBatch ends at the limit or when it finds nothing more. *)
ClaimEnds(w) ==
  /\ worker[w].pc = "claiming"
  /\ Len(worker[w].batch) = Limit \/ \A e \in Events : ~Claimable(e)
  /\ worker' = [worker EXCEPT ![w].pc = "deliver"]
  /\ UNCHANGED <<event, expired, delivered>>

Current(w) == Head(worker[w].batch)
Owns(w, e) == event[e].status = "processing" /\ event[e].by = w

(* The loop of processPending goes on with the rest of the batch. *)
NextOfBatch(w) ==
  worker' = [worker EXCEPT ![w] =
    IF Len(@.batch) = 1 THEN IdleWorker
    ELSE [pc |-> "deliver", batch |-> Tail(@.batch)]]

(* deliver returns.  notifyUser, safeSendTemplate and logActivity return,  *)
(* too, when what they were to do has failed.                              *)
Deliver(w) ==
  /\ worker[w].pc = "deliver"
  /\ \/ delivered' = delivered \cup {Current(w)}
     \/ Current(w) \in Swallowed /\ UNCHANGED delivered
  /\ worker' = [worker EXCEPT ![w].pc = "delivered"]
  /\ UNCHANGED <<event, expired>>

(* deliver throws: before anything was sent, or after.  Of a template mail *)
(* only the look for its recipient may throw.                              *)
DeliverFails(w) ==
  /\ worker[w].pc = "deliver"
  /\ Current(w) \in Templates \/ Current(w) \notin Swallowed
  /\ \/ UNCHANGED delivered
     \/ Current(w) \notin Swallowed /\ delivered' = delivered \cup {Current(w)}
  /\ worker' = [worker EXCEPT ![w].pc = "failed"]
  /\ UNCHANGED <<event, expired>>

(* If the lease was lost, so is the mark, and the loop goes on. *)
MarkSent(w) ==
  LET e == Current(w) IN
  /\ worker[w].pc = "delivered"
  /\ event' = IF Owns(w, e)
                THEN [event EXCEPT ![e].status = "sent", ![e].leased = FALSE]
                ELSE event
  /\ NextOfBatch(w)
  /\ UNCHANGED <<expired, delivered>>

Failed(e) ==
  [event EXCEPT ![e].leased = FALSE,
                ![e].status = IF event[e].attempts >= MaxAttempts THEN "dead"
                              ELSE "failed"]

(* Mutant of MarkFailed: the update looks at the event's id only.          *)
MarkFailedUnfenced(w) ==
  /\ worker[w].pc = "failed"
  /\ event' = Failed(Current(w))
  /\ NextOfBatch(w)
  /\ UNCHANGED <<expired, delivered>>

MarkFailed(w) ==
  /\ worker[w].pc = "failed"
  /\ event' = IF Owns(w, Current(w)) THEN Failed(Current(w)) ELSE event
  /\ NextOfBatch(w)
  /\ UNCHANGED <<expired, delivered>>

(* The instance of a worker stops; its leases run on. *)
Dies(w) ==
  /\ worker[w].pc # "idle"
  /\ worker' = [worker EXCEPT ![w] = IdleWorker]
  /\ UNCHANGED <<event, expired, delivered>>

InBatch(w, e) == \E i \in DOMAIN worker[w].batch : worker[w].batch[i] = e

(* 60 seconds are over: the worker has died, or is slow. *)
LeaseLapses(e) ==
  /\ event[e].status = "processing" /\ event[e].leased
  /\ SlowWorkers \/ ~InBatch(event[e].by, e)
  /\ event' = [event EXCEPT ![e].leased = FALSE]
  /\ UNCHANGED <<expired, delivered, worker>>

Expires(e) ==
  /\ e \in Expiring \ expired
  /\ expired' = expired \cup {e}
  /\ UNCHANGED <<event, delivered, worker>>

ProcessPending(w) ==
  \/ \E e \in Events : Claim(w, e)
  \/ ClaimEnds(w) \/ Deliver(w) \/ DeliverFails(w)
  \/ MarkSent(w) \/ MarkFailed(w)

OutboxNext ==
  \/ \E e \in Events : Enqueue(e) \/ LeaseLapses(e) \/ Expires(e)
  \/ \E w \in Workers : ProcessPending(w) \/ Dies(w)

OutboxSpec == OutboxInit /\ [][OutboxNext]_outboxVars

Outlived(e) == LeaseLapses(e) /\ InBatch(event[e].by, e)

(* The job worker ticks every 15 seconds and a lease ends.  From some      *)
(* moment on no worker dies or outlives its lease: an event that kills     *)
(* whoever delivers it, or takes longer than any lease, is never counted   *)
(* out, because only a worker that still owns it marks it dead.            *)
FairOutbox ==
  /\ OutboxSpec
  /\ \A w \in Workers : WF_outboxVars(ProcessPending(w))
  /\ \A e \in Events : WF_outboxVars(LeaseLapses(e))
  /\ <>[][/\ \A w \in Workers : ~Dies(w)
          /\ \A e \in Events : ~Outlived(e)]_outboxVars
-----------------------------------------------------------------------------
(* The type of every variable. *)
OutboxTypeOK ==
  /\ event \in [Events ->
       [status : {"none", "pending", "processing", "sent", "failed", "dead"},
        by : Workers \cup {Nobody}, leased : BOOLEAN, attempts : Nat]]
  /\ expired \subseteq Expiring
  /\ delivered \subseteq Events
  /\ worker \in [Workers ->
       [pc : {"idle", "claiming", "deliver", "delivered", "failed"},
        batch : Seq(Events)]]

(* A worker whose batch took longer than its lease cannot reopen what      *)
(* another one has finished: sent and dead events stay so.                 *)
SettledFinal ==
  [][\A e \in Events : event[e].status \in {"sent", "dead"} =>
       event'[e].status = event[e].status]_outboxVars

(* A provider refund or a mail of its own (email, email_secure_verify)     *)
(* counts as sent only when it was delivered, whatever happened to the     *)
(* batch it was claimed in.  Of the others "sent" says that it was tried.  *)
SentDelivered ==
  \A e \in Events \ Swallowed : event[e].status = "sent" => e \in delivered

(* What was promised is tried until it counts as sent, or ends in the dead *)
(* letters, in spite of dying workers; an event with an expiry may be      *)
(* dropped.                                                                *)
Settles ==
  \A e \in Events \ Expiring :
    event[e].status = "pending" ~> event[e].status \in {"sent", "dead"}
=============================================================================
