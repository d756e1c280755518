----------------------------- MODULE Settlement -----------------------------
(***************************************************************************)
(* How the money of one booking reaches the host's ledger: the gateway's   *)
(* checkout sessions and webhooks (gatewayService) and the bank transfers  *)
(* a customer reports and the host verifies (paymentService).  Credits and *)
(* payouts are those of HostLedger.                                        *)
(*                                                                         *)
(* Webhooks are delivered any number of times, in any order, to any        *)
(* instance; Provider.tla says how often.  The inbox gives an event to one *)
(* worker under a lease of 60 seconds; the settlement is one transaction   *)
(* that also marks the event.  Settlements and verifications that credit   *)
(* write the same HostBalance document, so each is one step.               *)
(***************************************************************************)
EXTENDS HostLedger

CONSTANTS
  Sessions,     \* gateway sessions of the booking
  Manuals,      \* reported bank transfers
  Events,       \* provider event ids
  SessionOf,    \* the session an event is about
  Outcome,      \* what an event reports: paid, expired, failed, ignored
  Workers,      \* concurrent webhook requests
  Price,        \* TotalAmount of the booking when it is made
  Quotes,       \* totals a reschedule may bring; {} when there is none
  None          \* nobody

ASSUME SettlementConstants ==
  /\ Payments = Sessions \cup Manuals /\ Sessions \cap Manuals = {}
  /\ SessionOf \in [Events -> Sessions]
  /\ Outcome \in [Events -> {"paid", "expired", "failed", "ignored"}]
  /\ Price \in Nat \ {0} /\ Quotes \subseteq Nat
  /\ None \notin Workers

VARIABLES
  bstatus,   \* the booking's status, see BookingMoves
  price,     \* its TotalAmount
  session,   \* GatewayPayment documents
  pay,       \* PaymentHistory documents
  inbox,     \* WebhookEvent documents
  hook,      \* the running handleWebhook calls
  quote      \* the quote a running rescheduleBooking will save

requests == <<hook, quote>>
moneyVars == <<bstatus, price, session, pay, inbox, hook, quote>>
settlementVars == <<moneyVars, ledgerVars>>

IdleHook == [pc |-> "idle", event |-> None, seen |-> "none"]
NoQuote == 0
BookingStatuses == {"pending", "payment_under_review", "confirmed", "in-use",
                    "over", "dead"}

Amount(p, s) == IF pay[p].status = s THEN pay[p].amount ELSE 0

(* getNetPaidForBooking, before any refund. *)
NetPaid == SumFunction([p \in Payments |-> Amount(p, "successful")])

SettlementInit ==
  /\ LedgerInit
  /\ bstatus = "pending" /\ price = Price
  /\ session = [s \in Sessions |-> [status |-> "none", amount |-> 0]]
  /\ pay = [p \in Payments |-> [status |-> "none", amount |-> 0]]
  /\ inbox = [e \in Events |-> [status |-> "none", by |-> None]]
  /\ hook = [w \in Workers |-> IdleHook]
  /\ quote = NoQuote

(***************************************************************************)
(* The booking as Booking.tla describes it; expired and cancelled are      *)
(* "dead", completed and no_show are "over".  cancelBookingByHost fails    *)
(* the reported transfers in its transaction, cancelBookingByCustomer      *)
(* later, an expiry never.  confirmPayment, once it has reported a         *)
(* transfer, saves the booking whatever its status is by then.             *)
(***************************************************************************)
BookingMoves ==
  /\ \/ /\ \E m \in Manuals : pay[m].status \notin {"none", "offered"}
        /\ bstatus' = "payment_under_review"
     \/ bstatus \in {"pending", "payment_under_review"} /\ bstatus' = "confirmed"
     \/ bstatus = "confirmed" /\ bstatus' \in {"in-use", "over"}
     \/ bstatus = "in-use" /\ bstatus' = "over"
     \/ /\ bstatus \in {"pending", "payment_under_review", "confirmed"}
        /\ bstatus' = "dead"
  /\ UNCHANGED <<price, session, pay, inbox, requests, ledgerVars>>

CancelFailsTransfers ==
  /\ bstatus = "dead"
  /\ pay' = [p \in Payments |->
       IF pay[p].status = "pending" THEN [pay[p] EXCEPT !.status = "failed"]
       ELSE pay[p]]
  /\ UNCHANGED <<bstatus, price, session, inbox, requests, ledgerVars>>

(* rescheduleBooking quotes the new window and compares it with what is    *)
(* paid, moves the slots, and then saves the quote.                        *)
RescheduleQuotes(q) ==
  /\ quote = NoQuote /\ bstatus \in {"pending", "payment_under_review", "confirmed"}
  /\ ~(NetPaid > 0 /\ q > NetPaid)
  /\ quote' = q
  /\ UNCHANGED <<bstatus, price, session, pay, inbox, hook, ledgerVars>>

RescheduleSaves ==
  /\ quote # NoQuote
  /\ price' = quote /\ quote' = NoQuote
  /\ UNCHANGED <<bstatus, session, pay, inbox, hook, ledgerVars>>

(***************************************************************************)
(* createCheckoutSession: the amount is decided when the booking is read,  *)
(* the document is written after the provider has answered.                *)
(***************************************************************************)
CheckoutQuote(s, a) ==
  /\ session[s].status = "none" /\ bstatus \notin {"dead", "over"}
  /\ NetPaid + a <= price
  /\ session' = [session EXCEPT ![s] = [status |-> "opening", amount |-> a]]
  /\ UNCHANGED <<bstatus, price, pay, inbox, requests, ledgerVars>>

CheckoutCreate(s) ==
  /\ session[s].status = "opening"
  /\ session' = [session EXCEPT ![s].status = "open"]
  /\ UNCHANGED <<bstatus, price, pay, inbox, requests, ledgerVars>>

(***************************************************************************)
(* createPendingPayment, verifyManualPaymentAndPostLedger, rejectPayment.  *)
(***************************************************************************)
TransferQuote(m, a) ==
  /\ pay[m].status = "none" /\ bstatus \in {"pending", "confirmed", "in-use"}
  /\ NetPaid + a <= price
  /\ pay' = [pay EXCEPT ![m] = [status |-> "offered", amount |-> a]]
  /\ UNCHANGED <<bstatus, price, session, inbox, requests, ledgerVars>>

TransferReport(m) ==
  /\ pay[m].status = "offered"
  /\ pay' = [pay EXCEPT ![m].status = "pending"]
  /\ UNCHANGED <<bstatus, price, session, inbox, requests, ledgerVars>>

(* Mutant of TransferVerify: the cap of createPendingPayment is trusted. *)
TransferVerifyUncapped(m) ==
  /\ pay[m].status = "pending"
  /\ pay' = [pay EXCEPT ![m].status = "successful"]
  /\ Credit(m, pay[m].amount)
  /\ UNCHANGED <<bstatus, price, session, inbox, requests>>

TransferVerify(m) ==
  /\ pay[m].status = "pending"
  /\ NetPaid + pay[m].amount <= price
  /\ pay' = [pay EXCEPT ![m].status = "successful"]
  /\ Credit(m, pay[m].amount)
  /\ UNCHANGED <<bstatus, price, session, inbox, requests>>

TransferReject(m) ==
  /\ pay[m].status = "pending"
  /\ pay' = [pay EXCEPT ![m].status = "failed"]
  /\ UNCHANGED <<bstatus, price, session, inbox, requests, ledgerVars>>

(***************************************************************************)
(* handleWebhook.                                                          *)
(***************************************************************************)
(* Mutant of HookClaim: an event that was begun is never taken up again. *)
HookClaimOnce(w, e) ==
  /\ hook[w].pc = "idle" /\ inbox[e].status = "none"
  /\ inbox' = [inbox EXCEPT ![e] = [status |-> "processing", by |-> w]]
  /\ hook' = [hook EXCEPT ![w] = [IdleHook EXCEPT !.pc = "claimed", !.event = e]]
  /\ UNCHANGED <<bstatus, price, session, pay, quote, ledgerVars>>

(* claimWebhookEvent: a new event, a failed one, or one whose lease is up. *)
(* A processed or leased event is answered as a duplicate.                 *)
HookClaim(w, e) ==
  /\ hook[w].pc = "idle" /\ inbox[e].status \in {"none", "failed", "lapsed"}
  /\ inbox' = [inbox EXCEPT ![e] = [status |-> "processing", by |-> w]]
  /\ hook' = [hook EXCEPT ![w] = [IdleHook EXCEPT !.pc = "claimed", !.event = e]]
  /\ UNCHANGED <<bstatus, price, session, pay, quote, ledgerVars>>

LeaseLapses(e) ==
  /\ inbox[e].status = "processing"
  /\ inbox' = [inbox EXCEPT ![e].status = "lapsed"]
  /\ UNCHANGED <<bstatus, price, session, pay, requests, ledgerVars>>

Owns(w) == /\ inbox[hook[w].event].status \in {"processing", "lapsed"}
           /\ inbox[hook[w].event].by = w

Ended(w) == hook' = [hook EXCEPT ![w] = IdleHook]
Marked(w, s) == inbox' = [inbox EXCEPT ![hook[w].event].status = s]

(* The session as it is before anything is decided. *)
HookLoad(w) ==
  LET s == SessionOf[hook[w].event] IN
  /\ hook[w].pc = "claimed" /\ session[s].status \notin {"none", "opening"}
  /\ hook' = [hook EXCEPT ![w].pc = "loaded", ![w].seen = session[s].status]
  /\ UNCHANGED <<bstatus, price, session, pay, inbox, quote, ledgerVars>>

(* Session not found, an exhausted retry, a lost lease: what the handler   *)
(* still owns becomes failed and can be claimed again.                     *)
HookFails(w) ==
  /\ hook[w].pc # "idle"
  /\ IF Owns(w) THEN Marked(w, "failed") ELSE UNCHANGED inbox
  /\ Ended(w)
  /\ UNCHANGED <<bstatus, price, session, pay, quote, ledgerVars>>

(* The process stops; the lease remains. *)
HookDies(w) ==
  /\ hook[w].pc # "idle"
  /\ Ended(w)
  /\ UNCHANGED <<bstatus, price, session, pay, inbox, quote, ledgerVars>>

(* The provider says that the session expired or that its asynchronous     *)
(* payment failed: an update, and only then the mark.                      *)
HookExpires(w) ==
  LET s == SessionOf[hook[w].event] IN
  /\ hook[w].pc = "loaded" /\ Outcome[hook[w].event] = "expired"
  /\ session' = IF session[s].status = "succeeded" THEN session
                ELSE [session EXCEPT ![s].status = "expired"]
  /\ hook' = [hook EXCEPT ![w].pc = "closed"]
  /\ UNCHANGED <<bstatus, price, pay, inbox, quote, ledgerVars>>

HookMarks(w) ==
  /\ \/ hook[w].pc = "closed"
     \/ hook[w].pc = "loaded" /\ Outcome[hook[w].event] = "ignored"
  /\ Owns(w)
  /\ Marked(w, "processed") /\ Ended(w)
  /\ UNCHANGED <<bstatus, price, session, pay, quote, ledgerVars>>

(* Mutant of HookFailsSession: only the status read first is looked at. *)
HookFailsSessionStale(w) ==
  LET s == SessionOf[hook[w].event] IN
  /\ hook[w].pc = "loaded" /\ Outcome[hook[w].event] = "failed"
  /\ hook[w].seen # "succeeded" /\ Owns(w)
  /\ session' = [session EXCEPT ![s].status = "failed"]
  /\ Marked(w, "processed") /\ Ended(w)
  /\ UNCHANGED <<bstatus, price, pay, quote, ledgerVars>>

(* An event that reports no success closes the session and is marked, in   *)
(* one transaction.                                                        *)
HookFailsSession(w) ==
  LET s == SessionOf[hook[w].event] IN
  /\ hook[w].pc = "loaded" /\ Outcome[hook[w].event] = "failed"
  /\ hook[w].seen # "succeeded" /\ Owns(w)
  /\ session' = IF session[s].status = "succeeded" THEN session
                ELSE [session EXCEPT ![s].status = "failed"]
  /\ Marked(w, "processed") /\ Ended(w)
  /\ UNCHANGED <<bstatus, price, pay, quote, ledgerVars>>

(* ensurePaymentOnly: the payment record of a session is written once. *)
EnsurePayment(s, st) ==
  pay' = IF pay[s].status = "none"
           THEN [pay EXCEPT ![s] = [status |-> st, amount |-> session[s].amount]]
           ELSE pay

(* ensurePaymentAndLedger *)
EnsureCredited(s) ==
  /\ EnsurePayment(s, "successful")
  /\ IF CreditKey(s) \in posted THEN UNCHANGED ledgerVars
     ELSE Credit(s, session[s].amount)

(* Mutant of SettleNew: the payment is recorded, the ledger forgotten. *)
SettleNewUncredited(s) ==
  /\ session' = [session EXCEPT ![s].status = "succeeded"]
  /\ EnsurePayment(s, "successful")
  /\ UNCHANGED <<bstatus, ledgerVars>>

(* The settlement of a session that had not succeeded. *)
SettleNew(s) ==
  /\ session' = [session EXCEPT ![s].status = "succeeded"]
  /\ \/ /\ bstatus = "dead"
        /\ EnsurePayment(s, "reconciliation_required")
        /\ UNCHANGED <<bstatus, ledgerVars>>
     \/ /\ bstatus # "dead" /\ NetPaid + session[s].amount > price
        /\ EnsurePayment(s, "overpayment_pending_refund")
        /\ UNCHANGED <<bstatus, ledgerVars>>
     \/ /\ bstatus # "dead" /\ NetPaid + session[s].amount <= price
        /\ EnsureCredited(s)
        /\ bstatus' = IF bstatus = "pending" THEN "payment_under_review"
                      ELSE bstatus

(* One transaction: settle, or complete what another event has settled,    *)
(* and mark the event; without the lease all of it is rolled back.         *)
HookSettles(w) ==
  LET e == hook[w].event
      s == SessionOf[e] IN
  /\ hook[w].pc = "loaded" /\ Owns(w)
  /\ \/ hook[w].seen = "succeeded" /\ Outcome[e] \in {"paid", "failed"}
     \/ Outcome[e] = "paid"
  /\ IF session[s].status = "succeeded"
       THEN EnsureCredited(s) /\ UNCHANGED <<session, bstatus>>
       ELSE SettleNew(s)
  /\ Marked(w, "processed") /\ Ended(w)
  /\ UNCHANGED <<price, quote>>

HookRuns(w) ==
  \/ HookLoad(w) \/ HookExpires(w) \/ HookMarks(w) \/ HookFailsSession(w)
  \/ HookSettles(w)

SettlementNext ==
  \/ BookingMoves
  \/ CancelFailsTransfers
  \/ \E q \in Quotes \ {NoQuote} : RescheduleQuotes(q)
  \/ RescheduleSaves
  \/ \E s \in Sessions :
       (\E a \in Amounts : CheckoutQuote(s, a)) \/ CheckoutCreate(s)
  \/ \E m \in Manuals :
       \/ \E a \in Amounts : TransferQuote(m, a)
       \/ TransferReport(m) \/ TransferVerify(m) \/ TransferReject(m)
  \/ \E w \in Workers :
       \/ \E e \in Events : HookClaim(w, e)
       \/ HookRuns(w) \/ HookFails(w) \/ HookDies(w)
  \/ \E e \in Events : LeaseLapses(e)
  \/ PayoutNext /\ UNCHANGED moneyVars

SettlementSpec == SettlementInit /\ [][SettlementNext]_settlementVars
-----------------------------------------------------------------------------
PaymentRecords ==
  [status : {"none", "offered", "pending", "successful", "failed",
             "reconciliation_required", "overpayment_pending_refund"},
   amount : Nat]
SessionRecords ==
  [status : {"none", "opening", "open", "expired", "failed", "succeeded"},
   amount : Nat]
NonRevenue == {"reconciliation_required", "overpayment_pending_refund"}

(* The type of every variable, the ledger's included. *)
SettlementTypeOK ==
  /\ LedgerTypeOK
  /\ bstatus \in BookingStatuses /\ price \in Nat /\ quote \in Nat
  /\ session \in [Sessions -> SessionRecords]
  /\ pay \in [Payments -> PaymentRecords]
  /\ inbox \in [Events ->
       [status : {"none", "processing", "lapsed", "processed", "failed"},
        by : Workers \cup {None}]]
  /\ hook \in [Workers ->
       [pc : {"idle", "claimed", "loaded", "closed"},
        event : Events \cup {None},
        seen : {"none", "opening", "open", "expired", "failed", "succeeded"}]]

(* What has been paid for a booking never exceeds its total, whatever      *)
(* sessions and transfers are settled concurrently.                        *)
CapRespected == NetPaid <= price

(* Every successful payment has exactly one ledger credit, of its amount,  *)
(* and nothing else is credited.                                           *)
CreditsMatchPayments ==
  /\ \A p \in Payments : pay[p].status = "successful" <=> CreditKey(p) \in posted
  /\ total["payment"] = NetPaid

(* A session has succeeded exactly if its money is on record.              *)
SucceededRecorded ==
  \A s \in Sessions : session[s].status = "succeeded" <=> pay[s].status # "none"

(* What has been collected stays collected: a failure that is delivered    *)
(* late, or that raced the success, does not take the success back.        *)
SucceededFinal ==
  [][\A s \in Sessions : session[s].status = "succeeded" =>
       session'[s].status = "succeeded"]_settlementVars

(* A processed event stays processed: a handler that lost its lease cannot *)
(* reopen what another one has finished.                                   *)
ProcessedFinal ==
  [][\A e \in Events : inbox[e].status = "processed" =>
       inbox'[e] = inbox[e]]_settlementVars

OutcomesFinal == SucceededFinal /\ ProcessedFinal

(* All of this is a behaviour of the host's ledger. *)
ImplementsLedger == LedgerSpec
=============================================================================
