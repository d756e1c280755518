# WorkHub in TLA+

WorkHub is a marketplace for work spaces: customers book rooms and desks, pay
through a gateway or by bank transfer, and hosts are paid out.  This directory
holds TLA+ models of the parts of it that change shared state, TLC
configurations that check them on small instances, and theorems that TLAPS
proves for every value of the constants.

Paths are relative to the repository; `monolith/` stands for
`apps/legacy-monolith/`, `identity/`, `communication/` and `content/` for the
services of these names.

## 1. The system

A Node process (`monolith/app.js`) serves the pages and the API; several
instances may run, each with its own timers (`monolith/jobs`).  MongoDB is the
only store they share, Redis the lock server when it is configured.  Identity,
communication and content are services of their own behind an API gateway and
talk through RabbitMQ.

What MongoDB does indivisibly is one update of one document, or one
multi-document transaction (`utils/mongoTransaction.js`: snapshot reads, a
write conflict aborts the transaction, `withTransaction` starts it over).
Everything else - `find`, `await`, `save` - is several steps, and that is where
the hard behaviour is.

| Component | State | Operations | Interacts with | What is hard | What makes it correct |
|---|---|---|---|---|---|
| Booking lifecycle (`services/bookingService.js`) | `Booking` (status, window, hold), `BookingSlot` with a unique index on space and slot | create, confirm, check in, complete, cancel by host or customer, expire | lock, transactions, gateway, outbox | create against create; handlers that save what they read earlier | no double booking, buffers kept, slots and status agree, legal transitions |
| Admission (`featureFlagService.js`, `hostBulkService.js`, `listingModerationService.js`) | a space's status, `FeatureFlag` with a cache per instance, `Blackout` | throw the kill switch, close a space, black out | createBooking | an order past its look | a closure binds and is announced |
| Rescheduling (`rescheduleService.js`) | the bookings' documents | six steps without lock or transaction | bookings, payments | partial insertion, best-effort restore, late save | same as bookings |
| Check-in, no-show (`checkInService.js`) | the same | mint and use a code, mark no-show | bookings | no-show against check-in | nobody who is in is marked absent |
| Jobs (`jobs/*.js`) | none | every minute: expire holds, complete bookings; every 15 s: jobs and outbox | bookings, outbox | several instances at once | every stale hold is released |
| Lock (`utils/distributedLock.js`) | Redis key with a TTL, or a map per process | acquire, release | createBooking | TTL ends under the holder | one holder while it lasts |
| Gateway (`gatewayService.js`) | `CheckoutOperation`, `GatewayPayment`, `WebhookEvent` | open a session, handle webhooks | bookings, payments, ledger | duplicates, reordering, leases, dead bookings | each payment counted once, never beyond the total |
| Bank transfers (`paymentService.js`) | `PaymentHistory` | report, verify, reject | bookings, ledger | two transfers for one remainder | same |
| Ledger, payouts, reconciliation (`ledgerService.js`, `payoutService.js`, `scripts/reconcile-finance.js`) | `LedgerEntry`, `HostBalance` (projection), `Payout` | post, project, request, approve, reject, recompute | payments, refunds | long sequences with debts | ledger and projection agree, never more paid out than collected |
| Refunds, disputes (`refundService.js`, `providerRefundService.js`, `disputeService.js`) | `RefundRequest`, allocations, operations, `Dispute` | request, approve, reject, submit, settle, confirm by hand | payments, ledger, outbox, provider | stale saves over settled refunds | never more than was paid, debited once |
| Outbox (`outboxService.js`) | `OutboxEvent` with leases | enqueue, claim, deliver, mark | every transaction | death and slowness of workers; notifications, mails and audit rows that fail silently | delivered, or where failures are swallowed tried, before it is marked; settled once |
| Background jobs (`jobQueue.js`, `bookingReminders.js`, `holdReminders.js`) | `BackgroundJob`, `DeadLetter` | enqueue, claim, run, retry, recover, replay, remind | workers | leases without fencing | a result is not overwritten |
| Integration events (`packages/observability/messaging.js`, outboxes and inboxes of the services) | outbox, broker, inbox, dead letters | publish, consume, replay | identity, communication, content | redelivery, partial failure, eight handlers on one queue | committed once; lost only to a wrong handler or for want of a queue |
| Communication (`services/communication-service`) | notifications, mail and push queue, subscriptions, idempotency records | consume, send, subscribe | broker | retries of half-done pushes | once to each browser whose delivery is on record |
| Identity: accounts (`services/identity-service`) | user, sessions, codes, challenges, outbox | register, log in, second factor, reset, revoke | gateway, broker | requests in flight during a revocation | a revoked session stays out, codes work once |
| Identity: keys (`keyring.js`, `keyManager.js`, `rotateTotpKeys.js`) | seed key and signing key of each instance | rotate | accounts | instances restart one by one | nothing becomes unreadable |
| API gateway (`apps/api-gateway`) | token cache | introspect, cache, evict | identity | introspection under way during a revocation | staleness bounded by the TTL |
| Legacy accounts (`monolith/controllers/authController.js`, `identityController.js`) | the monolith's users and sessions | as identity's | monolith, its sockets | load and save without a version; sockets look at the version alone | ended sessions stay ended |
| Coupons, memberships (`couponService.js`, `membershipService.js`) | counters with limits, credit ledger | redeem, undo, grant, consume, expire | createBooking | last use, repeated debit | limits kept, credits balance |
| Series and groups (`recurringService.js`, `groupBookingService.js`) | series, occurrences, guests | create, resume, cancel, invite | createBooking | a stopped process, two requests | an occurrence is booked by one request |
| Prices (`pricingService.js`, `bookingQuoteService.js`) | rates, packages, rules | quote, preview, publish | createBooking, wizard | two computations of one price | the preview and the quote hold |
| Booking wizard (`public/js/booking-wizard.js`) | the page's state, a draft | choose, quote, submit, reload | createBooking | clicks while answers are under way | one booking per visit |
| Hosting pages (`hostController.js`, `catalogController.js`, `hostVerificationService.js`) | galleries, pictures, reviews, verification | upload, reorder, delete, report | Cloudinary | two edits of one array | what was deleted stays deleted; what is lost was uploaded during another edit |
| Staff, partner keys (`staffService.js`, `hostContext.js`, `apiKeyAuth.js`) | memberships, keys | invite, accept, revoke, look, act | bookings | a scope resolved earlier; empty lists | nobody sees another host's branches |
| Content (`services/content-service`) | pages, redirects, translations, outbox | edit, delete, backfill, publish | broker | two editors, write skew | no lost update, announced edits |
| Catalogue, search | read only | query | - | - | - |
| Remaining front end (`monolith/public`, `views`, `routes`) | none | render | all | - | - |

The hazards this code is exposed to are in `PROJECT.json` with their lines and
the properties that would show each of them going wrong.

## 2. Plan

The order was by what a mistake costs: two customers in one room, money that is
lost, a promise that is forgotten, an account in the wrong hands.

| # | Modules | Abstract specification | Status |
|---|---|---|---|
| 1 | `Booking` | `Calendar` | checked and proved |
| 2 | `HostLedger` | its own conservation law | checked and proved |
| 3 | `Settlement` with `Provider` on top of it, `Refunds`, each composed with `HostLedger` | `HostLedger` | checked and proved |
| 4 | `Outbox`, `JobQueue`, `Events`, `Mailer` | - | checked, safety proved |
| 5 | `Accounts`, `Gateway` on top of it, `Keys`, `LegacyAuth` | - | checked and proved |
| 6 | `Offers`, `Series`, `Pricing` with `Wizard` on top of it, `Admission` | - | checked and proved |
| 7 | `Hosting`, `Staff`, `Content` | - | checked and proved |

Every safety property of a passing run - invariant or action property - is the
statement of a theorem; the five liveness properties are left to TLC.  What the
models leave out is in section 6.

## 3. Modules and code

Each definition that models code is listed with its lines in `PROJECT.json`,
`map`.  Definitions keep the names of the source where TLA+ allows it.  A
handler that awaits is a process whose record keeps what it has read; each of
its steps ends at a write or at a read whose result is used later.

### Bookings: Calendar, Booking, Admission

`Calendar` is the promise: clients hold sets of slots, exclusively, and take and
give them back in one step.

`Booking` is one space (`createBooking`'s lock, conflict query and slot index
are all per space).  Its variables are the fields of the documents - `status`,
`win` (the slots between StartTime and EndTime), `hold` (HoldExpiresAt: none,
live or stale), `slot` (the BookingSlot rows), `checkout` (is a gateway session
of the booking open) - and, per running handler, what it has read.

| Action | Code |
|---|---|
| `AcquireLock`, `LockLapses` | `withLock("booking:space:<id>")`, TTL 8 s |
| `TxnBegin`, `TxnRetry`, `TxnCommit`, `CreateFails` | the transaction of `createBooking`: everything is read at the snapshot, `doomed` are the open transactions that will meet a write conflict |
| `Confirm`, `CheckIn`, `Complete`, `HostCancel` | one conditional update or one transaction each |
| `SweepFind`, `SweepCheckGateway`, `SweepExpire`, `SweepFree` | the four awaits of `expireStaleHolds` |
| `CloseLoad`, `CloseSave`, `CloseFree` | `cancelBookingByCustomer` and `markNoShow`: find, save unconditionally, delete the slots |
| `ReportLoad`, `ReportSave` | `confirmPayment` of the customer controller |
| `CheckoutBegin` ... `CheckoutCloses` | what the gateway does to a booking |
| `MoveLoad`, `MoveRelease`, `MoveCheck`, `MoveInsert`, `MoveRestore`, `MoveSave` | `rescheduleBooking` |
| `Crash` | a process stops: handlers forget, documents stay |

Time is abstract: guards that compare with the clock may hold at any moment.

`Admission` is the rest of `createBooking` before its transaction (`AskCache`,
`AskFlag`, `KeepAnswer`, `ReadBlackouts`, `Insert`), the switch
(`UpsertFlag`, `WriteFlag`, `Aged`: cache entries get older by ticks), the
space's status (`bulkUpdateSpaces`, `moderateListing`) and
`createBlackoutWithNotify` (`CreateBlackout`, `ListAffected`, `Tell`, `Answer`);
a customer whose notification failed silently is `missed`.
There the transactions of `Booking` are one step each.

### Money: HostLedger, Settlement, Refunds

`HostLedger`: `total` keeps the ledger as sums per kind of entry (all that its
readers compute), `posted` the idempotency keys; `available`, `reserved`,
`paidOut`, `debt` are `HostBalance`.  Every operation is a transaction that
writes the host's only `HostBalance`, so two of them conflict and one is
restarted: one step each.  The script of `reconcile-finance` is not a
transaction: three steps.

`Settlement` extends it with one booking, its gateway sessions, the webhook
inbox and the bank transfers.  `HookClaim` is `claimWebhookEvent`, then
`HookLoad` reads the session outside the transaction, and `HookSettles`,
`HookFailsSession` and `HookExpires` + `HookMarks` are the three ways to finish;
`Owns` is the lease check of `markWebhookProcessed`, whose failure aborts the
transaction.  `RescheduleQuotes` and `RescheduleSaves` are the two moments of
`rescheduleBooking` that touch the price.  The booking itself moves as `Booking`
allows (`BookingMoves`), its end states merged.

`Provider` is the payment provider under it, for the liveness of payments: it
repeats an event until it is answered with success (`Delivers`).  A
redelivery under the lease of an earlier one is answered with success as well
(`AnswersBusy`: `handleWebhook` returns `processing`, the controller sends 200),
and the event is not repeated again; when its handler fails afterwards it is
`Stranded`, because no job looks for events left in `processing`.

`Refunds` extends `HostLedger` with the payments of one booking, its refunds,
their shares in the payments and the disputes.

| Action | Code |
|---|---|
| `Collect` | a payment succeeds (modelled by `Settlement`) |
| `RequestCheck`, `RequestCreate` | `requestRefund`: the limit, then the document |
| `RejectLoad`, `RejectSave` | the branch of `processRefund` that saves what it loaded |
| `Approve` | `processRefund`, `executeWork`: claim, `allocateRefundToPayments`, and either submit, wait for a transfer, or complete with evidence |
| `DisputeOpen`, `DisputeClose`, `DisputeRefund` | `disputeService` |
| `SubmitLoad`, `OpLoad`, `OpSave`, `OpAnswer`, `SubmitMark`, `SubmitSettle`, `SubmitManual`, `SubmitDisputes` | `submitProviderRefunds` from one await to the next; `Settle` is the transaction of `settleInternalRefund` |
| `ConfirmLoad`, `ConfirmSettle`, `ConfirmMark`, `ConfirmDone` | `confirmManualRefund` |
| `SubmitStops`, `ConfirmStops` | an error, or the end of the process |

`alloc` is RefundAllocation; a payment's RefundedAmount is its sum, because both
are written in the same transaction.  A save of a document writes only the
fields that were assigned, as Mongoose does.  A refund's `GatewayParts` are its
shares in gateway payments; what it waits for before it completes is these
alone.  `provider` is outside the code:
what Stripe did under an operation's idempotency key; an answer may be lost and
arrive as a failure.  `evidence` is a history variable.

### Workers: Outbox, JobQueue, Events, Mailer

| Module | Correspondence |
|---|---|
| `Outbox` | `Claim` is one iteration of `claimBatch`; `Deliver` and `MarkSent` or `MarkFailed` are separate steps, because `processPending` awaits between them. `Swallowed` are the events whose delivery reports no failure (notifications, template mails, audit rows): it ends normally whether or not it took place; of the others a failure reaches `DeliverFails`. `delivered` is a history variable. |
| `JobQueue` | `ProcessNextJob`, `Run`, `Bury`, `SaveOutcome` are `processNextJob` with its `withRetry`; `Recover` is `recoverStuckJobs`; `RetryLoad`/`RetrySave`, `ReplayEnqueue`/`ReplayMark` and `Discard` are what hosts and administrators do; `SweepFind`, `Remind`, `Flag`, `SweepFails` the two reminder jobs; `tried` are the holds for which `notifyUser` was called, which returns null when it fails. |
| `Events` | `ClaimRow`, `PublishEvent`, `SavePublished`, `SaveFailed` are the publisher of identity; `StartConsumer` binds the queue (before it, a message has no queue and is `dropped` although confirmed); `Receive`, `CheckInbox`, `InsertInbox`, `CommitEffect`, `Ack`, `Reject`, `DeadLetter`, `PublishToDlq` a consumer under `subscribeEvent`. All handlers share one queue, so `Receive` picks the event's `own` handler or another, whose commit is `misread`; `Reject` puts the message back through the retry queue or, the queue having no dead-letter policy, drops it. `ClaimLetter`, `Replay`, `ReplaySaved`, `DiscardLoad`, `DiscardSave` the administrator. `queue` counts the messages by their x-death count. |
| `Mailer` | `Notify` turns an accepted event into a notification and queue items; `ClaimItem`, `DispatchEmail`, `ListSubscriptions`, `PushNext`, `RecordPush`, `SaveSent`, `SaveUnsent` are the two workers, `RecordFails` the push that was sent while its PushDelivery could not be written (`unnoted`); `Subscribe`, `Trim`, `Unsubscribe` a user's browsers; `Begin`, `Respond`, `Poll` the idempotency middleware. |

### Accounts: Accounts, Gateway, Keys, LegacyAuth

`Accounts` is one account of identity-service.  Every HTTP request is a process
that serves one operation (`Begin` fixes which, and what the client knows), with
one action per span between awaits; transactions take a `Snapshot` and commit
only if what they write is `Unwritten` since.  `tok` holds all documents that
are issued and spent: sessions, pre-authentications, mail tokens, reset codes
and challenges.

`Gateway` extends it with the token cache: `Ask`, `IntrospectUser`,
`IntrospectSession`, `Receive` and `Abort` are one introspection, `Evict` and
`EvictOnRevocation` what empties the cache, `Tick` the clock.  A reply empties
it of the caller's entries, which are the account's where its owner asks
(`ByOwner`); a password reset and a forced logout (`ByOthers`) evict nothing of
the account they are about, and what they leave is `unevicted`.

`Keys` is the rotation of both keys over instances that read them once, at
start: `Promote`, `StartScript`, `FetchBatch`, `RotateRow`, `EndScript`, `Drop`
for seeds, `PromoteSigner`, `RetireSigner` for tokens.

`LegacyAuth` is the monolith's own version of `Accounts`, by load and save; a
token carries the account's version, and `Bump` is its increment.  `Attached` is
the middleware's answer for tokens that name their session; `ByVersion` is that
of the sockets and for tokens that name none: the version alone decides.

### Sales: Offers, Series, Pricing, Wizard

| Module | Correspondence |
|---|---|
| `Offers` | with a replica set `RedeemCommit` and `Posted` are transactions; without one, `CountUse`, `CountUserUse`, `Redeem` and their undoing are single writes, after each of which an error may end the call and leave what is written (`RedeemBreaks`, `PostedAlone`). `SubscribeCheck` ... `ExpireMark` are membershipService. |
| `Series` | `PlanDate` plans, `LoadPlan` ... `FinishSeries` is `resumeSeriesCreation`, `LoadSeries` ... `CancelSeries` is `cancelSeries`; a child booking is one step. |
| `Pricing` | `quotePrice`, `selectDurationPackage` and `applyRulesToUnit` as operators over small integers; `createdPrice` is what createBooking charges, `quoteBooking` what the wizard shows; the host's edits, previews and publication are actions. |
| `Wizard` | extends `Pricing`; `page` is the script's `state`, its handlers are the actions, and every request is answered later, or never (`Lose`). |

### Pages: Hosting, Staff, Content

`Hosting` has one request record per upload, deletion, reordering, report or
decision; an array is saved only onto the version that was loaded, `$push` does
not raise it.  Its histories name what goes wrong: uploads that were answered
while a request held a copy of the array (`late`), files that were destroyed
while the save of their removal failed (`unsaved`), decisions about one host
that overlapped (`raced`).  `Staff` keeps, per request, the scope it resolved (`Resolved`)
and what it showed or acted on.  In `Content` an edit is its reads
(`BeginPage`, `BeginRedirect`, `BeginWord`) and its commit, and `Backfill`
copies the monolith's documents over what is there.

### MC modules

They add symmetry, maps between constants, and the variable `scene`.  The parts
that one configuration checks share no document, so every interleaving of them
is a shuffle of behaviours of each: a behaviour plays one of them, and the
state space is their sum instead of their product.  `MCMessaging`, `MCOffers`,
`MCSite`, `MCIdentity` and `MCWorkers` also let a scene leave out operations
that cannot interfere with those it is about, and bound those it keeps as the
comments beside their scenes say.  `MCProvider` is the instance of `Provider`.  The theorems are about the
modules' own specifications, which leave out nothing (section 5).

`MCBookingScenes` is different: with all handlers at once the code keeps few
promises (section 7), so a scene is a set of optional handlers that run
together, `CalendarKept` and `Lawful` say in which scenes each promise is kept,
and the theorems about them hold for every choice of scenes (section 5).

## 4. Runs

| Run | Instance | What it shows |
|---|---|---|
| `Booking` | 2 bookings, 3 slots, buffer 1, one reschedule; scenes of expiry, crashes and lapsing locks, of expiry and cancellation, of expiry and checkouts, of cancellation and no-show, of a reschedule | `NoDoubleBooking`; `CalendarKept`: buffers while the lock holds, active bookings own their slots, dead ones give them back; `Lawful` transitions; `ImplementsCalendar` |
| `BookingLive` | 2 bookings, 2 slots; the expiry job with checkouts and reports, or with cancellations and no-shows | `StaleHoldsReleased`: a stale hold is released in the end |
| `Settle` | 2 sessions of one booking, 1 transfer, 3 events (two payments, an expiry), 1 worker; or the ledger with 3 payments, 2 refunds, 2 payouts and the script | `Conserved`, `PayoutsBalance`, `CapRespected`, `PaymentsCredited` |
| `SettleLive` | 1 session that is reported paid, failed and expired, 2 workers and the provider, a reschedule, a payout while no handler is at work | `OutcomesFinal`; `PaidSettles`: a reported payment settles, unless it is stranded |
| `Refunds` | 2 payments (a transfer; Stripe or a wallet), 2 refunds, 1 dispute, 2 submissions | `AmountsAgree`: nothing is over-refunded; `DebitsSound`; `DisputeNotForgotten`; `LedgerBehaves` like `HostLedger` |
| `Workers` | 2 events (one expires, one is swallowed) and 2 workers with batches of 2; 2 jobs, 2 instances, 1 caller; reminders of 1 booking and 1 hold | `MarkedIsDone`, `SettledFinal`, `CompletedKept`; `Settles` and `RunsEnd`: what waits is done or counted out |
| `Messaging` | 1 event, 2 publishers, 2 consumers, 1 administrator; 3 browsers of which 2 may stay; 3 requests with one key | `DeliveredOnce`, `SentOnce`; `Announced`: an event takes effect or is found by an operator, unless it strayed to a wrong handler or no queue |
| `Identity` | 1 account, 4 requests, 2 passwords, sessions and codes, 3 challenges, 1 guess; 1 introspection, answers kept 2 ticks and on their way 1; 2 instances, 2 seeds, 1 token | `RevocationHolds`, `OneTime`, `GuessesBounded`, `RevocationsAnnounced`, `StaleLimited`, `KeysOverlap` |
| `Offers` | 4 orders on a coupon with limit 2 (1 per user); 2 plans and calls; 2 dates, 3 bookings and 2 makers of a series; 2 rules, 3 edits; 5 clicks; 3 orders on 2 instances around one switch and one blackout | `CouponCounts`, `CreditsBalance`, `OccurrencesOwn`, `PreviewHolds`, `OneBooking`, `BlackoutsTold`, `SwitchBinds` |
| `Site` | 1 branch's and 1 space's gallery, 3 files, 2 requests; 2 owners with 3 branches, 1 employee, 1 key, 1 visit; 2 editors, 3 edits, 2 publishers; 4 calls on one account; 2 decisions on a host | `EditsSurvive`, `StaffScoped`, `EditsHold`, `EndedStaysEnded` |
| `AccountsChange`, `QuoteCharge` | as `Identity` and `Offers` | a sentence of the repository that the code does not keep (section 7) |

**Bounds.** Every set of the instance is finite, and counters stop at the
constants named `Max...`: grants, edits, clicks, guesses, sends, deaths, takes,
runs, claims, copies, versions, switches, moves and hops.  Where the code has such
a limit (`MaxAttempts`, `MaxSends`, `MaxDeaths`, `MaxActive`, `MaxHops`,
`MaxTries` of codes) a smaller one reaches it sooner; where it has none the
bound only ends the instance.
The constraints are `Uncrowded` (two submissions run together
only while there is one refund: they conflict only over the same one),
`OneFailure` (of the failure and the expiry of the session in `SettleLive` only
one arrives; each of them races the payment) and `PayoutsApart` (there, payouts
move while no handler is at work: neither reads what the other writes).  Where a
scene is narrower than its module this is stated beside it: in
`MCMessaging` messages stray to the handlers of one process, in `MCSite` the
images of a behaviour are those of one page and four reports of a review are
saved, of which two are kept (`MaxReports`; 200 in the code), and where sessions
end the account has no second factor; in `MCOffers` two postings of
credits are enough without transactions.  Two bookings are enough for every conflict, which is
between two; three slots with a buffer of one tell touching, near and
overlapping windows apart, and let a reschedule overlap its old window.  Amounts
1 and 2 with total 2 give partial, full and over-payments.  `delivered` stops at
2, which stands for "more than once".  A batch of two is the smallest in which
one event waits behind another.  Four requests on one account are a login with
a second factor, what overtakes it, and one more of each.

**Symmetry** permutes values that no definition distinguishes, and is used in
runs without liveness properties only.

**Deadlock** is not checked: bookings, payments, requests and edits are begun a
bounded number of times, and when all have come to their end the system rests.

**Fairness.** `FairScenes`: the expiry job is a timer of every instance, so its
steps are weakly fair.  `FairSettlement` (in `Provider`): a handler does not run for ever; for
events of payments the provider repeats until it is answered with success
(strong fairness of `Delivers`: it comes back after every failure, and stops
after a success, also one that only says that somebody else is at it), leases
end, and a handler that holds its lease again and again does not fail each time.
What is left when such a success was premature is `Stranded`, which `PaidSettles`
excepts: there the code guarantees nothing.
`FairWorkers`: workers and job instances are timers, leases end, and from some
moment on nobody dies or outlives its lease; without the last assumption an
event that stops every worker that delivers it is claimed for ever, because only
`markFailed` compares Attempts with its maximum.  `FairMessaging`: publishers
poll, the broker delivers, leases end, and from some moment on no process stops,
no publisher outlives its lease and the broker takes dead letters.

## 5. Proofs

All theorems hold for every value of the constants that the assumptions named
in the modules allow: any number of bookings, payments, events, workers,
requests, sessions, instances.  They are about each module's own specification,
not about the scenes in which the runs cut it, but for `Booking`, whose
properties name scenes, and for `PaymentsCredited` and `MarkedIsDone`, which are
defined over them.

| Module | Theorems |
|---|---|
| `SumTheorems` | no theorems about the system: the lemmas on sums over finite sets that the others need |
| `BookingProofs` | `TypeCorrect`, `NoDoubleBookingHolds`, `CalendarImplemented`, `TransitionsAreLawful`, `CalendarIsKept` |
| `HostLedgerProofs` | `LedgerTypeCorrect`, `MoneyConserved`, `PayoutsCovered`, `PayoutsAreBalanced` |
| `MoneyProofs` | of `Settlement`: `SettlementTypeCorrect`, `LedgerImplemented`, `SettlementConserves`, `SucceededIsRecorded`, `SuccessIsFinal`, `ProcessedIsFinal`, `OutcomesAreFinal`, `CapIsKept`, `CapHolds`, `RevenueIsCredited`, `PaymentsAreCredited`; of `Refunds`: `CompletedIsDebited`, `DebitsEarned`, `DebitsAreSound`, `AmountsAlwaysAgree`, `RefundsImplementLedger`, `DisputesAreNotForgotten` |
| `WorkersProofs` | `OutboxTypeCorrect`, `SentWasDelivered`, `SettledStaysSettled`, `CompletedIsKept`, `RemindersAreKept`, `MarkedMeansDone`, `EventsDeliveredOnce`, `EverythingSentOnce` |
| `IdentityProofs` | `RevocationsHold`, `TokensAreOneTime`, `GuessesAreBounded`, `RevocationsAreAnnounced`, `StaleTokensAreLimited`, `KeysOverlapHolds` |
| `OffersProofs` | `CouponsAreCounted`, `CreditsAreBalanced`, `OccurrencesAreOwn`, `PreviewsHold`, `OneBookingHolds`, `BlackoutsAreTold`, `SwitchIsBinding` |
| `SiteProofs` | `EditsAreKept`, `StaffIsScoped`, `EditsAreHeld`, `EndedStay` |

**Hypotheses beyond the constants' assumptions.**  There are three, and
each excludes a behaviour in which the code really breaks the property:

- `ScenesOrderly` (`Booking`): no scene has `confirmPayment`, which saves a
  stale read over an expiry, and where a reschedule runs there is one at a
  time and no expiry job, since it gives up a booking's slots before it has
  others (section 7).  Everything else - creates, cancellations, no-shows,
  checkouts, sweeps, crashes, lapsing locks - may run together in any number.
  The run's five scenes and every subset of one satisfy it.
- `NotRescheduled` (`CapHolds`): a reschedule may lower the price below what a
  payment under way adds.  `CapIsKept`, without the hypothesis, says that no
  other step exceeds the cap.
- `OneReport` (`PaymentsAreCredited`): each session has one event that reports
  payment or failure.  A second one of a session that was paid for a dead booking
  credits what the first has put aside.  `RevenueIsCredited`, without it, says that the credits are the sum of
  the payments they name.

**How the arguments go.**  Seldom is a property inductive; what it takes:

*Bookings.*  `NoDoubleBooking` allows two open transactions that are about to insert
overlapping windows.  `BookingInv` adds what keeps them apart.  Unless it is
doomed, an open transaction's reads still hold: the bookings it will expire are
still pending (`ExpirePending`), the slots it will write are free or freed by
itself (`TxnReserves`), and no active booking meets its window (`TxnExcludes`),
since whoever changes what it read dooms it.  `CloseKnown` says that a
cancellation or no-show never revives anything, `MoveInv` that from its check to
its save a reschedule's new window is free, or whoever slipped in owns its slots
and makes the insertion fail.  The steps are sorted by what they have in common
(`Ordinary`, `Gentle`), so that a property need not be argued for each of
fifteen actions.  The lock plays no part, so double bookings are excluded even when it
lapses.  Buffers need it: `CalendarIsKept` adds `LockGuards` and
`TxnKeepsAway` in scenes where it does not lapse, and `SlotsKnown` for the slots.

*Ledger.*  `LedgerInv` is types, conservation, and that the debt never exceeds
what was refunded, which makes `PayoutsCovered` inductive.  `ReservedInv` says
that what is reserved and paid out are sums over the payouts.

*Settlement.*  `SettlementInv`: every record is sound by itself, and a session
has succeeded exactly if its payment exists.  Each step is a step of the ledger or
leaves it alone, so the ledger's theorems carry over.  `AmountsInv` adds that a payment's
amount is its session's and that credits name settled payments.

*Refunds.*  `RefundsInv`: a succeeded operation was paid by the provider; each
of the `GatewayParts` of a refund under submission is still to be done, was paid, or left
a result that is no success; a confirmation past its settlement has the debit.
`AllocInv`: what all refunds take from a payment never exceeds it, and an approved
refund's shares add up to it.  A debit is earned by the gateway parts, or by
evidence, and by no more: that the customer has the transfer's part as well
is not claimed, since the code does not wait for it (section 7).  (The allocation is a fold over the payments by age, of
which the proof uses that each share is bounded by what is left.)  With
`SumsMatch` this bounds the debits by the credits, which `HostLedger` asks for.

*Workers.*  A worker about to mark its event has delivered it unless it is one of
the `Swallowed`, and only the owner
of a processing event changes it (`OutboxInv`); a job under way is running on
one instance under a lease that holds, unless a retry or a lapsed lease disturbed it (`JobsInv`).  `EventsInv`: from the
broker's confirmation on an event is in a queue, at a consumer, committed by its
own handler or among the dead letters, or it strayed (another handler committed
it, or the broker had no queue for it), and at most one transaction is about to insert it.
`SendersInv`: except for rows whose lease ended under a worker, one worker has a row, and a push that was
sent is on record, or its sender is just about to record it, or its record could
not be written (`unnoted`).

*Identity.*  `AccountsInv` ties every token to the account's version: an open one
of the current version belongs to the current era (what happened since the last
revocation), a spent session was announced, a request in flight has read no
later version than there is.  `GatewayInv` measures staleness: a cached answer
is not older than its entry plus the time an introspection takes, and an answer
on its way not older than the introspection; of the sessions that a reply
reported ended, only those an introspection under way brings back and those of
a reset or forced logout (`unevicted`) are still in the cache.  `KeysInv`: a clean run of the script
leaves no seed that an instance not yet promoted has written since.

*Offers.*  `CouponInv` counts the orders that hold a use, of the coupon and of
each user, with those that broke off between two writes and left one;
`CreditInv` says that with a replica set a membership's credits are the sum of
its entries (without, only that they are never negative); `SeriesInv` that attempts at one occurrence exclude
each other through its row; `WizardInv` that the button is free only when no
request is under way; `ClosuresInv` that an order past its look meets only blackouts that it missed,
and that from its listing on a blackout has everybody else told, missed by a
notification that failed silently, or still to be told; `SwitchInv` that no cache entry is older than it says.

*Site.*  `HostingInv`: a request's copy is current if its version is, but for
uploads that came while it was held, and an
uploaded file is shown by one request's picture only; decisions about a host that
do not overlap find what they loaded.  `StaffInv`: every scope was
covered by a grant when resolved.  `ContentInv`: each request has an edit of its
own and what is published was sent.  `LegacyInv`: an ended session's row is revoked,
a token is held by the request that used it up, and until a stale save rewinds
the version, a session that was swept has a lower one (`VersionInv`).

**Sums.**  The library's induction theorems take operators as parameters, which
the provers cannot instantiate.  `SumTheorems` argues instead by a smallest
counterexample: among the subsets of a finite set for which a statement fails there
is a smallest one.  So sums over any finite set of payments, refunds or payouts
are within reach.

**Only model-checked.**  `StaleHoldsReleased`, `PaidSettles`, `Settles`,
`RunsEnd` and `Announced` are liveness under fairness, which TLAPS does not
prove here.  So are the violations of the last two runs.  `PreviewsHold` is for
at most two rules, because `Pricing` keeps the rate in quarters, which is exact
for two (`RulesAssumption`).

## 6. What is not modelled

- Catalogue, search and what is rendered: nothing shared changes.
- Prices, taxes and currencies beyond small natural numbers; signatures and
  formats of providers; texts of notifications.
- The branch of `createBooking` without transactions: `config/env.js` forces
  transactions in production.
- The lock's fallback map (one process) and its release in two steps; both only
  make the lock weaker, which `LockLapses` covers.
- `CheckoutOperation` and the keys of its attempts.
- Several spaces, hosts or accounts where no operation reads or writes documents
  of two of them.
- Events: the order of two events of one user, the content of payloads, the
  keyring of outbox payloads.
- Sockets: one that is connected stays in its rooms whatever happens to its
  session; `ByVersion` is the check when it connects.
- Accounts: expiry of tokens, banned accounts, registration of hosts, the mock and
  the linking of Google accounts, the backfill from the monolith.
- Offers: add-on stock (a step of createBooking that may fail), splitting of
  costs, alternatives, rollouts of flags by percentage, branch statuses.
- The wizard in two tabs and the expiry of its draft.
- Pages: iCal tokens, dashboards, exports, check-in codes, conversations; the
  staff roles finance, content and support.
- The middleware of the API gateway other than its cache; its JWKS cache decides
  nothing.

## 7. Where code and documentation differ

The first two are runs that expect a violation; TLC's trace is the shortest
interleaving.

1. `AccountsChange`: `changePassword` enqueues the event and the mail of a
   changed password under one idempotency key (`identity/controllers/authController.js:698`),
   which is unique in the outbox: its transaction always aborts, against
   `identity/README.md:18`.
2. `QuoteCharge`: `createBooking` (`bookingService.js:252`) prices a stay without
   the space's packages and takes 30 % as deposit; `bookingQuoteService.js:5`
   and `:87` say that the quote is computed as createBooking does.

Met while modelling, without a run of their own; the properties except what
they lead to.

*Bookings*

- `confirmPayment` (`controllers/customerController.js:575`) saves
  `payment_under_review` over an expiry it has not seen, when the slots may have
  been sold: two active bookings in one slot.  A scene with `report` and
  `sweep` shows it.
- `expireStaleHolds` (`bookingService.js:983`) deletes the slots of bookings that
  its own update skipped (`CalendarKept` claims an active booking's slots only
  in scenes without the expiry job; `Lawful` and the proofs show the statuses); a checkout opened between the gateway check and the
  update (`:976`) expires, against the comment of `:958`.
- Two reschedules at once (`rescheduleService.js:211`), even of different
  bookings, or a reschedule beside the expiry job, can double-book; one that
  fails half way (`:223`) leaves an active booking without its slots or slots
  outside its window; its conflict query ignores buffers.
- `cancelBookingByCustomer` (`bookingService.js:854`) and `markNoShow`
  (`checkInService.js:218`) save over a check-in, against the table of
  `bookingService.js:43`.
- A lock that lapses under its holder (`distributedLock.js:65`) lets two
  bookings closer than the buffer in; the slot index does not know buffers.
- A process that stops after `bookingService.js:855` keeps a cancelled booking's
  slots taken.
- "Blackout blocks booking" (`README.md:137`): a reschedule into a blackout is
  not checked, an order past its look is booked inside it, guests already
  checked in are not told, and a process that stops between the creation and the telling
  tells nobody.
- `upsertFlag` clears the cache before the write and on its own instance only,
  so the switch binds after the TTL at the latest; `createBooking` ignores the
  branch's status.

*Money*

- While the lease of a dead handler holds, a repeated webhook is answered with
  200 and `processing` (`gatewayService.js:479`, `billingController.js:242`).
  The provider stops, no job looks for `WebhookEvent`s left in `processing`, and
  the payment stays open (`Stranded`).
- The reconciliation script (`reconcile-finance.js:125`) subtracts a payout and
  its reservation.
- A second event of a session that succeeded for a dead booking credits the host
  (`gatewayService.js:565`).
- A payment between the quote and the save of a reschedule
  (`rescheduleService.js:249`) exceeds the new total.
- The settlement of any refund of a booking resolves all its disputes that wait
  for one (`providerRefundService.js:288`); a dispute set to
  `resolution_failed` (`:236`) is not resolved by a later settlement.
- `submitProviderRefunds` sets `provider_submitted` (`:209`) and `processRefund`
  saves `rejected` (`refundService.js:347`) over a completed refund.  The ledger
  stays right (`DebitsSound`), the status does not.
- A refund of a gateway payment and a transfer completes, and is debited whole,
  when the gateway has paid its part (`refundService.js:418`,
  `providerRefundService.js:140`, `:223`); `DebitsSound` speaks of the gateway
  parts only.  One that has been submitted may also be
  confirmed by hand: the customer is paid twice, the host is debited once.
- `processRefund` cannot complete a refund in `manual_refund_required` (`:323`).
- `processPayout` gives a rejected amount back without repaying the debt
  (`payoutService.js:295`), so `computeFromLedger` (`ledgerService.js:287`) nets
  what the projection keeps apart.

*Workers and messages*

- An outbox event is delivered before it is marked (`outboxService.js:407`): at
  least once, not "exactly once" (`models/OutboxEvent.js:7`).
- Notifications, mails and audit rows fail silently: `notifyUser` returns null
  (`notificationService.js:41`), `safeSendTemplate` (`emailService.js:95`) and
  `logActivity` (`auditLogger.js:116`) catch everything.  So an outbox event is
  marked sent, a hold reminder flagged (`holdReminders.js:30`) and a customer
  counted as told (`hostBulkService.js:158`) although nothing reached anybody.
- `jobQueue.js`: a stale save after a lapsed lease stands; a job with ten
  attempts that is retried stays queued; letters already discarded can be replayed.
- `bookingReminders.js:11` says "once per booking"; two instances may both
  enqueue.
- Eight handlers share one queue (`communication/services/consumerService.js:426`),
  so the broker gives an event to any of them; the wrong one records it in the inbox,
  acknowledges it, and it is lost (`misread`).
- The queues are asserted without dead-letter arguments (`messaging.js:132`), so
  without a policy at the broker `reject` drops the message.  Publishing is not
  `mandatory`: before the consumer's queue exists a message is confirmed and lost.
- A push that was sent and whose `PushDelivery` cannot be written
  (`pushService.js:256`) counts as failed; when another browser makes the row
  retry, the first gets the push again.
- A replay sends the message with its stored x-death headers, although
  `monolith/controllers/adminController.js` means to reset the retries.
- Equal texts share one `email:` or `push:` key; the second is not sent.
- A request that crashes under the idempotency middleware leaves its key pending
  for 24 h.

*Accounts and keys*

- The gateway rejects no bad signature locally (`apps/api-gateway/server.js:153`):
  a failed check is followed by introspection all the same.
- Cached results "for that user are stale and must go now"
  (`apps/api-gateway/server.js:194`); what goes is the caller's:
  a password reset comes without a token and a forced logout with the
  administrator's, so the account's entries stay until their time is over
  (`unevicted`).
- `services/socketService.js:13` (wired in `monolith/server.js:46`), and the middleware
  for tokens that name no session (`authMiddleware.js:57`), look at the account's status and
  `tokenVersion` only: after a logout or the revocation of one session its token
  still joins the rooms of users, hosts and administrators (`SocketsEnd` says what
  ends there).
- While the seed key is being rotated, an instance that is not promoted yet
  rejects seeds of the new key; `rotateTotpKeys.js` can overwrite a newer seed
  with the old one under the new key.
- `monolith/controllers/authController.js`: `verify2faLogin` ignores the pending
  token's version, recovery codes and reset codes are looked at long before they are
  used up and may take effect twice, a login that rehashes the password (`:246`) may write the
  old one over a reset, two version increments at once
  count as one, `changePassword` does not revoke the rows of sessions;
  `toggleUserStatus` makes inactive users active.

*Sales and pages*

- `recurringService.js`: an occurrence left in `processing` is never taken up
  again; a plan cut short is never completed; `cancelSeries` misses bookings
  that are not in its list yet, and a resume's last save can revive the series;
  two resumes at once can end as active although dates are missing.
- Without a replica set a redemption whose second or third write fails leaves the counters
  (`couponService.js:136`): uses are lost, never gained; a posting of
  credits that breaks off leaves a provisional entry (`membershipService.js:125`).
- Two subscriptions at once are both active; a stop between subscription and
  grant leaves no credits (`membershipService.js`).
- The preview of a rule that is not saved yet takes a priority of 0 as it is, its
  creation turns it into 100 (`billingController.js`).
- The wizard reads its state again after the quote, so a booking can differ from the quote
  shown; an emptied coupon field leaves the coupon applied; after a lost answer the
  next click makes a second booking under a new key (`OneBooking` excepts it).
- `hostVerificationService.js:107`: of two decisions on one host the later stands, and
  together they may leave a badge, a state and an account that disagree (`raced`).
- An upload that is answered (`$push`, `hostController.js:378`, `:829`) is lost
  when a reordering or deletion that loaded before it saves its array (`:704`,
  `:731`); a file is destroyed (`:694`) before the save that removes it from the
  gallery (`:708`), which may fail and leave a broken image.
- Of more than 200 reports of a review the oldest are dropped, and may be made again
  (`catalogController.js:79`).
- An edit of content replaces what its editor saw only when it is sent with
  If-Match; that it is announced means a row in the outbox, which is given up after five
  tries.
- A picture is destroyed before the save that may fail (`hostController.js`);
  an invitation accepted after its revocation revives the membership.
- `content/controllers/redirectController.js:197`: two redirects created at once
  can close a cycle; deletions tell no other service; the backfill overwrites newer edits
  without an event; an edit whose Idempotency-Key was used on another route is
  answered as done and changes nothing.

## 8. How to run

```
tlc -config Booking.cfg MCBookingScenes
tlc -config BookingLive.cfg MCBookingScenes
tlc -config Settle.cfg MCMoneyScenes
tlc -config SettleLive.cfg MCProvider
tlc -config Refunds.cfg MCRefunds
tlc -config Workers.cfg MCWorkers
tlc -config Messaging.cfg MCMessaging
tlc -config Identity.cfg MCIdentity
tlc -config Offers.cfg MCOffers
tlc -config Site.cfg MCSite
tlapm BookingProofs.tla    # and the other modules of section 5
```

`AccountsChange.cfg` (`MCIdentity`) and `QuoteCharge.cfg` (`MCOffers`) end with a
violation.  `PROJECT.json` lists the module of every configuration, the lines
of every definition, the mutants that break each property, and the theorems.
