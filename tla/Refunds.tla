------------------------------- MODULE Refunds -------------------------------
(***************************************************************************)
(* How the money of one booking goes back: requests and their processing   *)
(* (refundService), the provider's refunds (providerRefundService) and the *)
(* disputes that order a refund (disputeService).  Credits and debits are  *)
(* those of HostLedger; payouts read nothing of a refund and stay there.   *)
(*                                                                         *)
(* Approvals write the payments they take from, so two of them conflict    *)
(* and each is one step, as is a settlement.  submitProviderRefunds talks  *)
(* to the provider between its reads and its writes, and may run several   *)
(* times at once: from the outbox and from an administrator's request.     *)
(***************************************************************************)
EXTENDS HostLedger

CONSTANTS
  Collects,     \* the amount of each payment
  Methods,      \* the methods a payment may be made with
  Disputes,
  Submitters,   \* concurrent submitProviderRefunds calls
  Nothing

ASSUME RefundConstants ==
  /\ Collects \in [Payments -> Amounts]
  /\ Methods \in [Payments -> SUBSET {"transfer", "stripe", "momo"}]
  /\ Nothing \notin Refunds \cup Payments

VARIABLES
  paidAt,      \* PaymentHistory: the order of PaidAt, 0 before the payment
  method,      \* the method of each payment
  refund,      \* Refund documents
  alloc,       \* RefundAllocation, whose sums are also in RefundedAmount
  op,          \* ProviderRefundOperation documents
  provider,    \* external: what the provider did under the key of op
  submit,      \* submitProviderRefunds calls
  rejecting,   \* processRefund calls that reject what they have loaded
  confirming,  \* confirmManualRefund calls
  evidence,    \* history: refunds somebody transferred by hand
  dispute      \* Dispute documents

paid == <<paidAt, method>>
refundVars == <<paid, refund, alloc, op, provider, submit, rejecting,
                confirming, evidence, dispute>>
allVars == <<refundVars, ledgerVars>>

IdleSubmit == [pc |-> "idle", refund |-> Nothing, payment |-> Nothing, todo |-> {},
               results |-> {}]

RefundsInit ==
  /\ LedgerInit
  /\ paidAt = [p \in Payments |-> 0]
  /\ method = [p \in Payments |-> "none"]
  /\ refund = [r \in Refunds |-> [status |-> "none", amount |-> 0]]
  /\ alloc = [r \in Refunds |-> [p \in Payments |-> 0]]
  /\ op = [r \in Refunds |-> [p \in Payments |-> "none"]]
  /\ provider = [r \in Refunds |-> [p \in Payments |-> "none"]]
  /\ submit = [w \in Submitters |-> IdleSubmit]
  /\ rejecting = {} /\ evidence = {}
  /\ confirming = [r \in Refunds |-> "idle"]
  /\ dispute = [d \in Disputes |-> [status |-> "none", refund |-> Nothing]]

(***************************************************************************)
(* netPaid                                                                 *)
(***************************************************************************)
RefundedAmount(p) == SumFunction([r \in Refunds |-> alloc[r][p]])
NetOf(p) == IF paidAt[p] = 0 THEN 0 ELSE Collects[p] - RefundedAmount(p)
Net(ps) == SumFunction([p \in ps |-> NetOf(p)])

(* A payment is settled, by Settlement.tla. *)
Collect(p, m) ==
  /\ paidAt[p] = 0
  /\ method' = [method EXCEPT ![p] = m]
  /\ paidAt' = [paidAt EXCEPT ![p] =
                  1 + Cardinality({q \in Payments : paidAt[q] > 0})]
  /\ Credit(p, Collects[p])
  /\ UNCHANGED <<refund, alloc, op, provider, submit, rejecting, confirming,
                 evidence, dispute>>

(***************************************************************************)
(* requestRefund: the limit is checked, then the document is created.      *)
(***************************************************************************)
Waiting ==
  SumFunction([r \in Refunds |-> IF refund[r].status = "requested"
                                   THEN refund[r].amount ELSE 0])

RequestCheck(r, a) ==
  /\ refund[r].status = "none" /\ a <= Net(Payments) - Waiting
  /\ refund' = [refund EXCEPT ![r] = [status |-> "checked", amount |-> a]]
  /\ UNCHANGED <<paid, alloc, op, provider, submit, rejecting, confirming,
                 evidence, dispute, ledgerVars>>

RequestCreate(r) ==
  /\ refund[r].status = "checked"
  /\ refund' = [refund EXCEPT ![r].status = "requested"]
  /\ UNCHANGED <<paid, alloc, op, provider, submit, rejecting, confirming,
                 evidence, dispute, ledgerVars>>

(***************************************************************************)
(* processRefund: what it rejects is saved as it was loaded; an approval   *)
(* is a transaction that claims the refund if it is still requested.       *)
(***************************************************************************)
RejectLoad(r) ==
  /\ refund[r].status = "requested" /\ r \notin rejecting
  /\ rejecting' = rejecting \cup {r}
  /\ UNCHANGED <<paid, refund, alloc, op, provider, submit, confirming,
                 evidence, dispute, ledgerVars>>

RejectSave(r) ==
  /\ r \in rejecting
  /\ refund' = [refund EXCEPT ![r].status = "rejected"]
  /\ rejecting' = rejecting \ {r}
  /\ UNCHANGED <<paid, alloc, op, provider, submit, confirming, evidence,
                 dispute, ledgerVars>>

Older(p) == {q \in Payments : 0 < paidAt[q] /\ paidAt[q] < paidAt[p]}

(* What allocateRefundToPayments takes from p: the oldest payments first,  *)
(* and only those that succeeded.                                          *)
Share(p, a) ==
  IF paidAt[p] = 0 THEN 0 ELSE Lesser(NetOf(p), AboveZero(a - Net(Older(p))))

(* Mutant of Allocate: whatever is there is taken. *)
AllocateRest(r, a) ==
  alloc' = [alloc EXCEPT ![r] = [p \in Payments |-> Share(p, a)]]

(* Without enough money the transaction fails and is rolled back. *)
Allocate(r, a) ==
  /\ a <= Net(Payments)
  /\ alloc' = [alloc EXCEPT ![r] = [p \in Payments |-> Share(p, a)]]

ByGateway == {p \in Payments : method[p] \in {"stripe", "momo"}}
UsesGateway == \E p \in ByGateway : NetOf(p) > 0
GatewayParts(r) == {p \in ByGateway : alloc[r][p] > 0}

(* Who approves gives the reference of a transfer, or not; with a gateway  *)
(* payment on the booking it is ignored.                                   *)
Approve(r) ==
  LET a == refund[r].amount IN
  /\ refund[r].status = "requested"
  /\ Allocate(r, a)
  /\ \/ /\ refund' = [refund EXCEPT ![r].status =
                        IF UsesGateway THEN "provider_pending"
                        ELSE "manual_refund_required"]
        /\ UNCHANGED <<evidence, ledgerVars>>
     \/ /\ ~UsesGateway
        /\ refund' = [refund EXCEPT ![r].status = "completed"]
        /\ evidence' = evidence \cup {r}
        /\ Debit(r, a)
  /\ UNCHANGED <<paid, op, provider, submit, rejecting, confirming, dispute>>

(***************************************************************************)
(* Disputes.  An administrator resolves one, with a refund that is created *)
(* and approved in the same transaction.                                   *)
(***************************************************************************)
DisputeOpen(d) ==
  /\ dispute[d].status = "none"
  /\ \A x \in Disputes : dispute[x].status # "open"
  /\ dispute' = [dispute EXCEPT ![d].status = "open"]
  /\ UNCHANGED <<paid, refund, alloc, op, provider, submit, rejecting,
                 confirming, evidence, ledgerVars>>

DisputeClose(d) ==
  /\ dispute[d].status = "open"
  /\ \E s \in {"rejected", "resolved"} :
       dispute' = [dispute EXCEPT ![d].status = s]
  /\ UNCHANGED <<paid, refund, alloc, op, provider, submit, rejecting,
                 confirming, evidence, ledgerVars>>

DisputeRefund(d, r, a) ==
  /\ dispute[d].status = "open" /\ refund[r].status = "none"
  /\ a <= Net(Payments) - Waiting
  /\ Allocate(r, a)
  /\ refund' = [refund EXCEPT ![r] =
       [status |-> IF UsesGateway THEN "provider_pending"
                   ELSE "manual_refund_required", amount |-> a]]
  /\ dispute' = [dispute EXCEPT ![d] =
       [status |-> "refund_pending", refund |-> r]]
  /\ UNCHANGED <<paid, op, provider, submit, rejecting, confirming, evidence,
                 ledgerVars>>

(* Every dispute of the booking follows, whatever its own refund does. *)
DisputesBecome(s) ==
  dispute' = [d \in Disputes |->
    IF dispute[d].status = "refund_pending"
      THEN [dispute[d] EXCEPT !.status = s] ELSE dispute[d]]

(***************************************************************************)
(* settleInternalRefund: one transaction.                                  *)
(***************************************************************************)
CanSettle(r) ==
  refund[r].status \in {"provider_submitted", "provider_pending",
                        "manual_action_required", "manual_refund_required"}

(* Mutants of Settle: a second posting under the same key; the disputes    *)
(* are forgotten.                                                          *)
SettleTwice(r) ==
  /\ refund' = [refund EXCEPT ![r].status = "completed"]
  /\ DisputesBecome("resolved")
  /\ Entered("refund", refund[r].amount)
  /\ posted' = posted \cup {DebitKey(r)}
  /\ UNCHANGED <<balance, payout, script>>
SettleRefundOnly(r) ==
  /\ refund' = [refund EXCEPT ![r].status = "completed"]
  /\ UNCHANGED dispute
  /\ IF DebitKey(r) \in posted THEN UNCHANGED ledgerVars
     ELSE Debit(r, refund[r].amount)

Settle(r) ==
  /\ refund' = [refund EXCEPT ![r].status = "completed"]
  /\ DisputesBecome("resolved")
  /\ IF DebitKey(r) \in posted THEN UNCHANGED ledgerVars
     ELSE Debit(r, refund[r].amount)

(***************************************************************************)
(* submitProviderRefunds                                                   *)
(***************************************************************************)
untouched == <<paid, alloc, rejecting, confirming, evidence>>

SubmitLoad(w, r) ==
  /\ submit[w].pc = "idle"
  /\ refund[r].status \in {"provider_pending", "provider_submitted"}
  /\ submit' = [submit EXCEPT ![w] =
       [IdleSubmit EXCEPT !.pc = "next", !.refund = r,
                          !.todo = GatewayParts(r)]]
  /\ UNCHANGED <<refund, op, provider, dispute, untouched, ledgerVars>>

Answered(w, p, s) ==
  [submit[w] EXCEPT !.pc = "next", !.payment = Nothing, !.todo = @ \ {p},
                    !.results = @ \cup {s}]

(* Find the operation, or create it; one that has succeeded stays.         *)
OpLoad(w, p) ==
  LET r == submit[w].refund
      found == op[r][p]
  IN
  /\ submit[w].pc = "next" /\ p \in submit[w].todo
  /\ \/ /\ found = "succeeded"
        /\ submit' = [submit EXCEPT ![w] = Answered(w, p, "succeeded")]
        /\ UNCHANGED op
     \/ /\ found # "succeeded" /\ method[p] = "momo"
        /\ submit' = [submit EXCEPT ![w] = Answered(w, p, "manual_required")]
        /\ op' = [op EXCEPT ![r][p] = "manual_required"]
     \/ /\ found # "succeeded" /\ method[p] = "stripe"
        /\ submit' = [submit EXCEPT ![w].payment = p,
             ![w].pc = IF found = "submitted" THEN "asked" ELSE "ask"]
        /\ op' = [op EXCEPT ![r][p] = IF found = "none" THEN "pending" ELSE @]
  /\ UNCHANGED <<refund, provider, dispute, untouched, ledgerVars>>

(* The operation is saved as it was loaded, whatever it is by now; only a  *)
(* status that differs from the one that was loaded is written.            *)
OpSave(w) ==
  LET r == submit[w].refund IN
  /\ submit[w].pc = "ask"
  /\ op' = [op EXCEPT ![r][submit[w].payment] = "submitted"]
  /\ submit' = [submit EXCEPT ![w].pc = "asked"]
  /\ UNCHANGED <<refund, provider, dispute, untouched, ledgerVars>>

(* The provider pays a refund at once or later, or does not take it; under *)
(* the key of the operation it repeats what it has done.  Any answer may   *)
(* be lost.                                                                *)
ProviderAnswers(before, after, s) ==
  /\ IF before = "none" THEN after \in {"none", "pending", "succeeded"}
     ELSE after = before
  /\ \/ s = "failed"
     \/ after = "pending" /\ s = "submitted"
     \/ after = "succeeded" /\ s = "succeeded"

OpAnswer(w, after, s) ==
  LET r == submit[w].refund
      p == submit[w].payment
  IN
  /\ submit[w].pc = "asked"
  /\ ProviderAnswers(provider[r][p], after, s)
  /\ provider' = [provider EXCEPT ![r][p] = after]
  /\ op' = IF s = "submitted" THEN op ELSE [op EXCEPT ![r][p] = s]
  /\ submit' = [submit EXCEPT ![w] = Answered(w, p, s)]
  /\ UNCHANGED <<refund, dispute, untouched, ledgerVars>>

(* The refund's status is set whatever it is by now. *)
SubmitMark(w) ==
  /\ submit[w].pc = "next" /\ submit[w].todo = {}
  /\ refund' = [refund EXCEPT
                   ![submit[w].refund].status = "provider_submitted"]
  /\ submit' = [submit EXCEPT ![w].pc = "marked"]
  /\ UNCHANGED <<op, provider, dispute, untouched, ledgerVars>>

(* A refund that cannot settle any more makes the call fail, or return     *)
(* what another call has completed.                                        *)
SubmitSettle(w) ==
  LET r == submit[w].refund IN
  /\ submit[w].pc = "marked" /\ submit[w].results = {"succeeded"}
  /\ CanSettle(r)
  /\ Settle(r)
  /\ submit' = [submit EXCEPT ![w] = IdleSubmit]
  /\ UNCHANGED <<op, provider, untouched>>

SubmitManual(w) ==
  /\ submit[w].pc = "marked" /\ submit[w].results # {"succeeded"}
  /\ refund' = IF "manual_required" \in submit[w].results
                 THEN [refund EXCEPT ![submit[w].refund].status =
                         "manual_action_required"]
                 ELSE refund
  /\ submit' = [submit EXCEPT ![w].pc = "disputes"]
  /\ UNCHANGED <<op, provider, dispute, untouched, ledgerVars>>

SubmitDisputes(w) ==
  /\ submit[w].pc = "disputes"
  /\ IF "failed" \in submit[w].results THEN DisputesBecome("resolution_failed")
     ELSE UNCHANGED dispute
  /\ submit' = [submit EXCEPT ![w] = IdleSubmit]
  /\ UNCHANGED <<refund, op, provider, untouched, ledgerVars>>

(* An error (another call has created the operation, nothing to settle) or *)
(* the end of the process.                                                 *)
SubmitStops(w) ==
  /\ submit[w].pc # "idle"
  /\ submit' = [submit EXCEPT ![w] = IdleSubmit]
  /\ UNCHANGED <<refund, op, provider, dispute, untouched, ledgerVars>>

Submission(w) ==
  \/ \E r \in Refunds : SubmitLoad(w, r)
  \/ \E p \in Payments : OpLoad(w, p)
  \/ OpSave(w)
  \/ \E after \in {"none", "pending", "succeeded"},
        s \in {"failed", "submitted", "succeeded"} : OpAnswer(w, after, s)
  \/ SubmitMark(w) \/ SubmitSettle(w) \/ SubmitManual(w) \/ SubmitDisputes(w)
  \/ SubmitStops(w)

(***************************************************************************)
(* confirmManualRefund: the money was transferred by hand.  The refund is  *)
(* settled, and then its status is set twice, whatever it is by now.       *)
(***************************************************************************)
apart == <<paid, alloc, op, provider, submit, rejecting>>

ConfirmLoad(r) ==
  /\ confirming[r] = "idle"
  /\ refund[r].status \in {"provider_pending", "provider_submitted",
                           "manual_action_required"}
  /\ confirming' = [confirming EXCEPT ![r] = "loaded"]
  /\ evidence' = evidence \cup {r}
  /\ UNCHANGED <<apart, refund, dispute, ledgerVars>>

(* Mutant of ConfirmSettle: goes on when there was nothing to settle. *)
ConfirmAnyway(r) ==
  /\ confirming[r] = "loaded"
  /\ IF CanSettle(r) THEN Settle(r)
     ELSE UNCHANGED <<refund, dispute, ledgerVars>>
  /\ confirming' = [confirming EXCEPT ![r] = "settled"]
  /\ UNCHANGED <<apart, evidence>>

ConfirmSettle(r) ==
  /\ confirming[r] = "loaded"
  /\ \/ CanSettle(r) /\ Settle(r)
     \/ /\ refund[r].status = "completed"
        /\ UNCHANGED <<refund, dispute, ledgerVars>>
  /\ confirming' = [confirming EXCEPT ![r] = "settled"]
  /\ UNCHANGED <<apart, evidence>>

ConfirmMark(r) ==
  /\ confirming[r] = "settled"
  /\ refund' = [refund EXCEPT ![r].status = "manual_refund_confirmed"]
  /\ confirming' = [confirming EXCEPT ![r] = "marked"]
  /\ UNCHANGED <<apart, evidence, dispute, ledgerVars>>

ConfirmDone(r) ==
  /\ confirming[r] = "marked"
  /\ refund' = [refund EXCEPT ![r].status = "completed"]
  /\ confirming' = [confirming EXCEPT ![r] = "idle"]
  /\ UNCHANGED <<apart, evidence, dispute, ledgerVars>>

ConfirmStops(r) ==
  /\ confirming[r] # "idle"
  /\ confirming' = [confirming EXCEPT ![r] = "idle"]
  /\ UNCHANGED <<apart, evidence, refund, dispute, ledgerVars>>

RefundRuns(r) ==
  \/ \E a \in Amounts : RequestCheck(r, a)
  \/ RequestCreate(r) \/ RejectLoad(r) \/ RejectSave(r) \/ Approve(r)
  \/ ConfirmLoad(r) \/ ConfirmSettle(r) \/ ConfirmMark(r) \/ ConfirmDone(r)
  \/ ConfirmStops(r)

DisputeRuns(d) ==
  \/ DisputeOpen(d) \/ DisputeClose(d)
  \/ \E r \in Refunds, a \in Amounts : DisputeRefund(d, r, a)

RefundsNext ==
  \/ \E p \in Payments : \E m \in Methods[p] : Collect(p, m)
  \/ \E r \in Refunds : RefundRuns(r)
  \/ \E w \in Submitters : Submission(w)
  \/ \E d \in Disputes : DisputeRuns(d)

RefundsSpec == RefundsInit /\ [][RefundsNext]_allVars
-----------------------------------------------------------------------------
RefundRecords ==
  [status : {"none", "checked", "requested", "rejected", "provider_pending",
             "provider_submitted", "manual_action_required",
             "manual_refund_required", "manual_refund_confirmed", "completed"},
   amount : Nat]
OpStatuses == {"none", "pending", "submitted", "succeeded", "failed",
               "manual_required"}
SubmitRecords ==
  [pc : {"idle", "next", "ask", "asked", "marked", "disputes"},
   refund : Refunds \cup {Nothing}, payment : Payments \cup {Nothing},
   todo : SUBSET Payments, results : SUBSET OpStatuses]

(* The statuses from which money is on its way, or has gone.               *)
Allocated == {"provider_pending", "provider_submitted",
              "manual_action_required", "manual_refund_required",
              "manual_refund_confirmed", "completed"}

(* Concurrent refunds cannot over-refund: no payment gives more than it    *)
(* brought, and a refund past its approval has taken exactly its amount    *)
(* from the payments, however many were requested for the same money.      *)
NotOverRefunded ==
  /\ \A p \in Payments : RefundedAmount(p) <= (IF paidAt[p] = 0 THEN 0
                                               ELSE Collects[p])
  /\ \A r \in Refunds : refund[r].status \in Allocated =>
       SumFunction(alloc[r]) = refund[r].amount

(* Every completed refund has exactly one ledger debit: whichever of the   *)
(* submissions and confirmations completes it, and whatever status a late  *)
(* one writes over it afterwards.                                          *)
CompletedDebited ==
  \A r \in Refunds :
    refund[r].status \in {"completed", "manual_refund_confirmed"} =>
      DebitKey(r) \in posted

(* The ledger's debits are the amounts of the refunds it names. *)
DebitsMatch ==
  total["refund"] =
    SumFunction([r \in Refunds |-> IF DebitKey(r) \in posted
                                     THEN refund[r].amount ELSE 0])

(* Together: payments, refunds and debits agree in their amounts.          *)
AmountsAgree == NotOverRefunded /\ DebitsMatch

(* A failed or merely accepted provider refund completes nothing: the host *)
(* is debited only after the provider has paid every gateway part, of      *)
(* which there is one at least, or somebody has confirmed a transfer.  The *)
(* part of a mixed refund that is not a gateway's is not asked about: the  *)
(* code debits it with the gateway parts, and somebody still has to pay it.*)
DebitEarned ==
  \A r \in Refunds : DebitKey(r) \in posted =>
    \/ r \in evidence
    \/ /\ GatewayParts(r) # {}
       /\ \A p \in GatewayParts(r) : provider[r][p] = "succeeded"

(* A debit stands for every completed refund, and for none whose gateway   *)
(* parts the customer did not get unless a transfer was confirmed.         *)
DebitsSound == CompletedDebited /\ DebitEarned

(* A dispute does not wait for a refund that is completed. *)
DisputeNotForgotten ==
  \A d \in Disputes : dispute[d].status = "refund_pending" =>
    DebitKey(dispute[d].refund) \notin posted

(* All of this is a behaviour of the host's ledger. *)
LedgerBehaves == LedgerSpec
=============================================================================
