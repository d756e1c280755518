----------------------------- MODULE MoneyProofs -----------------------------
(***************************************************************************)
(* Theorems about Refunds.tla and Settlement.tla, for any number of        *)
(* payments, sessions, events, workers, refunds and disputes, and any      *)
(* number of submissions of the same refund at once.                       *)
(***************************************************************************)
EXTENDS MCMoneyScenes, Refunds, HostLedgerProofs

(***************************************************************************)
(* Refunds and disputes.  Each debit has its reason and each completed     *)
(* refund its debit; refunds, payments and debits agree in their amounts;  *)
(* and all of it is a behaviour of the host's ledger.                      *)
(***************************************************************************)

(* A refund nobody has approved. *)
Fresh(r) == refund[r].status \in {"none", "checked", "requested"}

(* Every gateway part of r has been paid by the provider. *)
PaidBack(r) ==
  /\ GatewayParts(r) # {}
  /\ \A p \in GatewayParts(r) : provider[r][p] = "succeeded"

RecordsSound ==
  /\ paidAt = [p \in Payments |-> paidAt[p]]
  /\ method \in [Payments -> {"none", "transfer", "stripe", "momo"}]
  /\ refund \in [Refunds -> RefundRecords]
  /\ alloc = [r \in Refunds |-> alloc[r]]
  /\ op \in [Refunds -> [Payments -> OpStatuses]]
  /\ provider \in [Refunds -> [Payments -> {"none", "pending", "succeeded"}]]
  /\ submit \in [Submitters -> SubmitRecords]
  /\ confirming \in [Refunds -> {"idle", "loaded", "settled", "marked"}]

(* Money is taken from payments that were made, for approved refunds.      *)
TakenFromPaid ==
  \A r \in Refunds, p \in Payments : alloc[r][p] > 0 => paidAt[p] # 0
DebitApproved == \A r \in Refunds : DebitKey(r) \in posted => ~Fresh(r)

(* An operation succeeds when the provider has paid. *)
OpTrue ==
  \A r \in Refunds, p \in Payments :
    op[r][p] = "succeeded" => provider[r][p] = "succeeded"

(* A submission works on an approved refund.  Each gateway part is still   *)
(* to be done, was paid, or has left a result that is not a success.       *)
SubmissionSound(w) ==
  submit[w].pc # "idle" =>
    /\ submit[w].refund \in Refunds /\ ~Fresh(submit[w].refund)
    /\ submit[w].todo \subseteq GatewayParts(submit[w].refund)
    /\ submit[w].pc \in {"ask", "asked"} => submit[w].payment \in GatewayParts(submit[w].refund)
    /\ submit[w].pc = "marked" => submit[w].todo = {}
    /\ submit[w].results # {} => GatewayParts(submit[w].refund) # {}
    /\ \A p \in GatewayParts(submit[w].refund) :
         \/ p \in submit[w].todo
         \/ provider[submit[w].refund][p] = "succeeded"
         \/ \E x \in submit[w].results : x # "succeeded"
SubmitTrue == \A w \in Submitters : SubmissionSound(w)

(* A confirmation has evidence, and later the debit. *)
ConfirmTrue ==
  \A r \in Refunds :
    /\ confirming[r] # "idle" => r \in evidence
    /\ confirming[r] \in {"settled", "marked"} => DebitKey(r) \in posted

RefundsInv ==
  /\ RecordsSound /\ TakenFromPaid /\ DebitApproved /\ OpTrue
  /\ SubmitTrue /\ ConfirmTrue
  /\ CompletedDebited /\ DebitEarned

LEMMA KeysApart ==
  /\ \A r, q \in Refunds : DebitKey(r) = DebitKey(q) => r = q
  /\ \A r \in Refunds, p \in Payments : DebitKey(r) # CreditKey(p)
<1> QED BY DEF DebitKey, CreditKey

LEMMA RefundsInvInit == RefundsInit => RefundsInv
<1> SUFFICES ASSUME RefundsInit PROVE RefundsInv
  OBVIOUS
<1>1. RecordsSound
  BY DEF RefundsInit, RecordsSound, RefundRecords, OpStatuses, SubmitRecords,
         IdleSubmit
<1>2. TakenFromPaid /\ OpTrue
  BY DEF RefundsInit, TakenFromPaid, OpTrue
<1>3. DebitApproved /\ CompletedDebited /\ DebitEarned /\ ConfirmTrue
  BY DEF RefundsInit, LedgerInit, DebitApproved, CompletedDebited,
         DebitEarned, ConfirmTrue
<1>4. SubmitTrue
  BY DEF RefundsInit, SubmitTrue, SubmissionSound, IdleSubmit
<1> QED BY <1>1, <1>2, <1>3, <1>4 DEF RefundsInv
-----------------------------------------------------------------------------
(* The steps of a settlement: the refund is completed and debited.         *)
LEMMA SettleFacts ==
  ASSUME NEW r \in Refunds, Settle(r)
  PROVE  /\ refund' = [refund EXCEPT ![r].status = "completed"]
         /\ posted' = posted \cup {DebitKey(r)}
<1> QED BY DEF Settle, Debit, ledgerVars

(* Changing the status of a refund, or the place a submission has reached. *)
LEMMA StatusFacts ==
  ASSUME NEW x \in RefundRecords,
         NEW s \in {"none", "checked", "requested", "rejected",
                    "provider_pending", "provider_submitted",
                    "manual_action_required", "manual_refund_required",
                    "manual_refund_confirmed", "completed"}
  PROVE  [x EXCEPT !.status = s] \in RefundRecords
<1> QED BY DEF RefundRecords

LEMMA PlaceFacts ==
  ASSUME NEW x \in SubmitRecords,
         NEW c \in {"idle", "next", "ask", "asked", "marked", "disputes"}
  PROVE  /\ [x EXCEPT !.pc = c] \in SubmitRecords
         /\ \A p \in Payments :
              [x EXCEPT !.payment = p, !.pc = c] \in SubmitRecords
<1> QED BY DEF SubmitRecords

LEMMA AnsweredFacts ==
  ASSUME NEW w \in Submitters, submit[w] \in SubmitRecords,
         NEW p \in Payments, NEW s \in OpStatuses
  PROVE  Answered(w, p, s) \in SubmitRecords
<1> QED BY DEF Answered, SubmitRecords

(* The documents keep their types, whoever takes the step. *)
LEMMA RecordsStep ==
  ASSUME RefundsInv, RefundsNext
  PROVE  RecordsSound'
<1> USE DEF RefundsInv, RecordsSound
<1>1. ASSUME NEW p \in Payments, NEW m \in Methods[p], Collect(p, m)
      PROVE  RecordsSound'
  <2>1. m \in {"none", "transfer", "stripe", "momo"}
    BY RefundConstants
  <2> QED BY <1>1, <2>1 DEF Collect
<1>2. ASSUME NEW r \in Refunds, RefundRuns(r) PROVE RecordsSound'
  <2>1. ASSUME NEW a \in Amounts, RequestCheck(r, a) PROVE RecordsSound'
    <3>1. a \in Nat
      BY LedgerConstants
    <3> QED BY <2>1, <3>1 DEF RequestCheck, paid, RefundRecords
  <2>2. CASE RequestCreate(r)
    BY <2>2, StatusFacts DEF RequestCreate, paid
  <2>3. CASE RejectLoad(r)
    BY <2>3 DEF RejectLoad, paid
  <2>4. CASE RejectSave(r)
    BY <2>4, StatusFacts DEF RejectSave, paid
  <2>5. CASE Approve(r)
    <3>1. alloc' = [q \in Refunds |-> alloc'[q]]
      BY <2>5 DEF Approve, Allocate
    <3>2. refund' \in [Refunds -> RefundRecords]
      <4>1. PICK s \in {"provider_pending", "manual_refund_required", "completed"} :
              refund' = [refund EXCEPT ![r].status = s]
        BY <2>5 DEF Approve
      <4>2. [refund[r] EXCEPT !.status = s] \in RefundRecords
        BY StatusFacts
      <4> QED BY <4>1, <4>2
    <3> QED BY <2>5, <3>1, <3>2 DEF Approve, paid
  <2>6. CASE ConfirmLoad(r)
    BY <2>6 DEF ConfirmLoad, apart, paid
  <2>7. CASE ConfirmSettle(r)
    <3>1. refund' = refund \/ refund' = [refund EXCEPT ![r].status = "completed"]
      BY <2>7, SettleFacts DEF ConfirmSettle
    <3>2. refund' \in [Refunds -> RefundRecords]
      <4>1. [refund[r] EXCEPT !.status = "completed"] \in RefundRecords
        BY StatusFacts
      <4> QED BY <3>1, <4>1
    <3> QED BY <2>7, <3>2 DEF ConfirmSettle, apart, paid
  <2>8. CASE ConfirmMark(r)
    BY <2>8, StatusFacts DEF ConfirmMark, apart, paid
  <2>9. CASE ConfirmDone(r)
    BY <2>9, StatusFacts DEF ConfirmDone, apart, paid
  <2>10. CASE ConfirmStops(r)
    BY <2>10 DEF ConfirmStops, apart, paid
  <2> QED BY <1>2, <2>1, <2>2, <2>3, <2>4, <2>5, <2>6, <2>7, <2>8, <2>9, <2>10
          DEF RefundRuns
<1>3. ASSUME NEW w \in Submitters, Submission(w) PROVE RecordsSound'
  <2> USE DEF untouched, paid
  <2>0. submit[w].pc # "idle" => submit[w].refund \in Refunds
    BY DEF SubmitTrue, SubmissionSound
  <2>1. ASSUME NEW r \in Refunds, SubmitLoad(w, r) PROVE RecordsSound'
    <3>1. submit' \in [Submitters -> SubmitRecords]
      BY <2>1 DEF SubmitLoad, GatewayParts, ByGateway, SubmitRecords, IdleSubmit
    <3> QED BY <2>1, <3>1 DEF SubmitLoad
  <2>2. ASSUME NEW p \in Payments, OpLoad(w, p) PROVE RecordsSound'
    <3>1. submit' \in [Submitters -> SubmitRecords]
      <4>1. PICK x \in SubmitRecords : submit' = [submit EXCEPT ![w] = x]
        <5> DEFINE next(c) == [submit[w] EXCEPT !.payment = p, !.pc = c]
        <5>1. next("ask") \in SubmitRecords /\ next("asked") \in SubmitRecords
          BY PlaceFacts
        <5>2. /\ Answered(w, p, "succeeded") \in SubmitRecords
              /\ Answered(w, p, "manual_required") \in SubmitRecords
          BY AnsweredFacts DEF OpStatuses
        <5> QED BY <2>2, <5>1, <5>2 DEF OpLoad
      <4> QED BY <4>1
    <3>2. op' \in [Refunds -> [Payments -> OpStatuses]]
      <4> DEFINE r == submit[w].refund
      <4>1. r \in Refunds
        BY <2>0, <2>2 DEF OpLoad
      <4>2. op[r] \in [Payments -> OpStatuses]
        BY <4>1
      <4>3. op[r][p] \in OpStatuses
        BY <4>2
      <4>4. PICK s \in OpStatuses :
              op' = op \/ op' = [op EXCEPT ![r] = [op[r] EXCEPT ![p] = s]]
        BY <2>2, <4>3 DEF OpLoad, OpStatuses
      <4>5. [op[r] EXCEPT ![p] = s] \in [Payments -> OpStatuses]
        BY <4>2
      <4> HIDE DEF r
      <4> QED BY <4>1, <4>4, <4>5
    <3> QED BY <2>2, <3>1, <3>2 DEF OpLoad
  <2>3. CASE OpSave(w)
    <3>1. submit' \in [Submitters -> SubmitRecords]
      BY <2>3, PlaceFacts DEF OpSave
    <3>2. op' \in [Refunds -> [Payments -> OpStatuses]]
      BY <2>0, <2>3 DEF OpSave, OpStatuses
    <3> QED BY <2>3, <3>1, <3>2 DEF OpSave
  <2>4. ASSUME NEW after \in {"none", "pending", "succeeded"},
               NEW s \in {"failed", "submitted", "succeeded"},
               OpAnswer(w, after, s)
        PROVE  RecordsSound'
    <3>1. submit' \in [Submitters -> SubmitRecords]
      <4>1. submit[w].payment \in Payments
        BY <2>4 DEF OpAnswer, SubmitTrue, SubmissionSound, GatewayParts, ByGateway
      <4> QED BY <2>0, <2>4, <4>1, AnsweredFacts DEF OpAnswer, OpStatuses
    <3>2. op' \in [Refunds -> [Payments -> OpStatuses]]
      BY <2>0, <2>4 DEF OpAnswer, OpStatuses
    <3>3. provider' \in [Refunds -> [Payments -> {"none", "pending", "succeeded"}]]
      BY <2>0, <2>4 DEF OpAnswer
    <3> QED BY <2>4, <3>1, <3>2, <3>3 DEF OpAnswer
  <2>5. CASE SubmitMark(w)
    <3>1. submit' \in [Submitters -> SubmitRecords]
      BY <2>5, PlaceFacts DEF SubmitMark
    <3> QED BY <2>0, <2>5, <3>1, StatusFacts DEF SubmitMark
  <2>6. CASE SubmitSettle(w)
    <3>1. submit' \in [Submitters -> SubmitRecords]
      BY <2>6 DEF SubmitSettle, IdleSubmit, SubmitRecords
    <3>2. refund' = [refund EXCEPT ![submit[w].refund].status = "completed"]
      BY <2>0, <2>6, SettleFacts DEF SubmitSettle
    <3> QED BY <2>0, <2>6, <3>1, <3>2, StatusFacts DEF SubmitSettle
  <2>7. CASE SubmitManual(w)
    <3>1. submit' \in [Submitters -> SubmitRecords]
      BY <2>7, PlaceFacts DEF SubmitManual
    <3> QED BY <2>0, <2>7, <3>1, StatusFacts DEF SubmitManual
  <2>8. CASE SubmitDisputes(w)
    <3>1. submit' \in [Submitters -> SubmitRecords]
      BY <2>8 DEF SubmitDisputes, IdleSubmit, SubmitRecords
    <3> QED BY <2>8, <3>1 DEF SubmitDisputes
  <2>9. CASE SubmitStops(w)
    <3>1. submit' \in [Submitters -> SubmitRecords]
      BY <2>9 DEF SubmitStops, IdleSubmit, SubmitRecords
    <3> QED BY <2>9, <3>1 DEF SubmitStops
  <2> QED BY <1>3, <2>1, <2>2, <2>3, <2>4, <2>5, <2>6, <2>7, <2>8, <2>9
          DEF Submission
<1>4. ASSUME NEW d \in Disputes, DisputeRuns(d) PROVE RecordsSound'
  <2>1. CASE DisputeOpen(d) \/ DisputeClose(d)
    BY <2>1 DEF DisputeOpen, DisputeClose, paid
  <2>2. ASSUME NEW r \in Refunds, NEW a \in Amounts, DisputeRefund(d, r, a)
        PROVE  RecordsSound'
    <3>1. a \in Nat
      BY LedgerConstants
    <3> QED BY <2>2, <3>1 DEF DisputeRefund, Allocate, paid, RefundRecords
  <2> QED BY <1>4, <2>1, <2>2 DEF DisputeRuns
<1> QED BY <1>1, <1>2, <1>3, <1>4 DEF RefundsNext
-----------------------------------------------------------------------------
(* What a step never takes back from a refund, and what it needs in order  *)
(* to debit or complete one.                                               *)
Done == {"completed", "manual_refund_confirmed"}
Onward(q) ==
  /\ ~Fresh(q) => ~Fresh(q)' /\ alloc'[q] = alloc[q]
  /\ DebitKey(q) \in posted => DebitKey(q) \in posted'
  /\ q \in evidence => q \in evidence'
  /\ DebitKey(q) \in posted' =>
       \/ DebitKey(q) \in posted
       \/ /\ refund'[q].status = "completed"
          /\ \/ q \in evidence'
             \/ PaidBack(q) /\ UNCHANGED <<method, alloc, provider>>
  /\ refund'[q].status \in Done =>
       refund[q].status \in Done \/ DebitKey(q) \in posted'

LEMMA OnwardStep ==
  ASSUME RefundsInv, RefundsNext
  PROVE  \A q \in Refunds : Onward(q)
<1> SUFFICES ASSUME NEW q \in Refunds PROVE Onward(q)
  OBVIOUS
<1> USE DEF Onward, Fresh, Done
<1>0. /\ refund \in [Refunds -> RefundRecords]
      /\ alloc = [r \in Refunds |-> alloc[r]]
  BY DEF RefundsInv, RecordsSound
<1>1. ASSUME NEW p \in Payments, NEW m \in Methods[p], Collect(p, m)
      PROVE  Onward(q)
  <2>1. DebitKey(q) \in posted' <=> DebitKey(q) \in posted
    BY <1>1, KeysApart DEF Collect, Credit
  <2> QED BY <1>1, <2>1 DEF Collect
<1>2. ASSUME NEW r \in Refunds, RefundRuns(r) PROVE Onward(q)
  <2> USE <1>0 DEF ledgerVars, apart, paid
  <2>1. ASSUME NEW a \in Amounts, RequestCheck(r, a) PROVE Onward(q)
    BY <2>1 DEF RequestCheck
  <2>2. CASE RequestCreate(r)
    BY <2>2 DEF RequestCreate, RefundRecords
  <2>3. CASE RejectLoad(r)
    BY <2>3 DEF RejectLoad
  <2>4. CASE RejectSave(r)
    BY <2>4 DEF RejectSave, RefundRecords
  <2>5. CASE Approve(r)
    <3>1. PICK s \in {"provider_pending", "manual_refund_required", "completed"} :
            /\ refund' = [refund EXCEPT ![r].status = s]
            /\ \/ s # "completed" /\ UNCHANGED <<evidence, posted>>
               \/ /\ s = "completed" /\ evidence' = evidence \cup {r}
                  /\ posted' = posted \cup {DebitKey(r)}
      BY <2>5 DEF Approve, Debit
    <3>2. Fresh(r) /\ (q # r => alloc'[q] = alloc[q])
      BY <2>5 DEF Approve, Allocate
    <3>3. CASE q = r
      <4>1. refund'[r].status = s
        BY <3>1 DEF RefundRecords
      <4> QED BY <3>1, <3>2, <3>3, <4>1
    <3>4. CASE q # r
      BY <3>1, <3>2, <3>4, KeysApart
    <3> QED BY <3>3, <3>4
  <2>6. CASE ConfirmLoad(r)
    BY <2>6 DEF ConfirmLoad
  <2>7. CASE ConfirmSettle(r)
    <3>1. r \in evidence
      BY <2>7 DEF ConfirmSettle, RefundsInv, ConfirmTrue
    <3>2. CASE CanSettle(r) /\ Settle(r)
      BY <2>7, <3>1, <3>2, SettleFacts, KeysApart DEF ConfirmSettle, RefundRecords
    <3>3. CASE UNCHANGED <<refund, dispute, ledgerVars>>
      BY <2>7, <3>3 DEF ConfirmSettle
    <3> QED BY <2>7, <3>2, <3>3 DEF ConfirmSettle
  <2>8. CASE ConfirmMark(r)
    BY <2>8 DEF ConfirmMark, RefundsInv, ConfirmTrue, RefundRecords
  <2>9. CASE ConfirmDone(r)
    BY <2>9 DEF ConfirmDone, RefundsInv, ConfirmTrue, RefundRecords
  <2>10. CASE ConfirmStops(r)
    BY <2>10 DEF ConfirmStops
  <2> QED BY <1>2, <2>1, <2>2, <2>3, <2>4, <2>5, <2>6, <2>7, <2>8, <2>9, <2>10
          DEF RefundRuns
<1>3. ASSUME NEW w \in Submitters, Submission(w) PROVE Onward(q)
  <2> USE <1>0 DEF ledgerVars, untouched, paid
  <2>0. submit[w].pc # "idle" => submit[w].refund \in Refunds /\ ~Fresh(submit[w].refund)
    BY DEF SubmitTrue, SubmissionSound, RefundsInv
  <2>1. ASSUME NEW r \in Refunds, SubmitLoad(w, r) PROVE Onward(q)
    BY <2>1 DEF SubmitLoad
  <2>2. ASSUME NEW p \in Payments, OpLoad(w, p) PROVE Onward(q)
    BY <2>2 DEF OpLoad
  <2>3. CASE OpSave(w)
    BY <2>3 DEF OpSave
  <2>4. ASSUME NEW after \in {"none", "pending", "succeeded"},
               NEW s \in {"failed", "submitted", "succeeded"},
               OpAnswer(w, after, s)
        PROVE  Onward(q)
    BY <2>4 DEF OpAnswer
  <2>5. CASE SubmitMark(w)
    BY <2>0, <2>5 DEF SubmitMark, RefundRecords
  <2>6. CASE SubmitSettle(w)
    <3> DEFINE r == submit[w].refund
    <3>1. r \in Refunds
      BY <2>0, <2>6 DEF SubmitSettle
    <3>2. PaidBack(r)
      BY <2>6 DEF SubmitSettle, PaidBack, RefundsInv, SubmitTrue, SubmissionSound
    <3>3. Settle(r) /\ UNCHANGED <<method, alloc, provider, evidence>>
      BY <2>6 DEF SubmitSettle
    <3> HIDE DEF r
    <3> QED BY <3>1, <3>2, <3>3, SettleFacts, KeysApart DEF RefundRecords
  <2>7. CASE SubmitManual(w)
    BY <2>0, <2>7 DEF SubmitManual, RefundRecords
  <2>8. CASE SubmitDisputes(w)
    BY <2>8 DEF SubmitDisputes
  <2>9. CASE SubmitStops(w)
    BY <2>9 DEF SubmitStops
  <2> QED BY <1>3, <2>1, <2>2, <2>3, <2>4, <2>5, <2>6, <2>7, <2>8, <2>9
          DEF Submission
<1>4. ASSUME NEW d \in Disputes, DisputeRuns(d) PROVE Onward(q)
  <2> USE <1>0 DEF ledgerVars, paid
  <2>1. CASE DisputeOpen(d) \/ DisputeClose(d)
    BY <2>1 DEF DisputeOpen, DisputeClose
  <2>2. ASSUME NEW r \in Refunds, NEW a \in Amounts, DisputeRefund(d, r, a)
        PROVE  Onward(q)
    BY <2>2 DEF DisputeRefund, Allocate
  <2> QED BY <1>4, <2>1, <2>2 DEF DisputeRuns
<1> QED BY <1>1, <1>2, <1>3, <1>4 DEF RefundsNext

(* What the payments and the provider never take back, and what they need. *)
PaidOnward(p) ==
  /\ paidAt[p] # 0 => paidAt'[p] # 0 /\ method'[p] = method[p]
  /\ \A r \in Refunds :
       /\ provider[r][p] = "succeeded" => provider'[r][p] = "succeeded"
       /\ op'[r][p] = "succeeded" =>
            op[r][p] = "succeeded" \/ provider'[r][p] = "succeeded"
       /\ alloc'[r][p] > 0 => alloc[r][p] > 0 \/ paidAt[p] # 0

LEMMA PaidOnwardStep ==
  ASSUME RefundsInv, RefundsNext
  PROVE  \A p \in Payments : PaidOnward(p)
<1> SUFFICES ASSUME NEW x \in Payments PROVE PaidOnward(x)
  OBVIOUS
<1> USE DEF PaidOnward
<1>0. /\ paidAt = [p \in Payments |-> paidAt[p]]
      /\ method \in [Payments -> {"none", "transfer", "stripe", "momo"}]
      /\ alloc = [r \in Refunds |-> alloc[r]]
      /\ op \in [Refunds -> [Payments -> OpStatuses]]
      /\ provider \in [Refunds -> [Payments -> {"none", "pending", "succeeded"}]]
  BY DEF RefundsInv, RecordsSound
<1>1. ASSUME NEW p \in Payments, NEW m \in Methods[p], Collect(p, m)
      PROVE  PaidOnward(x)
  BY <1>0, <1>1 DEF Collect
<1>2. ASSUME NEW r \in Refunds, NEW a, Allocate(r, a),
             UNCHANGED <<paidAt, method, op, provider>>
      PROVE  PaidOnward(x)
  <2>1. ASSUME NEW q \in Refunds, alloc'[q][x] > 0
        PROVE  alloc[q][x] > 0 \/ paidAt[x] # 0
    <3>1. CASE q # r
      BY <1>0, <1>2, <2>1, <3>1 DEF Allocate
    <3>2. CASE q = r /\ paidAt[x] = 0
      <4>1. alloc'[q][x] = Share(x, a)
        BY <1>0, <1>2, <3>2 DEF Allocate
      <4> QED BY <2>1, <3>2, <4>1 DEF Share
    <3> QED BY <3>1, <3>2
  <2> QED BY <1>2, <2>1
<1>3. ASSUME UNCHANGED <<paidAt, method, alloc, op, provider>>
      PROVE  PaidOnward(x)
  BY <1>3
<1>4. ASSUME NEW r \in Refunds, RefundRuns(r) PROVE PaidOnward(x)
  <2>1. CASE Approve(r)
    BY <1>2, <2>1 DEF Approve, paid
  <2> QED BY <1>3, <1>4, <2>1
          DEF RefundRuns, RequestCheck, RequestCreate, RejectLoad, RejectSave,
              ConfirmLoad, ConfirmSettle, ConfirmMark, ConfirmDone,
              ConfirmStops, apart, paid
<1>5. ASSUME NEW w \in Submitters, Submission(w) PROVE PaidOnward(x)
  <2> USE <1>0 DEF untouched, paid
  <2>0. submit[w].pc # "idle" => submit[w].refund \in Refunds
    BY DEF SubmitTrue, SubmissionSound, RefundsInv
  <2>1. ASSUME NEW p \in Payments, OpLoad(w, p) PROVE PaidOnward(x)
    <3> DEFINE r == submit[w].refund
    <3>1. r \in Refunds /\ UNCHANGED <<paidAt, method, alloc, provider>>
      BY <2>0, <2>1 DEF OpLoad
    <3>2. PICK s \in {"pending", "manual_required", op[r][p]} :
            op' = op \/ op' = [op EXCEPT ![r][p] = s]
      BY <2>1 DEF OpLoad
    <3> HIDE DEF r
    <3> QED BY <3>1, <3>2
  <2>2. CASE OpSave(w)
    BY <2>0, <2>2 DEF OpSave
  <2>3. ASSUME NEW after \in {"none", "pending", "succeeded"},
               NEW s \in {"failed", "submitted", "succeeded"},
               OpAnswer(w, after, s)
        PROVE  PaidOnward(x)
    BY <2>0, <2>3 DEF OpAnswer, ProviderAnswers
  <2> QED BY <1>3, <1>5, <2>1, <2>2, <2>3
          DEF Submission, SubmitLoad, SubmitMark, SubmitSettle, SubmitManual,
              SubmitDisputes, SubmitStops
<1>6. ASSUME NEW d \in Disputes, DisputeRuns(d) PROVE PaidOnward(x)
  <2>1. ASSUME NEW r \in Refunds, NEW a \in Amounts, DisputeRefund(d, r, a)
        PROVE  PaidOnward(x)
    BY <1>2, <2>1 DEF DisputeRefund, paid
  <2> QED BY <1>3, <1>6, <2>1 DEF DisputeRuns, DisputeOpen, DisputeClose, paid
<1> QED BY <1>1, <1>4, <1>5, <1>6 DEF RefundsNext
-----------------------------------------------------------------------------
(* The gateway parts of an approved refund stay as they are. *)
LEMMA PartsStay ==
  ASSUME RefundsInv, RefundsNext, NEW r \in Refunds, ~Fresh(r)
  PROVE  GatewayParts(r)' = GatewayParts(r)
<1>1. alloc'[r] = alloc[r]
  BY OnwardStep DEF Onward
<1>2. ASSUME NEW p \in Payments, alloc[r][p] > 0
      PROVE  method'[p] = method[p]
  BY <1>2, PaidOnwardStep DEF PaidOnward, RefundsInv, TakenFromPaid
<1> QED BY <1>1, <1>2 DEF GatewayParts, ByGateway

(* What a submission knows stays true as long as it forgets nothing.       *)
LEMMA SubmissionKept ==
  ASSUME RefundsInv, RefundsNext, NEW w \in Submitters,
         submit[w].pc # "idle",
         submit'[w].refund = submit[w].refund,
         \A p \in Payments : p \in submit[w].todo =>
           \/ p \in submit'[w].todo
           \/ provider'[submit[w].refund][p] = "succeeded"
           \/ \E x \in submit'[w].results : x # "succeeded",
         submit[w].results \subseteq submit'[w].results,
         submit'[w].todo \subseteq submit[w].todo,
         submit'[w].results # {} =>
           submit[w].results # {} \/ GatewayParts(submit[w].refund) # {},
         submit'[w].pc \in {"ask", "asked"} =>
           submit'[w].payment \in GatewayParts(submit[w].refund),
         submit'[w].pc = "marked" => submit'[w].todo = {}
  PROVE  SubmissionSound(w)'
<1>1. PICK r \in Refunds : r = submit[w].refund /\ ~Fresh(r)
  BY DEF RefundsInv, SubmitTrue, SubmissionSound
<1>2. /\ submit[w].todo \subseteq GatewayParts(r)
      /\ submit[w].results # {} => GatewayParts(r) # {}
      /\ \A p \in GatewayParts(r) :
           \/ p \in submit[w].todo
           \/ provider[r][p] = "succeeded"
           \/ \E x \in submit[w].results : x # "succeeded"
  BY <1>1 DEF RefundsInv, SubmitTrue, SubmissionSound
<1>3. ~(refund'[r].status \in {"none", "checked", "requested"})
  BY <1>1, OnwardStep DEF Onward, Fresh
<1>4. GatewayParts(r)' = GatewayParts(r)
  BY <1>1, PartsStay
<1>5. ASSUME NEW p \in GatewayParts(r)
      PROVE  \/ p \in submit'[w].todo
             \/ provider'[r][p] = "succeeded"
             \/ \E x \in submit'[w].results : x # "succeeded"
  <2>1. p \in Payments
    BY <1>5 DEF GatewayParts, ByGateway
  <2>2. provider[r][p] = "succeeded" => provider'[r][p] = "succeeded"
    BY <2>1, PaidOnwardStep DEF PaidOnward
  <2> QED BY <1>1, <1>2, <1>5, <2>1, <2>2
<1>6. submit'[w].refund = r /\ GatewayParts(submit[w].refund)' = GatewayParts(r)
  <2>1. submit'[w].refund = r
    BY <1>1
  <2> QED BY <2>1, <1>4 DEF GatewayParts
<1>7. submit'[w].results # {} => GatewayParts(r) # {}
  BY <1>1, <1>2
<1>8. /\ submit'[w].todo \subseteq GatewayParts(r)
      /\ submit'[w].pc \in {"ask", "asked"} => submit'[w].payment \in GatewayParts(r)
  BY <1>1, <1>2
<1> QED BY <1>3, <1>5, <1>6, <1>7, <1>8 DEF SubmissionSound, Fresh

LEMMA SubmitStep ==
  ASSUME RefundsInv, RefundsNext
  PROVE  SubmitTrue'
<1> SUFFICES ASSUME NEW x \in Submitters PROVE SubmissionSound(x)'
  BY DEF SubmitTrue
<1>0. submit \in [Submitters -> SubmitRecords] /\ SubmissionSound(x)
  BY DEF RefundsInv, RecordsSound, SubmitTrue
<1>1. ASSUME submit'[x] = submit[x] PROVE SubmissionSound(x)'
  <2>1. CASE submit[x].pc = "idle"
    BY <1>1, <2>1 DEF SubmissionSound
  <2>2. CASE submit[x].pc # "idle"
    BY <1>0, <1>1, <2>2, SubmissionKept DEF SubmissionSound
  <2> QED BY <2>1, <2>2
<1>2. ASSUME submit'[x].pc = "idle" PROVE SubmissionSound(x)'
  BY <1>2 DEF SubmissionSound
<1>3. ASSUME NEW w \in Submitters, Submission(w), w # x PROVE SubmissionSound(x)'
  <2>1. submit'[x] = submit[x]
    BY <1>0, <1>3
       DEF Submission, SubmitLoad, OpLoad, OpSave, OpAnswer, SubmitMark,
           SubmitSettle, SubmitManual, SubmitDisputes, SubmitStops
  <2> QED BY <1>1, <2>1
<1>4. CASE Submission(x)
  <2>1. ASSUME NEW r \in Refunds, SubmitLoad(x, r) PROVE SubmissionSound(x)'
    <3>1. submit'[x] = [pc |-> "next", refund |-> r, payment |-> Nothing,
                        todo |-> GatewayParts(r),
                        results |-> {}]
      BY <1>0, <2>1 DEF SubmitLoad, IdleSubmit
    <3>2. UNCHANGED <<refund, method, alloc, provider>> /\ ~Fresh(r)
      BY <2>1 DEF SubmitLoad, Fresh, untouched, paid
    <3>3. GatewayParts(r)' = GatewayParts(r)
      BY <3>2 DEF GatewayParts, ByGateway
    <3>4. submit'[x].refund = r /\ GatewayParts(submit[x].refund)' = GatewayParts(r)
      <4>1. submit'[x].refund = r
        BY <3>1
      <4> QED BY <3>3, <4>1 DEF GatewayParts
    <3>5. submit'[x].todo = GatewayParts(r) /\ submit'[x].results = {} /\ submit'[x].pc = "next"
      BY <3>1
    <3> QED BY <3>2, <3>4, <3>5 DEF SubmissionSound, Fresh
  <2>2. ASSUME NEW p \in Payments, OpLoad(x, p) PROVE SubmissionSound(x)'
    <3> DEFINE r == submit[x].refund
    <3>0. p \in GatewayParts(r)
      BY <1>0, <2>2 DEF OpLoad, SubmissionSound
    <3>1. CASE /\ op[r][p] = "succeeded"
               /\ submit' = [submit EXCEPT ![x] = Answered(x, p, "succeeded")]
      <4>1. provider[r][p] = "succeeded"
        BY <1>0, <2>2, <3>1 DEF OpLoad, SubmissionSound, RefundsInv, OpTrue
      <4> QED BY <1>0, <2>2, <3>0, <3>1, <4>1, SubmissionKept DEF OpLoad, Answered, SubmitRecords
    <3>2. CASE submit' = [submit EXCEPT ![x] = Answered(x, p, "manual_required")]
      <4>1. /\ submit'[x].refund = r /\ submit'[x].pc = "next"
            /\ submit'[x].todo = submit[x].todo \ {p}
            /\ submit'[x].results = submit[x].results \cup {"manual_required"}
        BY <1>0, <3>2 DEF Answered, SubmitRecords
      <4>2. submit[x].pc # "idle"
        BY <2>2 DEF OpLoad
      <4> HIDE DEF r
      <4>3. GatewayParts(r) # {} /\ r = submit[x].refund
        BY <3>0 DEF r
      <4> QED BY <4>1, <4>2, <4>3, SubmissionKept
    <3>3. ASSUME NEW c \in {"ask", "asked"},
                 submit' = [submit EXCEPT ![x].payment = p, ![x].pc = c]
          PROVE  SubmissionSound(x)'
      BY <1>0, <2>2, <3>0, <3>3, SubmissionKept DEF OpLoad, SubmitRecords
    <3> QED BY <2>2, <3>1, <3>2, <3>3 DEF OpLoad
  <2>3. CASE OpSave(x)
    BY <1>0, <2>3, SubmissionKept DEF OpSave, SubmitRecords, SubmissionSound
  <2>4. ASSUME NEW after \in {"none", "pending", "succeeded"},
               NEW s \in {"failed", "submitted", "succeeded"},
               OpAnswer(x, after, s)
        PROVE  SubmissionSound(x)'
    <3> DEFINE r == submit[x].refund  p == submit[x].payment
    <3>0. p \in GatewayParts(r)
      BY <1>0, <2>4 DEF OpAnswer, SubmissionSound
    <3>1. r \in Refunds /\ p \in Payments
      BY <1>0, <2>4, <3>0 DEF OpAnswer, SubmissionSound, GatewayParts, ByGateway
    <3>2. s # "succeeded" \/ provider'[r][p] = "succeeded"
      BY <2>4, <3>1 DEF OpAnswer, ProviderAnswers, RefundsInv, RecordsSound
    <3>3. submit'[x] = Answered(x, p, s)
      BY <1>0, <2>4 DEF OpAnswer
    <3> QED BY <1>0, <2>4, <3>0, <3>2, <3>3, SubmissionKept DEF OpAnswer, Answered, SubmitRecords
  <2>5. CASE SubmitMark(x)
    BY <1>0, <2>5, SubmissionKept DEF SubmitMark, SubmitRecords
  <2>6. CASE SubmitManual(x)
    BY <1>0, <2>6, SubmissionKept DEF SubmitManual, SubmitRecords
  <2>7. CASE SubmitSettle(x) \/ SubmitDisputes(x) \/ SubmitStops(x)
    BY <1>0, <1>2, <2>7
       DEF SubmitSettle, SubmitDisputes, SubmitStops, IdleSubmit
  <2> QED BY <1>4, <2>1, <2>2, <2>3, <2>4, <2>5, <2>6, <2>7 DEF Submission
<1>5. CASE UNCHANGED submit
  BY <1>1, <1>5
<1>6. ASSUME NEW r \in Refunds, RefundRuns(r) PROVE UNCHANGED submit
  BY <1>6 DEF RefundRuns, RequestCheck, RequestCreate, RejectLoad, RejectSave,
              Approve, ConfirmLoad, ConfirmSettle, ConfirmMark, ConfirmDone,
              ConfirmStops, apart
<1>7. ASSUME NEW d \in Disputes, DisputeRuns(d) PROVE UNCHANGED submit
  BY <1>7 DEF DisputeRuns, DisputeOpen, DisputeClose, DisputeRefund
<1> QED BY <1>3, <1>4, <1>5, <1>6, <1>7 DEF RefundsNext, Collect
-----------------------------------------------------------------------------
LEMMA RefundsInvStep ==
  ASSUME RefundsInv, [RefundsNext]_allVars
  PROVE  RefundsInv'
<1>1. CASE RefundsNext
  <2>1. /\ \A r \in Refunds : Onward(r)
        /\ \A p \in Payments : PaidOnward(p)
    BY <1>1, OnwardStep, PaidOnwardStep
  <2>2. RecordsSound' /\ SubmitTrue'
    BY <1>1, RecordsStep, SubmitStep
  <2>3. TakenFromPaid' /\ OpTrue'
    BY <2>1 DEF PaidOnward, RefundsInv, TakenFromPaid, OpTrue
  <2>4. CompletedDebited'
    BY <2>1 DEF Onward, Done, RefundsInv, CompletedDebited
  <2>5. DebitApproved'
    BY <2>1 DEF Onward, Fresh, RefundsInv, DebitApproved
  <2>6. DebitEarned'
    <3> SUFFICES ASSUME NEW r \in Refunds, DebitKey(r) \in posted',
                        r \notin evidence'
                 PROVE  PaidBack(r)'
      BY DEF DebitEarned, PaidBack
    <3>1. CASE DebitKey(r) \in posted
      <4>1. ~Fresh(r) /\ r \notin evidence
        BY <2>1, <3>1 DEF Onward, RefundsInv, DebitApproved
      <4>2. GatewayParts(r)' = GatewayParts(r)
        BY <1>1, <4>1, PartsStay
      <4>3. PaidBack(r)
        BY <3>1, <4>1 DEF RefundsInv, DebitEarned, PaidBack
      <4>4. \A p \in GatewayParts(r) : p \in Payments
        BY DEF GatewayParts, ByGateway
      <4> QED BY <2>1, <4>2, <4>3, <4>4 DEF PaidOnward, PaidBack
    <3>2. CASE PaidBack(r) /\ UNCHANGED <<method, alloc, provider>>
      BY <3>2 DEF PaidBack, GatewayParts, ByGateway
    <3> QED BY <2>1, <3>1, <3>2 DEF Onward
  <2>7. ConfirmTrue'
    <3> SUFFICES ASSUME NEW q \in Refunds
                 PROVE  /\ confirming'[q] # "idle" => q \in evidence'
                        /\ confirming'[q] \in {"settled", "marked"} =>
                             DebitKey(q) \in posted'
      BY DEF ConfirmTrue
    <3>1. ASSUME confirming'[q] \in {confirming[q], "idle"}
          PROVE  /\ confirming'[q] # "idle" => q \in evidence'
                 /\ confirming'[q] \in {"settled", "marked"} =>
                      DebitKey(q) \in posted'
      BY <2>1, <3>1 DEF Onward, RefundsInv, ConfirmTrue
    <3>2. confirming \in [Refunds -> {"idle", "loaded", "settled", "marked"}]
      BY DEF RefundsInv, RecordsSound
    <3>3. CASE ConfirmLoad(q)
      BY <3>2, <3>3 DEF ConfirmLoad
    <3>4. CASE ConfirmSettle(q)
      <4>1. CASE CanSettle(q) /\ Settle(q)
        BY <2>1, <3>2, <3>4, <4>1, SettleFacts
           DEF ConfirmSettle, Onward, RefundsInv, ConfirmTrue
      <4>2. CASE refund[q].status = "completed"
        BY <2>1, <3>2, <3>4, <4>2
           DEF ConfirmSettle, Onward, RefundsInv, ConfirmTrue, CompletedDebited
      <4> QED BY <3>4, <4>1, <4>2 DEF ConfirmSettle
    <3>5. CASE ConfirmMark(q)
      BY <2>1, <3>2, <3>5 DEF ConfirmMark, Onward, RefundsInv, ConfirmTrue
    <3>6. CASE ~(ConfirmLoad(q) \/ ConfirmSettle(q) \/ ConfirmMark(q))
      <4>1. ASSUME NEW r \in Refunds, RefundRuns(r)
            PROVE  confirming'[q] \in {confirming[q], "idle"}
        BY <3>2, <3>6, <4>1
           DEF RefundRuns, RequestCheck, RequestCreate, RejectLoad, RejectSave,
               Approve, ConfirmLoad, ConfirmSettle, ConfirmMark, ConfirmDone,
               ConfirmStops
      <4>2. ASSUME NEW w \in Submitters, Submission(w)
            PROVE  confirming'[q] \in {confirming[q], "idle"}
        BY <4>2 DEF Submission, SubmitLoad, OpLoad, OpSave, OpAnswer, SubmitMark,
                    SubmitSettle, SubmitManual, SubmitDisputes, SubmitStops,
                    untouched
      <4>3. ASSUME NEW d \in Disputes, DisputeRuns(d)
            PROVE  confirming'[q] \in {confirming[q], "idle"}
        BY <4>3 DEF DisputeRuns, DisputeOpen, DisputeClose, DisputeRefund
      <4> QED BY <1>1, <3>1, <4>1, <4>2, <4>3 DEF RefundsNext, Collect
    <3> QED BY <3>3, <3>4, <3>5, <3>6
  <2> QED BY <2>2, <2>3, <2>4, <2>5, <2>6, <2>7 DEF RefundsInv
<1>2. CASE UNCHANGED allVars
  <2>1. UNCHANGED <<paid, refund, alloc, op, provider, submit, confirming, evidence, posted>>
    BY <1>2 DEF allVars, refundVars, ledgerVars
  <2>2. RecordsSound' /\ TakenFromPaid' /\ DebitApproved' /\ OpTrue' /\ ConfirmTrue'
          /\ CompletedDebited'
    BY <2>1 DEF paid, RefundsInv, RecordsSound, TakenFromPaid, DebitApproved, OpTrue,
                ConfirmTrue, CompletedDebited, Fresh
  <2>3. DebitEarned'
    BY <2>1 DEF paid, RefundsInv, DebitEarned, GatewayParts, ByGateway
  <2>4. ASSUME NEW w \in Submitters PROVE SubmissionSound(w)'
    BY <2>1 DEF paid, RefundsInv, SubmitTrue, SubmissionSound, Fresh, GatewayParts, ByGateway
  <2> QED BY <2>2, <2>3, <2>4 DEF RefundsInv, SubmitTrue
<1> QED BY <1>1, <1>2

LEMMA RefundsInvCorrect == RefundsSpec => []RefundsInv
<1> QED BY RefundsInvInit, RefundsInvStep, PTL DEF RefundsSpec

(* A completed refund has been debited to the host, whichever of any       *)
(* number of submissions and confirmations completed it, and whatever the  *)
(* others write over its status afterwards.                                *)
THEOREM CompletedIsDebited == RefundsSpec => []CompletedDebited
<1>1. RefundsInv => CompletedDebited
  BY DEF RefundsInv
<1> QED BY <1>1, RefundsInvCorrect, PTL

(* The host is debited only when somebody has confirmed a transfer, or the *)
(* provider has paid every gateway part, of which there is one at least,   *)
(* however often a submission was repeated and whichever answers were lost.*)
(* The rest of a mixed refund may still have to be paid.                   *)
THEOREM DebitsEarned == RefundsSpec => []DebitEarned
<1>1. RefundsInv => DebitEarned
  BY DEF RefundsInv
<1> QED BY <1>1, RefundsInvCorrect, PTL

(* Together: what the run of Refunds checks on two refunds holds of any    *)
(* number.                                                                 *)
THEOREM DebitsAreSound == RefundsSpec => []DebitsSound
<1> QED BY CompletedIsDebited, DebitsEarned, PTL DEF DebitsSound
-----------------------------------------------------------------------------
(* Amounts.  What is taken from a payment is a sum over the refunds, what  *)
(* a refund takes one over the payments.                                   *)
Bound(p) == IF paidAt[p] = 0 THEN 0 ELSE Collects[p]
Collected == {p \in Payments : paidAt[p] > 0}

(* A refund that somebody has approved, or was about to settle. *)
Approved(r) ==
  \/ refund[r].status \in Allocated
  \/ DebitKey(r) \in posted
  \/ confirming[r] # "idle"
  \/ \E w \in Submitters : submit[w].pc # "idle" /\ submit[w].refund = r

AllocTyped ==
  /\ paidAt \in [Payments -> Nat]
  /\ alloc \in [Refunds -> [Payments -> Nat]]
(* The order of the payments is strict. *)
PaidInOrder ==
  /\ \A p \in Payments : paidAt[p] <= Cardinality(Collected)
  /\ \A p, q \in Payments : paidAt[p] > 0 /\ paidAt[p] = paidAt[q] => p = q
AmountsKnown ==
  \A r \in Refunds :
    /\ refund[r].status # "none" => refund[r].amount \in Amounts
    /\ r \in rejecting => refund[r].status # "none"
(* Nobody takes more than a payment brought, before or after a refund.     *)
PaymentsCover == \A p \in Payments : RefundedAmount(p) <= Bound(p)
AllocInv ==
  /\ AllocTyped /\ PaidInOrder /\ AmountsKnown /\ PaymentsCover
  /\ \A r \in Refunds : Fresh(r) => \A p \in Payments : alloc[r][p] = 0
  /\ \A r \in Refunds : Approved(r) =>
       ~Fresh(r) /\ SumFunction(alloc[r]) = refund[r].amount

LEMMA RefundFacts ==
  /\ IsFiniteSet(Payments) /\ IsFiniteSet(Refunds)
  /\ \A p \in Payments : Collects[p] \in Amounts /\ Collects[p] \in Nat
  /\ \A a \in Amounts : a \in Nat
<1> QED BY LedgerConstants, RefundConstants

(* What is left of a payment is a whole number. *)
LEMMA NetFacts ==
  ASSUME AllocInv
  PROVE  \A p \in Payments : /\ RefundedAmount(p) \in Nat /\ NetOf(p) \in Nat
                             /\ NetOf(p) = Bound(p) - RefundedAmount(p)
<1> SUFFICES ASSUME NEW p \in Payments
             PROVE  /\ RefundedAmount(p) \in Nat /\ NetOf(p) \in Nat
                    /\ NetOf(p) = Bound(p) - RefundedAmount(p)
  OBVIOUS
<1> DEFINE f == [r \in Refunds |-> alloc[r][p]]
<1>1. \A r \in Refunds : f[r] \in Nat
  BY DEF AllocInv, AllocTyped
<1>2. RefundedAmount(p) = Sum(f, Refunds)
  BY DEF RefundedAmount, Sum, SumFunction
<1> HIDE DEF f
<1>3. RefundedAmount(p) \in Nat
  BY <1>1, <1>2, SumNat, RefundFacts
<1>4. RefundedAmount(p) <= Bound(p) /\ Bound(p) \in Nat
  BY RefundFacts DEF AllocInv, PaymentsCover, Bound
<1> QED BY <1>3, <1>4 DEF NetOf, Bound

net == [p \in Payments |-> NetOf(p)]

LEMMA NetIsSum ==
  ASSUME AllocInv, NEW T \in SUBSET Payments
  PROVE  Net(T) = Sum(net, T) /\ Sum(net, T) \in Nat
<1> DEFINE f == [p \in T |-> NetOf(p)]
<1>1. IsFiniteSet(T)
  BY FS_Subset, RefundFacts
<1>2. Net(T) = Sum(f, T)
  BY DEF Net, Sum, SumFunction
<1>3. \A p \in T : f[p] = net[p] /\ net[p] \in Nat
  BY NetFacts DEF net
<1> HIDE DEF f
<1>4. Sum(f, T) = Sum(net, T)
  BY <1>1, <1>3, SumAgree
<1>5. Sum(net, T) \in Nat
  BY <1>1, <1>3, SumNat
<1> QED BY <1>2, <1>4, <1>5

share(a) == [p \in Payments |-> Share(p, a)]

LEMMA ShareFacts ==
  ASSUME AllocInv, NEW a \in Nat
  PROVE  \A p \in Payments : Share(p, a) \in Nat /\ Share(p, a) <= NetOf(p)
<1> SUFFICES ASSUME NEW p \in Payments
             PROVE  Share(p, a) \in Nat /\ Share(p, a) <= NetOf(p)
  OBVIOUS
<1>1. NetOf(p) \in Nat
  BY NetFacts
<1>2. Older(p) \in SUBSET Payments
  BY DEF Older
<1>3. Net(Older(p)) \in Nat
  BY <1>2, NetIsSum
<1>4. AboveZero(a - Net(Older(p))) \in Nat
  BY <1>3 DEF AboveZero
<1> QED BY <1>1, <1>4 DEF Share, Lesser

(* The shares of a payment and of all that are older make the amount, as   *)
(* far as there is money: the oldest payments are taken from first.        *)
Closed(T) == T \subseteq Collected /\ \A p \in T : Older(p) \subseteq T

LEMMA ShareUpTo ==
  ASSUME AllocInv, NEW a \in Nat, NEW S \in SUBSET Payments, Closed(S)
  PROVE  Sum(share(a), S) = Lesser(a, Sum(net, S))
<1> DEFINE Right(T) == Sum(share(a), T) = Lesser(a, Sum(net, T))
           F == {T \in SUBSET S : Closed(T) /\ ~Right(T)}
<1> SUFFICES ASSUME F # {} PROVE FALSE
  OBVIOUS
<1>1. F \in SUBSET SUBSET S /\ IsFiniteSet(S)
  BY FS_Subset, RefundFacts
<1>2. PICK T \in F : \A U \in F : U \subseteq T => U = T
  <2> HIDE DEF F
  <2> QED BY <1>1, SmallestSet
<1>3. T \in SUBSET S /\ Closed(T) /\ ~Right(T) /\ T \in SUBSET Payments
  OBVIOUS
<1>4. IsFiniteSet(T) /\ paidAt \in [Payments -> Nat]
  BY <1>1, <1>3, FS_Subset DEF AllocInv, AllocTyped
<1>5. T # {}
  <2> SUFFICES ASSUME T = {} PROVE FALSE
    OBVIOUS
  <2>1. Sum(share(a), {}) = 0 /\ Sum(net, {}) = 0
    BY SumEmpty
  <2> QED BY <1>3, <2>1 DEF Lesser
<1>6. PICK q \in T : \A p \in T : paidAt[p] <= paidAt[q]
  <2>1. \A x \in T : paidAt[x] \in Int
    BY <1>3, <1>4
  <2> QED BY <1>4, <1>5, <2>1, GreatestValue
<1> DEFINE A == T \ {q}
<1>7. A = Older(q)
  <2>1. Older(q) \subseteq A
    BY <1>3, <1>4, <1>6 DEF Closed, Older
  <2>2. ASSUME NEW p \in A PROVE p \in Older(q)
    <3>1. p \in Payments /\ q \in Payments /\ p # q /\ paidAt[p] > 0
      BY <1>3, <1>6 DEF Closed, Collected
    <3>2. paidAt[p] <= paidAt[q] /\ paidAt[p] # paidAt[q]
      BY <1>6, <3>1 DEF AllocInv, PaidInOrder
    <3> QED BY <1>4, <3>1, <3>2 DEF Older
  <2> QED BY <2>1, <2>2
<1>8. A \in SUBSET S /\ A # T /\ A \in SUBSET Payments /\ Closed(A)
  <2>1. A \subseteq Collected
    BY <1>3 DEF Closed
  <2>2. ASSUME NEW p \in A PROVE Older(p) \subseteq A
    BY <1>3, <1>4, <1>6, <1>7 DEF Older
  <2> QED BY <1>3, <1>6, <2>1, <2>2 DEF Closed
<1>9. Right(A)
  BY <1>2, <1>8
<1>10. /\ Sum(net, T) = net[q] + Sum(net, A)
       /\ Sum(share(a), T) = share(a)[q] + Sum(share(a), A)
  <2>1. \A x \in T : net[x] \in Int /\ share(a)[x] \in Int
    BY <1>3, NetFacts, ShareFacts DEF net, share
  <2> QED BY <1>4, <1>6, <2>1, SumTake
<1>11. /\ net[q] = NetOf(q) /\ NetOf(q) \in Nat
       /\ share(a)[q] = Lesser(NetOf(q), AboveZero(a - Sum(net, A)))
  <2>1. q \in Payments /\ paidAt[q] # 0
    BY <1>3, <1>4, <1>6 DEF Closed, Collected
  <2>2. Net(Older(q)) = Sum(net, A)
    BY <1>7, <1>8, NetIsSum
  <2> QED BY <2>1, <2>2, NetFacts DEF net, share, Share
<1>12. Sum(net, A) \in Nat
  BY <1>8, NetIsSum
<1> HIDE DEF A
<1>13. Sum(share(a), T) = Lesser(a, Sum(net, T))
  BY <1>9, <1>10, <1>11, <1>12 DEF Lesser, AboveZero
<1> QED BY <1>3, <1>13

(* allocateRefundToPayments takes exactly the amount. *)
LEMMA ShareSum ==
  ASSUME AllocInv, NEW a \in Nat, a <= Net(Payments)
  PROVE  Sum(share(a), Payments) = a
<1> DEFINE U == Payments \ Collected
<1>1. paidAt \in [Payments -> Nat]
  BY DEF AllocInv, AllocTyped
<1>2. /\ \A p \in Payments : net[p] \in Nat /\ share(a)[p] \in Nat
      /\ \A p \in U : net[p] = 0 /\ share(a)[p] = 0
  BY <1>1, NetFacts, ShareFacts DEF net, share, Collected, NetOf, Share
<1>3. Payments = Collected \cup U /\ Collected \cap U = {} /\ Collected \in SUBSET Payments
  BY DEF Collected
<1>4. IsFiniteSet(Payments) /\ IsFiniteSet(U)
  BY RefundFacts, FS_Subset
<1>5. /\ Sum(net, Payments) = Sum(net, Collected) + Sum(net, U)
      /\ Sum(share(a), Payments) = Sum(share(a), Collected) + Sum(share(a), U)
  <2>1. \A p \in Payments : net[p] \in Int /\ share(a)[p] \in Int
    BY <1>2
  <2> HIDE DEF U
  <2> QED BY <1>3, <1>4, <2>1, SumSplit
<1>6. Sum(net, U) = 0 /\ Sum(share(a), U) = 0
  BY <1>2, <1>4, SumZero
<1>7. Closed(Collected)
  BY <1>1 DEF Closed, Collected, Older
<1>8. Sum(share(a), Collected) = Lesser(a, Sum(net, Collected))
  BY <1>3, <1>7, ShareUpTo
<1>9. Net(Payments) = Sum(net, Payments) /\ Sum(net, Collected) \in Nat
  BY <1>3, NetIsSum
<1> HIDE DEF U
<1> QED BY <1>5, <1>6, <1>8, <1>9 DEF Lesser
-----------------------------------------------------------------------------
(* The two actions that take money from the payments approve a refund that *)
(* is fresh, for its amount.                                               *)
Approves(r) ==
  /\ Fresh(r) /\ ~Fresh(r)' /\ paidAt' = paidAt
  /\ refund'[r].amount \in Amounts /\ Allocate(r, refund'[r].amount)

LEMMA AllocStep ==
  ASSUME RefundsInv, AmountsKnown, RefundsNext
  PROVE  alloc' = alloc \/ \E r \in Refunds : Approves(r)
<1>0. refund \in [Refunds -> RefundRecords]
  BY DEF RefundsInv, RecordsSound
<1>1. ASSUME NEW r \in Refunds, Approve(r) PROVE Approves(r)
  <2>1. PICK s \in {"provider_pending", "manual_refund_required", "completed"} :
          refund' = [refund EXCEPT ![r].status = s]
    BY <1>1 DEF Approve
  <2>2. refund'[r].amount = refund[r].amount /\ refund'[r].status = s
    BY <1>0, <2>1 DEF RefundRecords
  <2>3. /\ refund[r].status = "requested" /\ Allocate(r, refund[r].amount)
        /\ paidAt' = paidAt
    BY <1>1 DEF Approve, paid
  <2> QED BY <2>2, <2>3 DEF Approves, Fresh, AmountsKnown
<1>2. ASSUME NEW d \in Disputes, NEW r \in Refunds, NEW a \in Amounts,
             DisputeRefund(d, r, a)
      PROVE  Approves(r)
  BY <1>0, <1>2 DEF DisputeRefund, Approves, Fresh, paid
<1>3. ASSUME NEW r \in Refunds, RefundRuns(r), ~Approve(r) PROVE alloc' = alloc
  BY <1>3 DEF RefundRuns, RequestCheck, RequestCreate, RejectLoad, RejectSave,
              ConfirmLoad, ConfirmSettle, ConfirmMark, ConfirmDone, ConfirmStops,
              apart
<1>4. ASSUME NEW w \in Submitters, Submission(w) PROVE alloc' = alloc
  BY <1>4 DEF Submission, SubmitLoad, OpLoad, OpSave, OpAnswer, SubmitMark,
              SubmitSettle, SubmitManual, SubmitDisputes, SubmitStops, untouched
<1>5. ASSUME NEW d \in Disputes, DisputeOpen(d) \/ DisputeClose(d) PROVE alloc' = alloc
  BY <1>5 DEF DisputeOpen, DisputeClose
<1> QED BY <1>1, <1>2, <1>3, <1>4, <1>5 DEF RefundsNext, DisputeRuns, Collect

(* Amounts are given once, and nothing is settled that was not approved.   *)
AmountOnward(q) ==
  /\ ~Fresh(q) => refund'[q].amount = refund[q].amount
  /\ refund'[q].status # "none" => refund'[q].amount \in Amounts
  /\ refund[q].status # "none" => refund'[q].status # "none"
  /\ Approved(q)' => Approved(q) \/ Approves(q)

LEMMA AmountStep ==
  ASSUME RefundsInv, AmountsKnown, RefundsNext
  PROVE  \A q \in Refunds : AmountOnward(q)
<1> SUFFICES ASSUME NEW q \in Refunds PROVE AmountOnward(q)
  OBVIOUS
<1> USE DEF AmountOnward, Approved
<1>0. /\ refund \in [Refunds -> RefundRecords]
      /\ submit \in [Submitters -> SubmitRecords]
      /\ confirming \in [Refunds -> {"idle", "loaded", "settled", "marked"}]
      /\ refund[q].status # "none" => refund[q].amount \in Amounts
  BY DEF RefundsInv, RecordsSound, AmountsKnown
(* A change of a status alone. *)
<1>1. ASSUME NEW r \in Refunds, NEW s, s # "none", refund[r].status # "none",
             refund' = [refund EXCEPT ![r].status = s]
      PROVE  /\ refund'[q].amount = refund[q].amount
             /\ refund'[q].status # "none" => refund'[q].amount \in Amounts
             /\ refund'[q].status = IF q = r THEN s ELSE refund[q].status
  BY <1>0, <1>1 DEF RefundRecords
<1>2. ASSUME NEW p \in Payments, NEW m \in Methods[p], Collect(p, m)
      PROVE  AmountOnward(q)
  <2>1. DebitKey(q) \in posted' <=> DebitKey(q) \in posted
    BY <1>2, KeysApart DEF Collect, Credit
  <2> QED BY <1>0, <1>2, <2>1 DEF Collect
<1>3. ASSUME NEW r \in Refunds, RefundRuns(r) PROVE AmountOnward(q)
  <2> USE <1>0 DEF ledgerVars, apart, paid
  <2>1. ASSUME NEW a \in Amounts, RequestCheck(r, a) PROVE AmountOnward(q)
    BY <2>1 DEF RequestCheck, Fresh, Allocated
  <2>2. CASE RequestCreate(r)
    <3>1. /\ refund'[q].amount = refund[q].amount
          /\ refund'[q].status # "none" => refund'[q].amount \in Amounts
          /\ refund'[q].status = IF q = r THEN "requested" ELSE refund[q].status
      BY <1>1, <2>2 DEF RequestCreate
    <3> QED BY <2>2, <3>1 DEF RequestCreate, Allocated
  <2>3. CASE RejectLoad(r)
    BY <2>3 DEF RejectLoad
  <2>4. CASE RejectSave(r)
    <3>1. refund[r].status # "none"
      BY <2>4 DEF RejectSave, AmountsKnown
    <3>2. /\ refund'[q].amount = refund[q].amount
          /\ refund'[q].status # "none" => refund'[q].amount \in Amounts
          /\ refund'[q].status = IF q = r THEN "rejected" ELSE refund[q].status
      BY <1>1, <2>4, <3>1 DEF RejectSave
    <3> QED BY <2>4, <3>1, <3>2 DEF RejectSave, Allocated
  <2>5. CASE Approve(r)
    <3>1. PICK s \in {"provider_pending", "manual_refund_required", "completed"} :
            /\ refund' = [refund EXCEPT ![r].status = s]
            /\ posted' = posted \/ posted' = posted \cup {DebitKey(r)}
      BY <2>5 DEF Approve, Debit
    <3>2. /\ refund'[q].amount = refund[q].amount
          /\ refund'[q].status # "none" => refund'[q].amount \in Amounts
          /\ refund'[q].status = IF q = r THEN s ELSE refund[q].status
      BY <1>1, <2>5, <3>1 DEF Approve
    <3>3. CASE q = r
      <4>1. Approves(r)
        BY <2>5, <3>2, <3>3 DEF Approve, Approves, Fresh
      <4> QED BY <3>2, <3>3, <4>1
    <3>4. CASE q # r
      BY <2>5, <3>1, <3>2, <3>4, KeysApart DEF Approve
    <3> QED BY <3>3, <3>4
  <2>6. CASE ConfirmLoad(r)
    BY <2>6 DEF ConfirmLoad, Allocated
  <2>7. CASE ConfirmSettle(r)
    <3>1. CASE CanSettle(r) /\ Settle(r)
      <4>1. /\ refund' = [refund EXCEPT ![r].status = "completed"]
            /\ posted' = posted \cup {DebitKey(r)}
        BY <3>1, SettleFacts
      <4>2. /\ refund'[q].amount = refund[q].amount
            /\ refund'[q].status # "none" => refund'[q].amount \in Amounts
            /\ refund'[q].status = IF q = r THEN "completed" ELSE refund[q].status
        BY <1>1, <3>1, <4>1 DEF CanSettle
      <4> QED BY <2>7, <3>1, <4>1, <4>2, KeysApart DEF ConfirmSettle, CanSettle, Allocated
    <3>2. CASE UNCHANGED <<refund, dispute, ledgerVars>>
      BY <2>7, <3>2 DEF ConfirmSettle
    <3> QED BY <2>7, <3>1, <3>2 DEF ConfirmSettle
  <2>8. CASE ConfirmMark(r)
    <3>1. DebitKey(r) \in posted /\ refund[r].status # "none"
      BY <2>8 DEF ConfirmMark, RefundsInv, ConfirmTrue, DebitApproved, Fresh
    <3>2. /\ refund'[q].amount = refund[q].amount
          /\ refund'[q].status # "none" => refund'[q].amount \in Amounts
          /\ refund'[q].status = IF q = r THEN "manual_refund_confirmed"
                                 ELSE refund[q].status
      BY <1>1, <2>8, <3>1 DEF ConfirmMark
    <3> QED BY <2>8, <3>1, <3>2 DEF ConfirmMark
  <2>9. CASE ConfirmDone(r)
    <3>1. DebitKey(r) \in posted /\ refund[r].status # "none"
      BY <2>9 DEF ConfirmDone, RefundsInv, ConfirmTrue, DebitApproved, Fresh
    <3>2. /\ refund'[q].amount = refund[q].amount
          /\ refund'[q].status # "none" => refund'[q].amount \in Amounts
          /\ refund'[q].status = IF q = r THEN "completed" ELSE refund[q].status
      BY <1>1, <2>9, <3>1 DEF ConfirmDone
    <3> QED BY <2>9, <3>1, <3>2 DEF ConfirmDone
  <2>10. CASE ConfirmStops(r)
    BY <2>10 DEF ConfirmStops
  <2> QED BY <1>3, <2>1, <2>2, <2>3, <2>4, <2>5, <2>6, <2>7, <2>8, <2>9, <2>10
          DEF RefundRuns
<1>4. ASSUME NEW w \in Submitters, Submission(w) PROVE AmountOnward(q)
  <2> USE <1>0 DEF ledgerVars, untouched, paid
  <2> DEFINE r == submit[w].refund
  <2>0. submit[w].pc # "idle" =>
          r \in Refunds /\ refund[r].status # "none" /\ Approved(r)
    BY DEF SubmitTrue, SubmissionSound, RefundsInv, Fresh
  <2>1. ASSUME NEW x \in Refunds, SubmitLoad(w, x) PROVE AmountOnward(q)
    BY <2>1 DEF SubmitLoad, Allocated, IdleSubmit
  <2>2. ASSUME submit[w].pc # "idle", submit'[w].refund = submit[w].refund \/ submit'[w].pc = "idle",
               \A v \in Submitters \ {w} : submit'[v] = submit[v],
               UNCHANGED confirming,
               \/ refund' = refund \/ \E s : s # "none" /\ refund' = [refund EXCEPT ![r].status = s],
               posted' = posted \/ posted' = posted \cup {DebitKey(r)}
        PROVE  AmountOnward(q)
    <3>1. r \in Refunds /\ refund[r].status # "none" /\ Approved(r)
      BY <2>0, <2>2
    <3>2. /\ refund'[q].amount = refund[q].amount
          /\ refund'[q].status # "none" => refund'[q].amount \in Amounts
          /\ q # r => refund'[q].status = refund[q].status
          /\ refund[q].status # "none" => refund'[q].status # "none"
      BY <1>1, <2>2, <3>1
    <3>3. CASE q = r
      <4>1. Approved(q)
        BY <3>1, <3>3
      <4> QED BY <3>2, <4>1
    <3>4. CASE q # r
      <4>1. DebitKey(q) \in posted' <=> DebitKey(q) \in posted
        BY <2>2, <3>1, <3>4, KeysApart
      <4>2. \A v \in Submitters :
              submit'[v].pc # "idle" /\ submit'[v].refund = q =>
                submit[v].pc # "idle" /\ submit[v].refund = q
        BY <2>2, <3>4
      <4> QED BY <2>2, <3>2, <3>4, <4>1, <4>2
    <3> QED BY <3>3, <3>4
  <2>3. ASSUME NEW p \in Payments, OpLoad(w, p) PROVE AmountOnward(q)
    <3>1. submit[w].pc # "idle" /\ UNCHANGED <<refund, confirming, posted>>
      BY <2>3 DEF OpLoad
    <3>2. \A v \in Submitters \ {w} : submit'[v] = submit[v]
      BY <2>3 DEF OpLoad
    <3>3. submit'[w].refund = submit[w].refund
      <4>1. \/ submit'[w] = Answered(w, p, "succeeded")
            \/ submit'[w] = Answered(w, p, "manual_required")
            \/ \E c \in {"ask", "asked"} :
                 submit' = [submit EXCEPT ![w].payment = p, ![w].pc = c]
        BY <2>3 DEF OpLoad
      <4>2. submit[w] \in SubmitRecords
        OBVIOUS
      <4> QED BY <4>1, <4>2 DEF Answered, SubmitRecords
    <3> QED BY <2>2, <3>1, <3>2, <3>3
  <2>4. CASE OpSave(w)
    BY <2>2, <2>4 DEF OpSave, SubmitRecords
  <2>5. ASSUME NEW after \in {"none", "pending", "succeeded"},
               NEW s \in {"failed", "submitted", "succeeded"},
               OpAnswer(w, after, s)
        PROVE  AmountOnward(q)
    BY <2>2, <2>5 DEF OpAnswer, Answered, SubmitRecords
  <2>6. CASE SubmitMark(w)
    BY <2>2, <2>6 DEF SubmitMark, SubmitRecords
  <2>7. CASE SubmitSettle(w)
    <3>1. submit[w].pc # "idle" /\ r \in Refunds
      BY <2>0, <2>7 DEF SubmitSettle
    <3>2. /\ refund' = [refund EXCEPT ![r].status = "completed"]
          /\ posted' = posted \cup {DebitKey(r)}
      BY <2>7, <3>1, SettleFacts DEF SubmitSettle
    <3> QED BY <2>2, <2>7, <3>1, <3>2 DEF SubmitSettle, IdleSubmit
  <2>8. CASE SubmitManual(w)
    BY <2>2, <2>8 DEF SubmitManual, SubmitRecords
  <2>9. CASE SubmitDisputes(w)
    BY <2>2, <2>9 DEF SubmitDisputes, IdleSubmit
  <2>10. CASE SubmitStops(w)
    BY <2>2, <2>10 DEF SubmitStops, IdleSubmit
  <2> QED BY <1>4, <2>1, <2>3, <2>4, <2>5, <2>6, <2>7, <2>8, <2>9, <2>10
          DEF Submission
<1>5. ASSUME NEW d \in Disputes, DisputeRuns(d) PROVE AmountOnward(q)
  <2> USE <1>0 DEF ledgerVars, paid
  <2>1. CASE DisputeOpen(d) \/ DisputeClose(d)
    BY <2>1 DEF DisputeOpen, DisputeClose
  <2>2. ASSUME NEW r \in Refunds, NEW a \in Amounts, DisputeRefund(d, r, a)
        PROVE  AmountOnward(q)
    BY <2>2 DEF DisputeRefund, Approves, Fresh
  <2> QED BY <1>5, <2>1, <2>2 DEF DisputeRuns
<1> QED BY <1>2, <1>3, <1>4, <1>5 DEF RefundsNext
-----------------------------------------------------------------------------
(* The order in which the payments were made. *)
LEMMA PaidStep ==
  ASSUME AllocTyped, PaidInOrder, RefundsNext
  PROVE  /\ paidAt' \in [Payments -> Nat]
         /\ PaidInOrder'
         /\ \A p \in Payments : Bound(p) <= Bound(p)'
<1>0. /\ paidAt \in [Payments -> Nat]
      /\ IsFiniteSet(Collected) /\ Cardinality(Collected) \in Nat
  BY FS_Subset, FS_CardinalityType, RefundFacts DEF AllocTyped, Collected
<1>1. ASSUME NEW p \in Payments, NEW m \in Methods[p], Collect(p, m)
      PROVE  /\ paidAt' \in [Payments -> Nat]
             /\ PaidInOrder'
             /\ \A q \in Payments : Bound(q) <= Bound(q)'
  <2> DEFINE n == Cardinality(Collected)
  <2>1. paidAt[p] = 0 /\ paidAt' = [paidAt EXCEPT ![p] = 1 + n]
    BY <1>1 DEF Collect, Collected
  <2>2. Collected' = Collected \cup {p} /\ p \notin Collected
    <3>1. n \in Nat
      BY <1>0
    <3> HIDE DEF n
    <3> QED BY <1>0, <2>1, <3>1 DEF Collected
  <2>3. Cardinality(Collected)' = n + 1
    BY <1>0, <2>2, FS_AddElement
  <2>4. n \in Nat /\ \A q \in Payments : paidAt[q] \in Nat /\ paidAt[q] <= n
    BY <1>0 DEF PaidInOrder
  <2> HIDE DEF n
  <2>5. \A q \in Payments : paidAt'[q] = IF q = p THEN 1 + n ELSE paidAt[q]
    BY <1>0, <2>1
  <2>6. PaidInOrder'
    BY <2>3, <2>4, <2>5 DEF PaidInOrder
  <2>7. \A q \in Payments : Bound(q) <= Bound(q)'
    BY <2>1, <2>5, RefundFacts DEF Bound
  <2> QED BY <1>0, <2>1, <2>4, <2>6, <2>7
<1>2. CASE UNCHANGED paidAt
  BY <1>0, <1>2, RefundFacts DEF PaidInOrder, Collected, Bound
<1>3. ASSUME NEW r \in Refunds, RefundRuns(r) PROVE UNCHANGED paidAt
  BY <1>3 DEF RefundRuns, RequestCheck, RequestCreate, RejectLoad, RejectSave,
              Approve, ConfirmLoad, ConfirmSettle, ConfirmMark, ConfirmDone,
              ConfirmStops, apart, paid
<1>4. ASSUME NEW w \in Submitters, Submission(w) PROVE UNCHANGED paidAt
  BY <1>4 DEF Submission, SubmitLoad, OpLoad, OpSave, OpAnswer, SubmitMark,
              SubmitSettle, SubmitManual, SubmitDisputes, SubmitStops, untouched,
              paid
<1>5. ASSUME NEW d \in Disputes, DisputeRuns(d) PROVE UNCHANGED paidAt
  BY <1>5 DEF DisputeRuns, DisputeOpen, DisputeClose, DisputeRefund, paid
<1> QED BY <1>1, <1>2, <1>3, <1>4, <1>5 DEF RefundsNext

(* An approval takes its amount from what is left of the payments.         *)
LEMMA ApprovalStep ==
  ASSUME AllocInv, NEW r \in Refunds, Approves(r)
  PROVE  /\ alloc' \in [Refunds -> [Payments -> Nat]]
         /\ PaymentsCover'
         /\ SumFunction(alloc'[r]) = refund'[r].amount
         /\ \A q \in Refunds \ {r} : alloc'[q] = alloc[q]
<1> DEFINE a == refund'[r].amount
<1>1. /\ a \in Nat /\ a <= Net(Payments) /\ paidAt' = paidAt
      /\ alloc' = [alloc EXCEPT ![r] = share(a)]
  BY RefundFacts DEF Approves, Allocate, share
<1>2. /\ share(a) \in [Payments -> Nat]
      /\ \A p \in Payments : share(a)[p] = Share(p, a)
      /\ alloc \in [Refunds -> [Payments -> Nat]]
  BY <1>1, ShareFacts DEF share, AllocInv, AllocTyped
<1>3. /\ alloc' \in [Refunds -> [Payments -> Nat]] /\ alloc'[r] = share(a)
      /\ \A q \in Refunds \ {r} : alloc'[q] = alloc[q]
  BY <1>1, <1>2
<1>4. Sum(share(a), Payments) = a
  BY <1>1, ShareSum
<1>5. SumFunction(alloc'[r]) = a
  <2>1. DOMAIN share(a) = Payments
    BY DEF share
  <2> QED BY <1>3, <1>4, <2>1 DEF SumFunction, Sum
<1>6. PaymentsCover'
  <2> SUFFICES ASSUME NEW p \in Payments PROVE RefundedAmount(p)' <= Bound(p)'
    BY DEF PaymentsCover
  <2> DEFINE f == [q \in Refunds |-> alloc[q][p]]
             g == [q \in Refunds |-> alloc'[q][p]]
  <2>1. RefundedAmount(p) = Sum(f, Refunds) /\ RefundedAmount(p)' = Sum(g, Refunds)
    BY DEF RefundedAmount, Sum, SumFunction
  <2>2. \A q \in Refunds : f[q] \in Nat /\ g[q] \in Nat
    BY <1>2, <1>3
  <2>3. \A q \in Refunds \ {r} : g[q] = f[q]
    BY <1>3
  <2>4. f[r] = 0 /\ g[r] = Share(p, a)
    BY <1>2, <1>3 DEF Approves, AllocInv
  <2> HIDE DEF f, g
  <2>5. Sum(g, Refunds) = Sum(f, Refunds) + g[r] - f[r]
    <3>1. IsFiniteSet(Refunds) /\ \A q \in Refunds : f[q] \in Int /\ g[q] \in Int
      BY <2>2, RefundFacts
    <3> QED BY <2>3, <3>1, SumChange
  <2>6. Share(p, a) \in Nat /\ Share(p, a) <= NetOf(p)
    BY <1>1, ShareFacts
  <2>7. /\ NetOf(p) = Bound(p) - RefundedAmount(p) /\ Bound(p)' = Bound(p)
        /\ RefundedAmount(p) \in Nat /\ Bound(p) \in Nat
    BY <1>1, NetFacts, RefundFacts DEF Bound
  <2> HIDE DEF a
  <2> QED BY <2>1, <2>4, <2>5, <2>6, <2>7
<1> QED BY <1>3, <1>5, <1>6

LEMMA AllocInvStep ==
  ASSUME RefundsInv, AllocInv, [RefundsNext]_allVars
  PROVE  AllocInv'
<1>1. CASE RefundsNext
  <2>1. alloc' = alloc \/ \E r \in Refunds : Approves(r)
    BY <1>1, AllocStep DEF AllocInv
  <2>2. \A q \in Refunds : Onward(q) /\ AmountOnward(q)
    BY <1>1, OnwardStep, AmountStep DEF AllocInv
  <2>3. /\ paidAt' \in [Payments -> Nat] /\ PaidInOrder'
        /\ \A p \in Payments : Bound(p) <= Bound(p)'
    BY <1>1, PaidStep DEF AllocInv
  <2>4. AmountsKnown'
    <3>1. ASSUME NEW q \in Refunds, q \in rejecting' PROVE refund'[q].status # "none"
      <4>1. CASE q \in rejecting
        BY <2>2, <4>1 DEF AmountOnward, AllocInv, AmountsKnown
      <4>2. CASE q \notin rejecting
        <5>1. RejectLoad(q)
          <6>1. ASSUME NEW r \in Refunds, RefundRuns(r) PROVE RejectLoad(q)
            BY <3>1, <4>2, <6>1
               DEF RefundRuns, RequestCheck, RequestCreate, RejectLoad, RejectSave,
                   Approve, ConfirmLoad, ConfirmSettle, ConfirmMark, ConfirmDone,
                   ConfirmStops, apart
          <6>2. ASSUME NEW w \in Submitters, Submission(w) PROVE FALSE
            BY <3>1, <4>2, <6>2
               DEF Submission, SubmitLoad, OpLoad, OpSave, OpAnswer, SubmitMark,
                   SubmitSettle, SubmitManual, SubmitDisputes, SubmitStops, untouched
          <6>3. ASSUME NEW d \in Disputes, DisputeRuns(d) PROVE FALSE
            BY <3>1, <4>2, <6>3
               DEF DisputeRuns, DisputeOpen, DisputeClose, DisputeRefund
          <6> QED BY <1>1, <3>1, <4>2, <6>1, <6>2, <6>3 DEF RefundsNext, Collect
        <5> QED BY <5>1 DEF RejectLoad
      <4> QED BY <4>1, <4>2
    <3> QED BY <2>2, <3>1 DEF AmountsKnown, AmountOnward
  <2>5. CASE alloc' = alloc
    <3>1. AllocTyped'
      BY <2>3, <2>5 DEF AllocTyped, AllocInv
    <3>2. PaymentsCover'
      <4> SUFFICES ASSUME NEW p \in Payments PROVE RefundedAmount(p)' <= Bound(p)'
        BY DEF PaymentsCover
      <4>1. RefundedAmount(p)' = RefundedAmount(p)
        BY <2>5 DEF RefundedAmount
      <4>2. RefundedAmount(p) \in Nat /\ RefundedAmount(p) <= Bound(p)
        BY NetFacts DEF AllocInv, PaymentsCover
      <4>3. Bound(p) \in Nat /\ Bound(p)' \in Nat /\ Bound(p) <= Bound(p)'
        BY <2>3, RefundFacts DEF Bound
      <4> QED BY <4>1, <4>2, <4>3
    <3>3. ASSUME NEW q \in Refunds, Fresh(q)'
          PROVE  \A p \in Payments : alloc'[q][p] = 0
      BY <2>2, <2>5, <3>3 DEF Onward, AllocInv
    <3>4. ASSUME NEW q \in Refunds, Approved(q)'
          PROVE  ~Fresh(q)' /\ SumFunction(alloc'[q]) = refund'[q].amount
      <4>1. CASE Approved(q)
        <5>1. ~Fresh(q) /\ SumFunction(alloc[q]) = refund[q].amount
          BY <4>1 DEF AllocInv
        <5> QED BY <2>2, <2>5, <5>1 DEF Onward, AmountOnward
      <4>2. CASE Approves(q)
        <5>1. SumFunction(alloc'[q]) = refund'[q].amount
          BY <4>2, ApprovalStep
        <5> QED BY <4>2, <5>1 DEF Approves
      <4> QED BY <2>2, <3>4, <4>1, <4>2 DEF AmountOnward
    <3> QED BY <2>3, <2>4, <3>1, <3>2, <3>3, <3>4 DEF AllocInv
  <2>6. ASSUME NEW r \in Refunds, Approves(r) PROVE AllocInv'
    <3>1. /\ alloc' \in [Refunds -> [Payments -> Nat]] /\ PaymentsCover'
          /\ SumFunction(alloc'[r]) = refund'[r].amount
          /\ \A q \in Refunds \ {r} : alloc'[q] = alloc[q]
      BY <2>6, ApprovalStep
    <3>2. AllocTyped'
      BY <2>3, <3>1 DEF AllocTyped
    <3>3. ASSUME NEW q \in Refunds, Fresh(q)'
          PROVE  \A p \in Payments : alloc'[q][p] = 0
      <4>1. q # r
        BY <2>6, <3>3 DEF Approves
      <4> QED BY <2>2, <3>1, <3>3, <4>1 DEF Onward, AllocInv
    <3>4. ASSUME NEW q \in Refunds, Approved(q)'
          PROVE  ~Fresh(q)' /\ SumFunction(alloc'[q]) = refund'[q].amount
      <4>1. CASE q = r
        BY <2>6, <3>1, <4>1 DEF Approves
      <4>2. CASE Approved(q) /\ q # r
        <5>1. ~Fresh(q) /\ SumFunction(alloc[q]) = refund[q].amount
          BY <4>2 DEF AllocInv
        <5> QED BY <2>2, <3>1, <4>2, <5>1 DEF Onward, AmountOnward
      <4>3. CASE Approves(q) /\ q # r
        <5>1. SumFunction(alloc'[q]) = refund'[q].amount
          BY <4>3, ApprovalStep
        <5> QED BY <4>3, <5>1 DEF Approves
      <4> QED BY <2>2, <3>4, <4>1, <4>2, <4>3 DEF AmountOnward
    <3> QED BY <2>3, <2>4, <3>1, <3>2, <3>3, <3>4 DEF AllocInv
  <2> QED BY <2>1, <2>5, <2>6
<1>2. CASE UNCHANGED allVars
  <2>1. /\ alloc' = alloc /\ paidAt' = paidAt /\ refund' = refund
        /\ rejecting' = rejecting /\ posted' = posted
        /\ confirming' = confirming /\ submit' = submit
    BY <1>2 DEF allVars, refundVars, paid, ledgerVars
  <2> QED BY <2>1 DEF AllocInv, AllocTyped, PaidInOrder, AmountsKnown,
                      PaymentsCover, RefundedAmount, Bound, Collected, Fresh, Approved
<1> QED BY <1>1, <1>2
-----------------------------------------------------------------------------
(* What a step does to the host's ledger: nothing, the credit of a payment *)
(* that is made, or the debit of an approved refund.                       *)
Credits(p) ==
  /\ paidAt[p] = 0 /\ paidAt'[p] > 0 /\ Credit(p, Collects[p])
  /\ \A q \in Payments \ {p} : paidAt'[q] = paidAt[q]
Debits(r) ==
  /\ refund'[r].amount \in Amounts /\ Debit(r, refund'[r].amount)
  /\ paidAt' = paidAt

LEMMA LedgerMoves ==
  ASSUME RefundsInv, AllocInv, RefundsNext
  PROVE  \/ UNCHANGED <<ledgerVars, paidAt>>
         \/ \E p \in Payments : Credits(p)
         \/ \E r \in Refunds : Debits(r)
<1>0. /\ refund \in [Refunds -> RefundRecords] /\ paidAt \in [Payments -> Nat]
      /\ \A q \in Refunds : AmountOnward(q)
  BY AmountStep DEF RefundsInv, RecordsSound, AllocInv, AllocTyped
<1>1. ASSUME NEW p \in Payments, NEW m \in Methods[p], Collect(p, m)
      PROVE  Credits(p)
  <2>1. IsFiniteSet({q \in Payments : paidAt[q] > 0})
    BY FS_Subset, RefundFacts
  <2>2. Cardinality({q \in Payments : paidAt[q] > 0}) \in Nat
    BY <2>1, FS_CardinalityType
  <2> DEFINE n == Cardinality({q \in Payments : paidAt[q] > 0})
  <2>3. paidAt[p] = 0 /\ paidAt' = [paidAt EXCEPT ![p] = 1 + n]
    BY <1>1 DEF Collect
  <2>4. n \in Nat /\ Credit(p, Collects[p])
    BY <1>1, <2>2 DEF Collect
  <2> HIDE DEF n
  <2> QED BY <1>0, <2>3, <2>4 DEF Credits
<1>2. ASSUME NEW r \in Refunds, Settle(r), paidAt' = paidAt,
             refund[r].status # "none"
      PROVE  UNCHANGED <<ledgerVars, paidAt>> \/ Debits(r)
  <2>1. /\ refund'[r].amount = refund[r].amount
        /\ refund'[r].amount \in Amounts
    BY <1>0, <1>2, SettleFacts DEF RefundRecords, AllocInv, AmountsKnown
  <2> QED BY <1>2, <2>1 DEF Settle, Debits
<1>3. ASSUME NEW r \in Refunds, RefundRuns(r)
      PROVE  UNCHANGED <<ledgerVars, paidAt>> \/ Debits(r)
  <2>1. CASE Approve(r)
    <3>1. CASE Debit(r, refund[r].amount)
      <4>1. PICK s \in {"provider_pending", "manual_refund_required", "completed"} :
              refund' = [refund EXCEPT ![r].status = s]
        BY <2>1 DEF Approve
      <4>2. refund'[r].amount = refund[r].amount /\ refund[r].amount \in Amounts
        BY <1>0, <2>1, <4>1 DEF RefundRecords, Approve, AllocInv, AmountsKnown
      <4> QED BY <2>1, <3>1, <4>2 DEF Debits, Approve, paid
    <3> QED BY <2>1, <3>1 DEF Approve, paid
  <2>2. CASE ConfirmSettle(r)
    <3>1. paidAt' = paidAt
      BY <2>2 DEF ConfirmSettle, apart, paid
    <3> QED BY <1>2, <2>2, <3>1 DEF ConfirmSettle, CanSettle
  <2> QED BY <1>3, <2>1, <2>2
          DEF RefundRuns, RequestCheck, RequestCreate, RejectLoad, RejectSave,
              ConfirmLoad, ConfirmMark, ConfirmDone, ConfirmStops, apart, paid
<1>4. ASSUME NEW w \in Submitters, Submission(w)
      PROVE  UNCHANGED <<ledgerVars, paidAt>> \/ \E r \in Refunds : Debits(r)
  <2>1. CASE SubmitSettle(w)
    <3>1. submit[w].refund \in Refunds
      BY <2>1 DEF SubmitSettle, RefundsInv, SubmitTrue, SubmissionSound
    <3>2. paidAt' = paidAt
      BY <2>1 DEF SubmitSettle, untouched, paid
    <3> QED BY <1>2, <2>1, <3>1, <3>2 DEF SubmitSettle, CanSettle
  <2> QED BY <1>4, <2>1
          DEF Submission, SubmitLoad, OpLoad, OpSave, OpAnswer, SubmitMark,
              SubmitManual, SubmitDisputes, SubmitStops, untouched, paid
<1>5. ASSUME NEW d \in Disputes, DisputeRuns(d)
      PROVE  UNCHANGED <<ledgerVars, paidAt>>
  BY <1>5 DEF DisputeRuns, DisputeOpen, DisputeClose, DisputeRefund, paid
<1> QED BY <1>1, <1>3, <1>4, <1>5 DEF RefundsNext

(* The ledger's sums are those of the payments and of the debited refunds. *)
DebitOf(r) == IF DebitKey(r) \in posted THEN refund[r].amount ELSE 0
CreditsMatch == total["payment"] = SumFunction([p \in Payments |-> Bound(p)])
SumsMatch == DebitsMatch /\ CreditsMatch

LEMMA SumFacts ==
  /\ DebitsMatch <=>
       total["refund"] = Sum([r \in Refunds |-> DebitOf(r)], Refunds)
  /\ CreditsMatch <=>
       total["payment"] = Sum([p \in Payments |-> Bound(p)], Payments)
<1> QED BY DEF DebitsMatch, CreditsMatch, DebitOf, Sum, SumFunction

LEMMA SumsMatchStep ==
  ASSUME RefundsInv, AllocInv, LedgerTypeOK, SumsMatch, [RefundsNext]_allVars
  PROVE  SumsMatch'
<1> DEFINE f == [r \in Refunds |-> DebitOf(r)]
           g == [r \in Refunds |-> DebitOf(r)']
           b == [p \in Payments |-> Bound(p)]
           c == [p \in Payments |-> Bound(p)']
<1>0. /\ total["refund"] = Sum(f, Refunds) /\ total["payment"] = Sum(b, Payments)
      /\ total["refund"] \in Nat /\ total["payment"] \in Nat
      /\ "refund" \in EntryKinds /\ "payment" \in EntryKinds
      /\ IsFiniteSet(Refunds) /\ IsFiniteSet(Payments)
  BY SumFacts, RefundFacts DEF SumsMatch, LedgerTypeOK, EntryKinds
<1>1. SUFFICES /\ total'["refund"] = Sum(g, Refunds)
               /\ total'["payment"] = Sum(c, Payments)
  BY DEF SumsMatch, DebitsMatch, CreditsMatch, DebitOf, Sum, SumFunction
<1>2. CASE RefundsNext
  <2>0. \A q \in Refunds : /\ DebitKey(q) \in posted =>
                                refund'[q].amount = refund[q].amount
                           /\ DebitOf(q) \in Int
    BY <1>2, AmountStep, RefundFacts
       DEF AmountOnward, RefundsInv, DebitApproved, Fresh, AllocInv, AmountsKnown,
           DebitOf
  <2>1. \A p \in Payments : Bound(p) \in Int /\ Bound(p)' \in Int
    BY RefundFacts DEF Bound
  <2>2. CASE UNCHANGED <<ledgerVars, paidAt>>
    <3>1. \A q \in Refunds : g[q] = f[q]
      BY <2>0, <2>2 DEF DebitOf, ledgerVars
    <3>2. \A p \in Payments : c[p] = b[p]
      BY <2>2 DEF Bound
    <3>3. total' = total
      BY <2>2 DEF ledgerVars
    <3> HIDE DEF f, g, b, c
    <3>4. Sum(g, Refunds) = Sum(f, Refunds) /\ Sum(c, Payments) = Sum(b, Payments)
      BY <1>0, <3>1, <3>2, SumAgree
    <3> QED BY <1>0, <3>3, <3>4
  <2>3. ASSUME NEW p \in Payments, Credits(p)
        PROVE  /\ total'["refund"] = Sum(g, Refunds)
               /\ total'["payment"] = Sum(c, Payments)
    <3>1. /\ total'["payment"] = total["payment"] + Collects[p]
          /\ total'["refund"] = total["refund"] /\ Collects[p] \in Nat
      BY <1>0, <2>3, EnteredFacts, RefundFacts DEF Credits, Credit
    <3>2. \A q \in Refunds : g[q] = f[q]
      BY <2>0, <2>3, KeysApart DEF Credits, Credit, DebitOf
    <3>3. \A q \in Payments \ {p} : c[q] = b[q]
      BY <2>3 DEF Credits, Bound
    <3>4. b[p] = 0 /\ c[p] = Collects[p]
      BY <2>3 DEF Credits, Bound
    <3>5. \A q \in Payments : b[q] \in Int /\ c[q] \in Int
      BY <2>1
    <3> HIDE DEF f, g, b, c
    <3>6. Sum(g, Refunds) = Sum(f, Refunds)
      BY <1>0, <3>2, SumAgree
    <3>7. Sum(c, Payments) = Sum(b, Payments) + c[p] - b[p]
      BY <1>0, <3>3, <3>5, SumChange
    <3> QED BY <1>0, <3>1, <3>4, <3>6, <3>7
  <2>4. ASSUME NEW r \in Refunds, Debits(r)
        PROVE  /\ total'["refund"] = Sum(g, Refunds)
               /\ total'["payment"] = Sum(c, Payments)
    <3> DEFINE a == refund'[r].amount
    <3>0. a \in Nat
      BY <2>4, RefundFacts DEF Debits
    <3>1. /\ total'["refund"] = total["refund"] + a
          /\ total'["payment"] = total["payment"]
      BY <1>0, <2>4, <3>0, EnteredFacts DEF Debits, Debit
    <3>2. \A q \in Payments : c[q] = b[q]
      BY <2>4 DEF Debits, Bound
    <3>3. \A q \in Refunds \ {r} : g[q] = f[q]
      BY <2>0, <2>4, KeysApart DEF Debits, Debit, DebitOf
    <3>4. f[r] = 0 /\ g[r] = a
      BY <2>4 DEF Debits, Debit, DebitOf
    <3>5. \A q \in Refunds : f[q] \in Int /\ g[q] \in Int
      BY <2>0, <3>0, <3>3, <3>4
    <3> HIDE DEF f, g, b, c, a
    <3>6. Sum(c, Payments) = Sum(b, Payments)
      BY <1>0, <3>2, SumAgree
    <3>7. Sum(g, Refunds) = Sum(f, Refunds) + g[r] - f[r]
      BY <1>0, <3>3, <3>5, SumChange
    <3> QED BY <1>0, <3>0, <3>1, <3>4, <3>6, <3>7
  <2> HIDE DEF f, g, b, c
  <2> QED BY <1>2, <2>2, <2>3, <2>4, LedgerMoves
<1>3. CASE UNCHANGED allVars
  <2>1. g = f /\ c = b /\ total' = total
    BY <1>3 DEF allVars, refundVars, paid, ledgerVars, DebitOf, Bound
  <2> QED BY <1>0, <2>1
<1> HIDE DEF f, g, b, c
<1> QED BY <1>2, <1>3
-----------------------------------------------------------------------------
(* No host is debited more than was collected: what is debited was taken   *)
(* from payments, and no payment gives more than it brought.               *)
DebitsCovered == total["refund"] <= total["payment"]

LEMMA Covered == AllocInv /\ SumsMatch => DebitsCovered
<1> SUFFICES ASSUME AllocInv, SumsMatch PROVE DebitsCovered
  OBVIOUS
<1> DEFINE f == [r \in Refunds |-> DebitOf(r)]
           row == [r \in Refunds |-> Sum(alloc[r], Payments)]
           col == [p \in Payments |-> Sum([r \in Refunds |-> alloc[r][p]], Refunds)]
           b == [p \in Payments |-> Bound(p)]
<1>0. /\ total["refund"] = Sum(f, Refunds) /\ total["payment"] = Sum(b, Payments)
      /\ IsFiniteSet(Refunds) /\ IsFiniteSet(Payments)
      /\ \A r \in Refunds, p \in Payments : alloc[r][p] \in Nat
  BY SumFacts, RefundFacts DEF SumsMatch, AllocInv, AllocTyped
<1>1. \A r \in Refunds : row[r] \in Nat
  BY <1>0, SumNat
<1>2. \A r \in Refunds : f[r] \in Int /\ row[r] \in Int /\ f[r] <= row[r]
  <2> SUFFICES ASSUME NEW r \in Refunds PROVE f[r] \in Int /\ f[r] <= row[r]
    BY <1>1
  <2>1. CASE DebitKey(r) \in posted
    <3>1. /\ SumFunction(alloc[r]) = refund[r].amount /\ refund[r].amount \in Nat
          /\ f[r] = refund[r].amount
      BY <2>1, RefundFacts DEF AllocInv, Approved, Fresh, AmountsKnown, DebitOf
    <3>2. SumFunction(alloc[r]) = row[r]
      <4>1. DOMAIN alloc[r] = Payments
        BY DEF AllocInv, AllocTyped
      <4> QED BY <4>1 DEF SumFunction, Sum
    <3> HIDE DEF f, row
    <3> QED BY <3>1, <3>2
  <2>2. CASE DebitKey(r) \notin posted
    <3>1. f[r] = 0
      BY <2>2 DEF DebitOf
    <3> HIDE DEF f, row
    <3> QED BY <1>1, <3>1
  <2> QED BY <2>1, <2>2
<1>3. \A p \in Payments : col[p] = RefundedAmount(p)
  BY DEF RefundedAmount, Sum, SumFunction
<1>4. \A p \in Payments : col[p] \in Int /\ b[p] \in Int /\ col[p] <= b[p]
  <2>1. \A p \in Payments : /\ RefundedAmount(p) \in Nat /\ b[p] \in Nat
                            /\ RefundedAmount(p) <= b[p]
    BY NetFacts, RefundFacts DEF AllocInv, PaymentsCover, Bound
  <2> HIDE DEF col, b
  <2> QED BY <1>3, <2>1
<1>5. Sum(row, Refunds) = Sum(col, Payments)
  <2>1. \A r \in Refunds, p \in Payments : alloc[r][p] \in Int
    BY <1>0
  <2> QED BY <1>0, <2>1, SumExchange
<1> HIDE DEF f, row, col, b
<1>6. Sum(f, Refunds) <= Sum(row, Refunds)
  BY <1>0, <1>2, SumOrder
<1>7. Sum(col, Payments) <= Sum(b, Payments)
  BY <1>0, <1>4, SumOrder
<1>8. /\ Sum(f, Refunds) \in Int /\ Sum(row, Refunds) \in Int
      /\ Sum(b, Payments) \in Int
  BY <1>0, <1>2, <1>4, SumType
<1> QED BY <1>0, <1>5, <1>6, <1>7, <1>8 DEF DebitsCovered

(* Every step of a refund is a step of the host's ledger, or none.         *)
LEMMA LedgerSteps ==
  ASSUME RefundsInv, AllocInv, LedgerTypeOK, DebitsCovered', [RefundsNext]_allVars
  PROVE  [LedgerNext]_ledgerVars
<1>1. CASE UNCHANGED allVars
  BY <1>1 DEF allVars
<1>2. CASE UNCHANGED <<ledgerVars, paidAt>>
  BY <1>2
<1>3. ASSUME NEW p \in Payments, Credits(p) PROVE LedgerNext
  BY <1>3, RefundFacts DEF Credits, LedgerNext
<1>4. ASSUME NEW r \in Refunds, Debits(r) PROVE LedgerNext
  <2> DEFINE a == refund'[r].amount
  <2>1. a \in Amounts /\ a \in Nat /\ Debit(r, a)
    BY <1>4, RefundFacts DEF Debits
  <2> HIDE DEF a
  <2>2. /\ total'["refund"] = total["refund"] + a
        /\ total'["payment"] = total["payment"]
    BY <2>1, EnteredFacts DEF Debit, EntryKinds
  <2>3. total["refund"] + a <= total["payment"]
    BY <2>2 DEF DebitsCovered
  <2> QED BY <2>1, <2>3 DEF LedgerNext
<1> QED BY <1>1, <1>2, <1>3, <1>4, LedgerMoves

BookInv == RefundsInv /\ AllocInv /\ SumsMatch /\ LedgerTypeOK

LEMMA BookInvInit == RefundsInit => AllocInv /\ SumsMatch
<1> SUFFICES ASSUME RefundsInit PROVE AllocInv /\ SumsMatch
  OBVIOUS
<1>1. ASSUME NEW p \in Payments PROVE RefundedAmount(p) = 0
  <2> DEFINE f == [r \in Refunds |-> alloc[r][p]]
  <2>1. \A r \in Refunds : f[r] = 0
    BY DEF RefundsInit
  <2>2. RefundedAmount(p) = Sum(f, Refunds)
    BY DEF RefundedAmount, Sum, SumFunction
  <2> HIDE DEF f
  <2> QED BY <2>1, <2>2, SumZero, RefundFacts
<1>2. Collected = {} /\ \A p \in Payments : Bound(p) = 0
  BY DEF RefundsInit, Collected, Bound
<1>3. PaidInOrder /\ AllocTyped /\ AmountsKnown /\ PaymentsCover
  BY <1>1, <1>2, FS_EmptySet
     DEF RefundsInit, PaidInOrder, AllocTyped, AmountsKnown, PaymentsCover
<1>4. AllocInv
  BY <1>3 DEF AllocInv, RefundsInit, LedgerInit, Fresh, Approved, Allocated,
              IdleSubmit
<1>5. SumsMatch
  <2> DEFINE f == [r \in Refunds |-> DebitOf(r)]
             b == [p \in Payments |-> Bound(p)]
  <2>1. \A r \in Refunds : f[r] = 0
    BY DEF RefundsInit, LedgerInit, DebitOf
  <2>2. \A p \in Payments : b[p] = 0
    BY <1>2
  <2>3. total["refund"] = 0 /\ total["payment"] = 0
    BY DEF RefundsInit, LedgerInit, EntryKinds
  <2> HIDE DEF f, b
  <2>4. Sum(f, Refunds) = 0 /\ Sum(b, Payments) = 0
    BY <2>1, <2>2, SumZero, RefundFacts
  <2> QED BY <2>3, <2>4, SumFacts DEF SumsMatch, f, b
<1> QED BY <1>4, <1>5

LEMMA BookInvCorrect ==
  RefundsSpec => [](BookInv /\ DebitsCovered) /\ [][LedgerNext]_ledgerVars
<1>1. RefundsInit => AllocInv /\ SumsMatch /\ LedgerTypeOK
  BY BookInvInit, LedgerTypeInit DEF RefundsInit
<1>2. RefundsInv /\ AllocInv /\ [RefundsNext]_allVars => AllocInv'
  BY AllocInvStep
<1>3. /\ RefundsInv /\ AllocInv /\ LedgerTypeOK /\ SumsMatch
      /\ [RefundsNext]_allVars
      => SumsMatch'
  BY SumsMatchStep
<1>4. AllocInv /\ SumsMatch => DebitsCovered
  BY Covered
<1>5. /\ RefundsInv /\ AllocInv /\ LedgerTypeOK /\ DebitsCovered'
      /\ [RefundsNext]_allVars
      => [LedgerNext]_ledgerVars
  BY LedgerSteps
<1>6. LedgerTypeOK /\ [LedgerNext]_ledgerVars => LedgerTypeOK'
  BY LedgerTypeStep
<1>7. RefundsInv /\ AllocInv /\ SumsMatch /\ LedgerTypeOK <=> BookInv
  BY DEF BookInv
<1> QED BY <1>1, <1>2, <1>3, <1>4, <1>5, <1>6, <1>7, RefundsInvCorrect, PTL
        DEF RefundsSpec

(* However many refunds are requested, approved and submitted at once for  *)
(* the same money, no payment gives more than it brought, an approved      *)
(* refund takes exactly its amount, oldest payment first, and the ledger's *)
(* debits are the amounts of the refunds it names.                         *)
THEOREM AmountsAlwaysAgree == RefundsSpec => []AmountsAgree
<1>1. BookInv => AmountsAgree
  BY DEF BookInv, AllocInv, PaymentsCover, Bound, Approved, SumsMatch,
         AmountsAgree, NotOverRefunded
<1> QED BY <1>1, BookInvCorrect, PTL

(* The refunds of a booking are a behaviour of the host's ledger: no step  *)
(* debits what was not collected, so all that is proved of the ledger      *)
(* holds with them.                                                        *)
THEOREM RefundsImplementLedger == RefundsSpec => LedgerBehaves
<1>1. RefundsInit => LedgerInit
  BY DEF RefundsInit
<1> QED BY <1>1, BookInvCorrect, PTL DEF RefundsSpec, LedgerBehaves, LedgerSpec
-----------------------------------------------------------------------------
(* A dispute waits for a refund that somebody has approved.                *)
DisputeStatuses == {"none", "open", "rejected", "resolved", "refund_pending",
                    "resolution_failed"}
DisputeInv ==
  /\ dispute \in [Disputes -> [status : DisputeStatuses,
                               refund : Refunds \cup {Nothing}]]
  /\ \A d \in Disputes : dispute[d].status = "refund_pending" =>
       /\ dispute[d].refund \in Refunds /\ ~Fresh(dispute[d].refund)
       /\ DebitKey(dispute[d].refund) \notin posted

LEMMA BecomeFacts ==
  ASSUME DisputeInv, NEW s \in DisputeStatuses, DisputesBecome(s)
  PROVE  /\ dispute' \in [Disputes -> [status : DisputeStatuses,
                                       refund : Refunds \cup {Nothing}]]
         /\ s # "refund_pending" =>
              \A d \in Disputes : dispute'[d].status # "refund_pending"
<1> QED BY DEF DisputeInv, DisputesBecome

LEMMA DisputeStep ==
  ASSUME RefundsInv, DisputeInv, [RefundsNext]_allVars
  PROVE  DisputeInv'
<1>0. \A q \in Refunds : DebitKey(q) \in posted => ~Fresh(q)
  BY DEF RefundsInv, DebitApproved
<1>1. ASSUME dispute' = dispute,
             \/ posted' = posted
             \/ \E r \in Refunds : Fresh(r) /\ posted' = posted \cup {DebitKey(r)}
             \/ \E p \in Payments : posted' = posted \cup {CreditKey(p)},
             \A q \in Refunds : ~Fresh(q) => ~Fresh(q)'
      PROVE  DisputeInv'
  BY <1>1, KeysApart DEF DisputeInv, Fresh
<1>2. ASSUME NEW s \in {"resolved", "resolution_failed"}, DisputesBecome(s)
      PROVE  DisputeInv'
  BY <1>2, BecomeFacts DEF DisputeInv, DisputeStatuses
<1>3. CASE RefundsNext
  <2>0. \A q \in Refunds : ~Fresh(q) => ~Fresh(q)'
    BY <1>3, OnwardStep DEF Onward
  <2>1. ASSUME NEW p \in Payments, NEW m \in Methods[p], Collect(p, m)
        PROVE  DisputeInv'
    BY <1>1, <2>0, <2>1 DEF Collect, Credit
  <2>2. ASSUME NEW r \in Refunds, RefundRuns(r) PROVE DisputeInv'
    <3>1. CASE Approve(r)
      <4>1. Fresh(r) /\ dispute' = dispute
        BY <3>1 DEF Approve, Fresh
      <4>2. posted' = posted \/ posted' = posted \cup {DebitKey(r)}
        BY <3>1 DEF Approve, Debit, ledgerVars
      <4> QED BY <1>1, <2>0, <4>1, <4>2
    <3>2. CASE ConfirmSettle(r)
      <4>1. Settle(r) \/ UNCHANGED <<refund, dispute, ledgerVars>>
        BY <3>2 DEF ConfirmSettle
      <4>2. CASE Settle(r)
        BY <1>2, <4>2 DEF Settle
      <4>3. CASE UNCHANGED <<refund, dispute, ledgerVars>>
        BY <1>1, <2>0, <4>3 DEF ledgerVars
      <4> QED BY <4>1, <4>2, <4>3
    <3>3. CASE dispute' = dispute /\ posted' = posted
      BY <1>1, <2>0, <3>3
    <3> QED BY <2>2, <3>1, <3>2, <3>3
            DEF RefundRuns, RequestCheck, RequestCreate, RejectLoad, RejectSave,
                ConfirmLoad, ConfirmMark, ConfirmDone, ConfirmStops, ledgerVars
  <2>3. ASSUME NEW w \in Submitters, Submission(w) PROVE DisputeInv'
    <3>1. CASE SubmitSettle(w)
      BY <1>2, <3>1 DEF SubmitSettle, Settle
    <3>2. CASE SubmitDisputes(w)
      BY <1>1, <1>2, <2>0, <3>2 DEF SubmitDisputes, ledgerVars
    <3>3. CASE dispute' = dispute /\ posted' = posted
      BY <1>1, <2>0, <3>3
    <3> QED BY <2>3, <3>1, <3>2, <3>3
            DEF Submission, SubmitLoad, OpLoad, OpSave, OpAnswer, SubmitMark,
                SubmitManual, SubmitStops, ledgerVars
  <2>4. ASSUME NEW d \in Disputes, DisputeRuns(d) PROVE DisputeInv'
    <3>1. CASE DisputeOpen(d) \/ DisputeClose(d)
      <4>1. PICK s \in {"open", "rejected", "resolved"} :
              dispute' = [dispute EXCEPT ![d].status = s]
        BY <3>1 DEF DisputeOpen, DisputeClose
      <4>2. posted' = posted /\ refund' = refund
        BY <3>1 DEF DisputeOpen, DisputeClose, ledgerVars
      <4> QED BY <4>1, <4>2 DEF DisputeInv, DisputeStatuses, Fresh
    <3>2. ASSUME NEW r \in Refunds, NEW a \in Amounts, DisputeRefund(d, r, a)
          PROVE  DisputeInv'
      <4>1. /\ dispute' = [dispute EXCEPT ![d] =
                             [status |-> "refund_pending", refund |-> r]]
            /\ posted' = posted /\ Fresh(r) /\ DebitKey(r) \notin posted
        BY <1>0, <3>2 DEF DisputeRefund, Fresh, ledgerVars
      <4>2. ~Fresh(r)'
        BY <3>2 DEF DisputeRefund, Fresh, RefundsInv, RecordsSound
      <4> QED BY <2>0, <4>1, <4>2 DEF DisputeInv, DisputeStatuses
    <3> QED BY <2>4, <3>1, <3>2 DEF DisputeRuns
  <2> QED BY <1>3, <2>1, <2>2, <2>3, <2>4 DEF RefundsNext
<1>4. CASE UNCHANGED allVars
  BY <1>4 DEF allVars, refundVars, ledgerVars, DisputeInv, Fresh
<1> QED BY <1>3, <1>4

(* No dispute goes on waiting for a refund that the host has been debited  *)
(* for, whoever settled it and however many disputes and refunds there are.*)
THEOREM DisputesAreNotForgotten == RefundsSpec => []DisputeNotForgotten
<1>1. RefundsInit => DisputeInv
  BY DEF RefundsInit, DisputeInv, DisputeStatuses
<1>2. RefundsInv /\ DisputeInv /\ [RefundsNext]_allVars => DisputeInv'
  BY DisputeStep
<1>3. DisputeInv => DisputeNotForgotten
  BY DEF DisputeInv, DisputeNotForgotten
<1> QED BY <1>1, <1>2, <1>3, RefundsInvCorrect, PTL DEF RefundsSpec

(***************************************************************************)
(* Settlement, whatever events are about the same session.                 *)
(***************************************************************************)

InboxRecords ==
  [status : {"none", "processing", "lapsed", "processed", "failed"},
   by : Workers \cup {None}]
HookRecords ==
  [pc : {"idle", "claimed", "loaded", "closed"},
   event : Events \cup {None},
   seen : {"none", "opening", "open", "expired", "failed", "succeeded"}]

Exists(s) == session[s].status \notin {"none", "opening"}

(* Whatever has an amount has one of those the ledger accepts. *)
SessionsSound ==
  /\ session \in [Sessions -> SessionRecords]
  /\ \A s \in Sessions :
       session[s].status # "none" => session[s].amount \in Amounts
PaymentsSound ==
  /\ pay \in [Payments -> PaymentRecords]
  /\ \A p \in Payments : pay[p].status # "none" => pay[p].amount \in Amounts

(* A handler that has loaded a session will still find it. *)
HooksSound ==
  /\ hook \in [Workers -> HookRecords]
  /\ \A w \in Workers : hook[w].pc # "idle" => hook[w].event \in Events
  /\ \A w \in Workers : hook[w].pc \in {"loaded", "closed"} =>
       Exists(SessionOf[hook[w].event])

(* The record of a session's payment is written once, by its settlement. *)
SessionPaid ==
  /\ SucceededRecorded
  /\ \A s \in Sessions : pay[s].status \notin {"offered", "pending", "failed"}

RestSound ==
  /\ bstatus \in BookingStatuses /\ price \in Nat /\ quote \in Nat
  /\ inbox \in [Events -> InboxRecords]

SettlementInv ==
  /\ LedgerTypeOK /\ RestSound /\ SessionsSound /\ PaymentsSound /\ HooksSound
  /\ SessionPaid

LEMMA SettlementFacts ==
  /\ Payments = Sessions \cup Manuals /\ Sessions \cap Manuals = {}
  /\ SessionOf \in [Events -> Sessions]
  /\ Price \in Nat /\ Quotes \subseteq Nat /\ None \notin Workers
  /\ \A a \in Amounts : a \in Nat /\ a > 0
<1> QED BY SettlementConstants, LedgerConstants

USE SettlementFacts

(* The five actions that write a session: none disappears, and one that   *)
(* has succeeded keeps that status.                                       *)
LEMMA SessionStep ==
  ASSUME SettlementInv, SettlementNext
  PROVE  /\ SessionsSound'
         /\ \A s \in Sessions : Exists(s) => Exists(s)'
         /\ \A s \in Sessions : session[s].status = "succeeded" =>
              session'[s].status = "succeeded"
<1> DEFINE Goal == /\ SessionsSound'
                   /\ \A s \in Sessions : Exists(s) => Exists(s)'
                   /\ \A s \in Sessions : session[s].status = "succeeded" =>
                        session'[s].status = "succeeded"
<1> USE DEF SettlementInv, SessionsSound, Exists
<1>1. CASE session' = session
  BY <1>1
<1>2. ASSUME NEW s \in Sessions, NEW a \in Amounts, CheckoutQuote(s, a)
      PROVE  Goal
  BY <1>2 DEF CheckoutQuote, SessionRecords
<1>3. ASSUME NEW s \in Sessions, CheckoutCreate(s)
      PROVE  Goal
  BY <1>3 DEF CheckoutCreate, SessionRecords
<1>4. ASSUME NEW s \in Sessions, Exists(s), NEW st \in {"expired", "failed", "succeeded"},
             st = "succeeded" \/ session[s].status # "succeeded",
             session' = [session EXCEPT ![s].status = st]
      PROVE  Goal
  BY <1>4 DEF SessionRecords
<1>5. ASSUME NEW w \in Workers, HookExpires(w)
      PROVE  Goal
  BY <1>1, <1>4, <1>5 DEF HookExpires, HooksSound
<1>6. ASSUME NEW w \in Workers, HookFailsSession(w)
      PROVE  Goal
  BY <1>1, <1>4, <1>6 DEF HookFailsSession, HooksSound
<1>7. ASSUME NEW w \in Workers, HookSettles(w)
      PROVE  Goal
  BY <1>1, <1>4, <1>7 DEF HookSettles, SettleNew, HooksSound
<1>8. SettlementNext =>
        \/ session' = session
        \/ \E s \in Sessions : (\E a \in Amounts : CheckoutQuote(s, a)) \/ CheckoutCreate(s)
        \/ \E w \in Workers : HookExpires(w) \/ HookFailsSession(w) \/ HookSettles(w)
  <2>1. BookingMoves \/ CancelFailsTransfers \/ RescheduleSaves => session' = session
    BY DEF BookingMoves, CancelFailsTransfers, RescheduleSaves
  <2>2. \A q : RescheduleQuotes(q) => session' = session
    BY DEF RescheduleQuotes
  <2>3. \A m, a : TransferQuote(m, a) \/ TransferReport(m) \/ TransferVerify(m)
                    \/ TransferReject(m) => session' = session
    BY DEF TransferQuote, TransferReport, TransferVerify, TransferReject
  <2>4. \A w, e : HookClaim(w, e) \/ HookLoad(w) \/ HookMarks(w) \/ HookFails(w)
                    \/ HookDies(w) \/ LeaseLapses(e) => session' = session
    BY DEF HookClaim, HookLoad, HookMarks, HookFails, HookDies, LeaseLapses
  <2>5. UNCHANGED moneyVars => session' = session
    BY DEF moneyVars
  <2> QED BY <2>1, <2>2, <2>3, <2>4, <2>5 DEF SettlementNext, HookRuns
<1> QED BY <1>1, <1>2, <1>3, <1>5, <1>6, <1>7, <1>8

(* EnsurePayment adds the record of a session that has none. *)
LEMMA EnsurePaymentStep ==
  ASSUME SessionsSound, PaymentsSound, NEW s \in Sessions, Exists(s),
         NEW st \in {"successful"} \cup NonRevenue, EnsurePayment(s, st)
  PROVE  /\ PaymentsSound'
         /\ pay'[s].status # "none"
         /\ \A p \in Payments : p # s \/ pay[p].status # "none" => pay'[p] = pay[p]
         /\ pay'[s] = pay[s] \/ pay'[s].status = st
<1> DEFINE new == [status |-> st, amount |-> session[s].amount]
<1>1. session[s].amount \in Amounts /\ new \in PaymentRecords
  BY DEF SessionsSound, Exists, SessionRecords, PaymentRecords, NonRevenue
<1>2. s \in Payments /\ st # "none"
  BY DEF NonRevenue
<1>3. CASE pay[s].status = "none"
  <2>1. pay' = [pay EXCEPT ![s] = new]
    BY <1>3 DEF EnsurePayment
  <2>2. pay' \in [Payments -> PaymentRecords]
    BY <1>1, <1>2, <2>1 DEF PaymentsSound
  <2>3. new.status = st /\ new.amount \in Amounts
    BY <1>1
  <2> HIDE DEF new
  <2> QED BY <1>2, <1>3, <2>1, <2>2, <2>3 DEF PaymentsSound
<1>4. CASE pay[s].status # "none"
  BY <1>2, <1>4 DEF EnsurePayment, PaymentsSound
<1> QED BY <1>3, <1>4

(* What a settlement does to the documents, in one line per document. *)
LEMMA SettleStep ==
  ASSUME SettlementInv, NEW w \in Workers, HookSettles(w)
  PROVE  \E s \in Sessions, st \in {"successful"} \cup NonRevenue :
           /\ Exists(s)
           /\ EnsurePayment(s, st)
           /\ session' = [session EXCEPT ![s].status = "succeeded"]
           /\ UNCHANGED ledgerVars \/ Credit(s, session[s].amount)
           /\ bstatus' = bstatus \/ bstatus' = "payment_under_review"
<1> DEFINE s == SessionOf[hook[w].event]
<1>1. s \in Sessions /\ Exists(s)
  BY DEF HookSettles, SettlementInv, HooksSound
<1>2. CASE session[s].status = "succeeded"
  <2>1. /\ EnsureCredited(s) /\ session' = session /\ bstatus' = bstatus
    BY <1>2 DEF HookSettles
  <2>2. session = [session EXCEPT ![s].status = "succeeded"]
    BY <1>1, <1>2 DEF SettlementInv, SessionsSound, SessionRecords
  <2> HIDE DEF s
  <2>3. "successful" \in {"successful"} \cup NonRevenue
    OBVIOUS
  <2> QED BY <1>1, <2>1, <2>2, <2>3 DEF EnsureCredited
<1>3. CASE session[s].status # "succeeded"
  <2>1. SettleNew(s)
    BY <1>3 DEF HookSettles
  <2> HIDE DEF s
  <2>2. PICK st \in {"successful"} \cup NonRevenue :
          /\ EnsurePayment(s, st)
          /\ UNCHANGED ledgerVars \/ Credit(s, session[s].amount)
          /\ bstatus' = bstatus \/ bstatus' = "payment_under_review"
    BY <2>1 DEF SettleNew, EnsureCredited, NonRevenue
  <2> QED BY <1>1, <2>1, <2>2 DEF SettleNew
<1> QED BY <1>2, <1>3

(* Payment records stay sound and, once a session's is written, as it is. *)
LEMMA PaymentStep ==
  ASSUME SettlementInv, SettlementNext
  PROVE  PaymentsSound' /\ SessionPaid'
<1> USE DEF SettlementInv
<1>0. /\ pay \in [Payments -> PaymentRecords]
      /\ \A p \in Payments : pay[p].status # "none" => pay[p].amount \in Amounts
  BY DEF PaymentsSound
<1>1. ASSUME PaymentsSound', \A s \in Sessions : pay'[s] = pay[s],
             \A s \in Sessions : session'[s].status = "succeeded" <=>
               session[s].status = "succeeded"
      PROVE  PaymentsSound' /\ SessionPaid'
  BY <1>1 DEF SessionPaid, SucceededRecorded
<1>2. CASE CancelFailsTransfers
  <2> DEFINE to(p) == IF pay[p].status = "pending"
                        THEN [pay[p] EXCEPT !.status = "failed"] ELSE pay[p]
  <2>1. pay' = [p \in Payments |-> to(p)] /\ session' = session
    BY <1>2 DEF CancelFailsTransfers
  <2>2. \A p \in Payments : /\ to(p) \in PaymentRecords
                            /\ to(p).status # "none" => to(p).amount \in Amounts
                            /\ pay[p].status # "pending" => to(p) = pay[p]
    BY <1>0 DEF PaymentRecords
  <2> HIDE DEF to
  <2>3. PaymentsSound' /\ \A s \in Sessions : pay'[s] = pay[s]
    BY <2>1, <2>2 DEF PaymentsSound, SessionPaid
  <2> QED BY <1>1, <2>1, <2>3
<1>3. ASSUME NEW m \in Manuals, NEW a \in Amounts,
             TransferQuote(m, a) \/ TransferReport(m) \/ TransferVerify(m)
               \/ TransferReject(m)
      PROVE  PaymentsSound' /\ SessionPaid'
  <2>1. session' = session
    BY <1>3 DEF TransferQuote, TransferReport, TransferVerify, TransferReject
  <2>2. PaymentsSound' /\ \A p \in Payments \ {m} : pay'[p] = pay[p]
    <3>1. CASE TransferQuote(m, a)
      BY <1>0, <3>1 DEF TransferQuote, PaymentsSound, PaymentRecords
    <3>2. CASE TransferReport(m)
      BY <1>0, <3>2 DEF TransferReport, PaymentsSound, PaymentRecords
    <3>3. CASE TransferVerify(m)
      BY <1>0, <3>3 DEF TransferVerify, PaymentsSound, PaymentRecords
    <3>4. CASE TransferReject(m)
      BY <1>0, <3>4 DEF TransferReject, PaymentsSound, PaymentRecords
    <3> QED BY <1>3, <3>1, <3>2, <3>3, <3>4
  <2> QED BY <1>1, <2>1, <2>2
<1>4. ASSUME NEW w \in Workers, HookSettles(w)
      PROVE  PaymentsSound' /\ SessionPaid'
  <2>1. PICK s \in Sessions, st \in {"successful"} \cup NonRevenue :
          /\ Exists(s)
          /\ EnsurePayment(s, st)
          /\ session' = [session EXCEPT ![s].status = "succeeded"]
    BY <1>4, SettleStep
  <2>2. /\ PaymentsSound'
        /\ pay'[s].status # "none"
        /\ \A p \in Payments : p # s \/ pay[p].status # "none" => pay'[p] = pay[p]
        /\ pay'[s] = pay[s] \/ pay'[s].status = st
    BY <2>1, EnsurePaymentStep
  <2>3. session'[s].status = "succeeded"
          /\ \A t \in Sessions \ {s} : session'[t] = session[t]
    BY <2>1 DEF SessionsSound, SessionRecords
  <2> QED BY <2>2, <2>3 DEF SessionPaid, SucceededRecorded, NonRevenue
<1>5. ASSUME pay' = pay,
             \A s \in Sessions : session'[s].status = "succeeded" <=>
               session[s].status = "succeeded"
      PROVE  PaymentsSound' /\ SessionPaid'
  BY <1>1, <1>5 DEF PaymentsSound
<1>6. ASSUME NEW s \in Sessions,
             CheckoutCreate(s) \/ \E a \in Amounts : CheckoutQuote(s, a)
      PROVE  PaymentsSound' /\ SessionPaid'
  <2>1. pay' = pay
    BY <1>6 DEF CheckoutCreate, CheckoutQuote
  <2>2. \A t \in Sessions : session'[t].status = "succeeded" <=>
               session[t].status = "succeeded"
    BY <1>6 DEF CheckoutCreate, CheckoutQuote, SessionsSound, SessionRecords
  <2> QED BY <1>5, <2>1, <2>2
<1>7. ASSUME NEW w \in Workers, HookExpires(w) \/ HookFailsSession(w)
      PROVE  PaymentsSound' /\ SessionPaid'
  <2>1. pay' = pay
    BY <1>7 DEF HookExpires, HookFailsSession
  <2>2. PICK s \in Sessions, st \in {"expired", "failed"} :
          session' = IF session[s].status = "succeeded" THEN session
                     ELSE [session EXCEPT ![s].status = st]
    BY <1>7 DEF HookExpires, HookFailsSession, HooksSound
  <2>3. \A t \in Sessions : session'[t].status = "succeeded" <=>
               session[t].status = "succeeded"
    BY <2>2 DEF SessionsSound, SessionRecords
  <2> QED BY <1>5, <2>1, <2>3
<1>8. SettlementNext =>
        \/ pay' = pay /\ session' = session
        \/ CancelFailsTransfers
        \/ \E s \in Sessions : CheckoutCreate(s) \/ \E a \in Amounts : CheckoutQuote(s, a)
        \/ \E m \in Manuals : \/ \E a \in Amounts : TransferQuote(m, a)
                              \/ TransferReport(m) \/ TransferVerify(m)
                              \/ TransferReject(m)
        \/ \E w \in Workers : HookExpires(w) \/ HookFailsSession(w) \/ HookSettles(w)
  <2>1. BookingMoves \/ RescheduleSaves => pay' = pay /\ session' = session
    BY DEF BookingMoves, RescheduleSaves
  <2>2. \A q : RescheduleQuotes(q) => pay' = pay /\ session' = session
    BY DEF RescheduleQuotes
  <2>3. \A w, e : HookClaim(w, e) \/ HookLoad(w) \/ HookMarks(w) \/ HookFails(w)
                    \/ HookDies(w) \/ LeaseLapses(e) => pay' = pay /\ session' = session
    BY DEF HookClaim, HookLoad, HookMarks, HookFails, HookDies, LeaseLapses
  <2>4. UNCHANGED moneyVars => pay' = pay /\ session' = session
    BY DEF moneyVars
  <2> QED BY <2>1, <2>2, <2>3, <2>4 DEF SettlementNext, HookRuns
<1>9. ASSUME NEW m \in Manuals, TransferReport(m) \/ TransferVerify(m) \/ TransferReject(m)
      PROVE  PaymentsSound' /\ SessionPaid'
  <2>1. \E a \in Amounts : TRUE
    BY <1>9, <1>0 DEF TransferReport, TransferVerify, TransferReject
  <2> QED BY <1>3, <1>9, <2>1
<1> QED BY <1>2, <1>3, <1>4, <1>5, <1>6, <1>7, <1>8, <1>9

(* Every step of the settlement is a step of the ledger or leaves it       *)
(* alone.                                                                  *)
LEMMA LedgerStep ==
  ASSUME SettlementInv, [SettlementNext]_settlementVars
  PROVE  [LedgerNext]_ledgerVars
<1> USE DEF SettlementInv
<1>1. ASSUME NEW w \in Workers, HookSettles(w)
      PROVE  [LedgerNext]_ledgerVars
  <2>1. PICK s \in Sessions : /\ Exists(s)
                              /\ UNCHANGED ledgerVars \/ Credit(s, session[s].amount)
    BY <1>1, SettleStep
  <2>2. s \in Payments /\ session[s].amount \in Amounts
    BY <2>1 DEF SessionsSound, Exists
  <2> QED BY <2>1, <2>2 DEF LedgerNext
<1>2. ASSUME NEW m \in Manuals, TransferVerify(m)
      PROVE  [LedgerNext]_ledgerVars
  <2>1. m \in Payments /\ pay[m].amount \in Amounts
    BY <1>2 DEF TransferVerify, PaymentsSound
  <2> QED BY <1>2, <2>1 DEF TransferVerify, LedgerNext
<1>3. PayoutNext => LedgerNext
  BY DEF LedgerNext
<1>4. CASE UNCHANGED settlementVars
  BY <1>4 DEF settlementVars
<1>5. SettlementNext =>
        \/ UNCHANGED ledgerVars \/ PayoutNext
        \/ \E w \in Workers : HookSettles(w)
        \/ \E m \in Manuals : TransferVerify(m)
  <2>1. BookingMoves \/ CancelFailsTransfers \/ RescheduleSaves => UNCHANGED ledgerVars
    BY DEF BookingMoves, CancelFailsTransfers, RescheduleSaves
  <2>2. \A q : RescheduleQuotes(q) => UNCHANGED ledgerVars
    BY DEF RescheduleQuotes
  <2>3. \A s, a : CheckoutQuote(s, a) \/ CheckoutCreate(s) => UNCHANGED ledgerVars
    BY DEF CheckoutQuote, CheckoutCreate
  <2>4. \A m, a : TransferQuote(m, a) \/ TransferReport(m) \/ TransferReject(m)
                    => UNCHANGED ledgerVars
    BY DEF TransferQuote, TransferReport, TransferReject
  <2>5. \A w, e : HookClaim(w, e) \/ HookLoad(w) \/ HookMarks(w) \/ HookFails(w)
                    \/ HookDies(w) \/ HookExpires(w) \/ HookFailsSession(w)
                    \/ LeaseLapses(e) => UNCHANGED ledgerVars
    BY DEF HookClaim, HookLoad, HookMarks, HookFails, HookDies, HookExpires,
           HookFailsSession, LeaseLapses
  <2> QED BY <2>1, <2>2, <2>3, <2>4, <2>5 DEF SettlementNext, HookRuns
<1> QED BY <1>1, <1>2, <1>3, <1>4, <1>5

(* The handlers: each goes on with the event it has claimed. *)
LEMMA HookStep ==
  ASSUME SettlementInv, SettlementNext
  PROVE  HooksSound'
<1> USE DEF SettlementInv
<1>0. /\ hook \in [Workers -> HookRecords]
      /\ \A w \in Workers : hook[w].pc # "idle" => hook[w].event \in Events
      /\ \A w \in Workers : hook[w].pc \in {"loaded", "closed"} =>
           Exists(SessionOf[hook[w].event])
      /\ \A s \in Sessions : Exists(s) => Exists(s)'
      /\ IdleHook \in HookRecords /\ IdleHook.pc = "idle"
  BY SessionStep DEF HooksSound, IdleHook, HookRecords
<1>1. ASSUME NEW w \in Workers, NEW h \in HookRecords,
             hook' = [hook EXCEPT ![w] = h],
             h.pc # "idle" => h.event \in Events,
             h.pc \in {"loaded", "closed"} => Exists(SessionOf[h.event])
      PROVE  HooksSound'
  <2>1. hook' \in [Workers -> HookRecords]
    BY <1>0, <1>1
  <2>2. \A v \in Workers : hook'[v] = IF v = w THEN h ELSE hook[v]
    BY <1>0, <1>1
  <2>3. \A e \in Events : SessionOf[e] \in Sessions
    OBVIOUS
  <2> QED BY <1>0, <1>1, <2>1, <2>2, <2>3 DEF HooksSound
<1>2. CASE hook' = hook
  <2>1. \A e \in Events : SessionOf[e] \in Sessions
    OBVIOUS
  <2> QED BY <1>0, <1>2, <2>1 DEF HooksSound
<1>3. ASSUME NEW w \in Workers, NEW e \in Events, HookClaim(w, e)
      PROVE  HooksSound'
  <2> DEFINE h == [IdleHook EXCEPT !.pc = "claimed", !.event = e]
  <2>1. h \in HookRecords /\ h.pc = "claimed" /\ h.event = e
    BY DEF IdleHook, HookRecords
  <2>2. hook' = [hook EXCEPT ![w] = h]
    BY <1>3 DEF HookClaim
  <2> HIDE DEF h
  <2> QED BY <1>1, <2>1, <2>2
<1>4. ASSUME NEW w \in Workers, HookLoad(w)
      PROVE  HooksSound'
  <2> DEFINE s == SessionOf[hook[w].event]
             h == [hook[w] EXCEPT !.pc = "loaded", !.seen = session[s].status]
  <2>1. hook[w].event \in Events /\ s \in Sessions /\ Exists(s)
    BY <1>0, <1>4 DEF HookLoad, Exists
  <2>2. session[s].status \in {"none", "opening", "open", "expired", "failed", "succeeded"}
    BY <2>1 DEF SessionsSound, SessionRecords
  <2>3. h \in HookRecords /\ h.event = hook[w].event
    BY <1>0, <2>2 DEF HookRecords
  <2>4. hook' = [hook EXCEPT ![w] = h]
    <3>1. hook' = [hook EXCEPT ![w].pc = "loaded", ![w].seen = session[s].status]
      BY <1>4 DEF HookLoad
    <3> HIDE DEF s
    <3> QED BY <1>0, <3>1 DEF HookRecords
  <2> HIDE DEF h
  <2> QED BY <1>1, <2>1, <2>3, <2>4
<1>5. ASSUME NEW w \in Workers, HookExpires(w)
      PROVE  HooksSound'
  <2> DEFINE h == [hook[w] EXCEPT !.pc = "closed"]
  <2>1. h \in HookRecords /\ h.event = hook[w].event
    BY <1>0 DEF HookRecords
  <2>2. hook' = [hook EXCEPT ![w] = h] /\ hook[w].pc = "loaded"
    BY <1>5 DEF HookExpires
  <2> HIDE DEF h
  <2> QED BY <1>0, <1>1, <2>1, <2>2
<1>6. ASSUME NEW w \in Workers, Ended(w)
      PROVE  HooksSound'
  BY <1>0, <1>1, <1>6 DEF Ended
<1>7. SettlementNext =>
        \/ hook' = hook
        \/ \E w \in Workers : Ended(w) \/ HookLoad(w) \/ HookExpires(w)
        \/ \E w \in Workers, e \in Events : HookClaim(w, e)
  <2>1. BookingMoves \/ CancelFailsTransfers \/ RescheduleSaves => hook' = hook
    BY DEF BookingMoves, CancelFailsTransfers, RescheduleSaves, requests
  <2>2. \A q : RescheduleQuotes(q) => hook' = hook
    BY DEF RescheduleQuotes
  <2>3. \A s, a : CheckoutQuote(s, a) \/ CheckoutCreate(s) => hook' = hook
    BY DEF CheckoutQuote, CheckoutCreate, requests
  <2>4. \A m, a : TransferQuote(m, a) \/ TransferReport(m) \/ TransferReject(m)
                    \/ TransferVerify(m) => hook' = hook
    BY DEF TransferQuote, TransferReport, TransferReject, TransferVerify, requests
  <2>5. \A e : LeaseLapses(e) => hook' = hook
    BY DEF LeaseLapses, requests
  <2>6. \A w : HookMarks(w) \/ HookFails(w) \/ HookDies(w) \/ HookFailsSession(w)
                 \/ HookSettles(w) => Ended(w)
    BY DEF HookMarks, HookFails, HookDies, HookFailsSession, HookSettles
  <2>7. UNCHANGED moneyVars => hook' = hook
    BY DEF moneyVars
  <2> QED BY <2>1, <2>2, <2>3, <2>4, <2>5, <2>6, <2>7 DEF SettlementNext, HookRuns
<1> QED BY <1>2, <1>3, <1>4, <1>5, <1>6, <1>7

(* The inbox changes one event at a time, and never one that is processed. *)
LEMMA InboxStep ==
  ASSUME SettlementInv, SettlementNext
  PROVE  /\ inbox' \in [Events -> InboxRecords]
         /\ \A e \in Events : inbox[e].status = "processed" => inbox'[e] = inbox[e]
<1> DEFINE Goal == /\ inbox' \in [Events -> InboxRecords]
                   /\ \A e \in Events :
                        inbox[e].status = "processed" => inbox'[e] = inbox[e]
<1>0. inbox \in [Events -> InboxRecords]
  BY DEF SettlementInv, RestSound
<1>1. CASE inbox' = inbox
  BY <1>0, <1>1
<1>2. ASSUME NEW w \in Workers, NEW e \in Events, HookClaim(w, e)
      PROVE  Goal
  BY <1>0, <1>2 DEF HookClaim, InboxRecords
<1>3. ASSUME NEW e \in Events, LeaseLapses(e)
      PROVE  Goal
  BY <1>0, <1>3 DEF LeaseLapses, InboxRecords
<1>4. ASSUME NEW w \in Workers, hook[w].pc # "idle", Owns(w),
             NEW st \in {"processed", "failed"}, Marked(w, st)
      PROVE  Goal
  <2>1. hook[w].event \in Events
    BY <1>4 DEF SettlementInv, HooksSound
  <2> QED BY <1>0, <1>4, <2>1 DEF Owns, Marked, InboxRecords
<1>5. ASSUME NEW w \in Workers, HookMarks(w) \/ HookFails(w) \/ HookFailsSession(w)
                                  \/ HookSettles(w)
      PROVE  Goal
  <2>1. CASE HookMarks(w)
    BY <1>4, <2>1 DEF HookMarks
  <2>2. CASE HookFails(w)
    BY <1>1, <1>4, <2>2 DEF HookFails
  <2>3. CASE HookFailsSession(w)
    BY <1>4, <2>3 DEF HookFailsSession
  <2>4. CASE HookSettles(w)
    <3>1. hook[w].pc # "idle" /\ Owns(w) /\ Marked(w, "processed")
      BY <2>4 DEF HookSettles
    <3> QED BY <1>4, <3>1
  <2> QED BY <1>5, <2>1, <2>2, <2>3, <2>4
<1>6. SettlementNext =>
        \/ inbox' = inbox
        \/ \E e \in Events : LeaseLapses(e) \/ \E w \in Workers : HookClaim(w, e)
        \/ \E w \in Workers : HookMarks(w) \/ HookFails(w) \/ HookFailsSession(w)
                                \/ HookSettles(w)
  <2>1. BookingMoves \/ CancelFailsTransfers \/ RescheduleSaves => inbox' = inbox
    BY DEF BookingMoves, CancelFailsTransfers, RescheduleSaves
  <2>2. \A q : RescheduleQuotes(q) => inbox' = inbox
    BY DEF RescheduleQuotes
  <2>3. \A s, a : CheckoutQuote(s, a) \/ CheckoutCreate(s) => inbox' = inbox
    BY DEF CheckoutQuote, CheckoutCreate
  <2>4. \A m, a : TransferQuote(m, a) \/ TransferReport(m) \/ TransferReject(m)
                    \/ TransferVerify(m) => inbox' = inbox
    BY DEF TransferQuote, TransferReport, TransferReject, TransferVerify
  <2>5. \A w : HookLoad(w) \/ HookDies(w) \/ HookExpires(w) => inbox' = inbox
    BY DEF HookLoad, HookDies, HookExpires
  <2>6. UNCHANGED moneyVars => inbox' = inbox
    BY DEF moneyVars
  <2> QED BY <2>1, <2>2, <2>3, <2>4, <2>5, <2>6 DEF SettlementNext, HookRuns
<1> QED BY <1>1, <1>2, <1>3, <1>5, <1>6

LEMMA ScalarStep ==
  ASSUME SettlementInv, SettlementNext
  PROVE  bstatus' \in BookingStatuses /\ price' \in Nat /\ quote' \in Nat
<1> USE DEF SettlementInv, RestSound
<1>1. bstatus' \in BookingStatuses
  <2>1. BookingMoves => bstatus' \in BookingStatuses
    BY DEF BookingMoves, BookingStatuses
  <2>2. ASSUME NEW w \in Workers, HookSettles(w) PROVE bstatus' \in BookingStatuses
    BY <2>2, SettleStep DEF BookingStatuses
  <2>3. CancelFailsTransfers \/ RescheduleSaves => bstatus' = bstatus
    BY DEF CancelFailsTransfers, RescheduleSaves
  <2>4. \A q : RescheduleQuotes(q) => bstatus' = bstatus
    BY DEF RescheduleQuotes
  <2>5. \A s, a : CheckoutQuote(s, a) \/ CheckoutCreate(s) => bstatus' = bstatus
    BY DEF CheckoutQuote, CheckoutCreate
  <2>6. \A m, a : TransferQuote(m, a) \/ TransferReport(m) \/ TransferReject(m)
                    \/ TransferVerify(m) => bstatus' = bstatus
    BY DEF TransferQuote, TransferReport, TransferReject, TransferVerify
  <2>7. \A w, e : HookClaim(w, e) \/ HookLoad(w) \/ HookMarks(w) \/ HookFails(w)
                    \/ HookDies(w) \/ HookExpires(w) \/ HookFailsSession(w)
                    \/ LeaseLapses(e) => bstatus' = bstatus
    BY DEF HookClaim, HookLoad, HookMarks, HookFails, HookDies, HookExpires,
           HookFailsSession, LeaseLapses
  <2>8. UNCHANGED moneyVars => bstatus' = bstatus
    BY DEF moneyVars
  <2> QED BY <2>1, <2>2, <2>3, <2>4, <2>5, <2>6, <2>7, <2>8
          DEF SettlementNext, HookRuns
<1>2. price' \in Nat /\ quote' \in Nat
  <2>1. RescheduleSaves => price' \in Nat /\ quote' \in Nat
    BY DEF RescheduleSaves, NoQuote
  <2>2. \A q \in Quotes : RescheduleQuotes(q) => price' \in Nat /\ quote' \in Nat
    BY DEF RescheduleQuotes
  <2>3. BookingMoves \/ CancelFailsTransfers => UNCHANGED <<price, quote>>
    BY DEF BookingMoves, CancelFailsTransfers, requests
  <2>5. \A s, a : CheckoutQuote(s, a) \/ CheckoutCreate(s) => UNCHANGED <<price, quote>>
    BY DEF CheckoutQuote, CheckoutCreate, requests
  <2>6. \A m, a : TransferQuote(m, a) \/ TransferReport(m) \/ TransferReject(m)
                    \/ TransferVerify(m) => UNCHANGED <<price, quote>>
    BY DEF TransferQuote, TransferReport, TransferReject, TransferVerify, requests
  <2>7. \A w, e : HookClaim(w, e) \/ HookLoad(w) \/ HookMarks(w) \/ HookFails(w)
                    \/ HookDies(w) \/ HookExpires(w) \/ HookFailsSession(w)
                    \/ HookSettles(w) \/ LeaseLapses(e) => UNCHANGED <<price, quote>>
    BY DEF HookClaim, HookLoad, HookMarks, HookFails, HookDies, HookExpires,
           HookFailsSession, HookSettles, LeaseLapses, requests
  <2>8. UNCHANGED moneyVars => UNCHANGED <<price, quote>>
    BY DEF moneyVars
  <2> QED BY <2>1, <2>2, <2>3, <2>5, <2>6, <2>7, <2>8 DEF SettlementNext, HookRuns
<1> QED BY <1>1, <1>2

LEMMA SettlementInvStep ==
  ASSUME SettlementInv, [SettlementNext]_settlementVars
  PROVE  SettlementInv'
<1>1. LedgerTypeOK'
  BY LedgerStep, LedgerTypeStep DEF SettlementInv
<1>2. CASE SettlementNext
  <2>1. RestSound'
    BY <1>2, ScalarStep, InboxStep DEF RestSound
  <2> QED BY <1>1, <1>2, <2>1, SessionStep, PaymentStep, HookStep DEF SettlementInv
<1>3. CASE UNCHANGED settlementVars
  BY <1>1, <1>3 DEF settlementVars, moneyVars, SettlementInv, RestSound,
     SessionsSound, PaymentsSound, HooksSound, SessionPaid, SucceededRecorded, Exists
<1> QED BY <1>2, <1>3

LEMMA SettlementInvInit == SettlementInit => SettlementInv
<1> SUFFICES ASSUME SettlementInit PROVE SettlementInv
  OBVIOUS
<1> USE DEF SettlementInit
<1>1. LedgerTypeOK
  BY LedgerTypeInit
<1>2. RestSound
  BY DEF RestSound, BookingStatuses, InboxRecords, NoQuote
<1>3. SessionsSound /\ PaymentsSound
  BY DEF SessionsSound, PaymentsSound, SessionRecords, PaymentRecords
<1>4. HooksSound
  BY DEF HooksSound, HookRecords, IdleHook
<1>5. SessionPaid
  BY DEF SessionPaid, SucceededRecorded
<1> QED BY <1>1, <1>2, <1>3, <1>4, <1>5 DEF SettlementInv

LEMMA SettlementInvHolds == SettlementSpec => []SettlementInv
<1> QED BY SettlementInvInit, SettlementInvStep, PTL DEF SettlementSpec
-----------------------------------------------------------------------------
(* Every document and every handler has its type, and no balance is ever   *)
(* negative, whatever is delivered, repeated, lost or overtaken.           *)
THEOREM SettlementTypeCorrect == SettlementSpec => []SettlementTypeOK
<1>1. SettlementInv => SettlementTypeOK
  BY DEF SettlementInv, RestSound, SessionsSound, PaymentsSound, HooksSound,
         SettlementTypeOK, InboxRecords, HookRecords
<1> QED BY <1>1, SettlementInvHolds, PTL

(* Checkouts, webhooks and transfers use the ledger as HostLedger allows,  *)
(* so what holds of the ledger holds of the whole.                         *)
THEOREM LedgerImplemented == SettlementSpec => ImplementsLedger
<1>1. SettlementInit => LedgerInit
  BY DEF SettlementInit
<1>2. SettlementInv /\ [SettlementNext]_settlementVars => [LedgerNext]_ledgerVars
  BY LedgerStep
<1> QED BY <1>1, <1>2, SettlementInvHolds, PTL
        DEF SettlementSpec, LedgerSpec, ImplementsLedger

(* The host's projection agrees with the ledger under all settlements.     *)
THEOREM SettlementConserves == SettlementSpec => []Conserved
<1> QED BY LedgerImplemented, MoneyConserved, PTL DEF ImplementsLedger

(* A session counts as succeeded exactly if its money is on record: a      *)
(* settlement is never half done, even when several events report it.      *)
THEOREM SucceededIsRecorded == SettlementSpec => []SucceededRecorded
<1>1. SettlementInv => SucceededRecorded
  BY DEF SettlementInv, SessionPaid
<1> QED BY <1>1, SettlementInvHolds, PTL

(* A success is never taken back by an event that arrives later. *)
THEOREM SuccessIsFinal == SettlementSpec => SucceededFinal
<1>1. SettlementInv /\ [SettlementNext]_settlementVars =>
        [\A s \in Sessions : session[s].status = "succeeded" =>
           session'[s].status = "succeeded"]_settlementVars
  BY SessionStep
<1> QED BY <1>1, SettlementInvHolds, PTL DEF SettlementSpec, SucceededFinal

(* A handler that lost its lease cannot reopen a processed event. *)
THEOREM ProcessedIsFinal == SettlementSpec => ProcessedFinal
<1>1. SettlementInv /\ [SettlementNext]_settlementVars =>
        [\A e \in Events : inbox[e].status = "processed" =>
           inbox'[e] = inbox[e]]_settlementVars
  BY InboxStep
<1> QED BY <1>1, SettlementInvHolds, PTL DEF SettlementSpec, ProcessedFinal

(* Together: what has happened to a payment or an event is not undone.     *)
THEOREM OutcomesAreFinal == SettlementSpec => OutcomesFinal
<1> QED BY SuccessIsFinal, ProcessedIsFinal, PTL DEF OutcomesFinal
-----------------------------------------------------------------------------
(* Amounts.  A payment that is settled is not written again; a step makes  *)
(* at most one payment successful, and only below the cap.                 *)
Settled == {"successful"} \cup NonRevenue
Paid(p) == Amount(p, "successful")

(* The record of a session's payment has the amount of the session, and    *)
(* what the ledger has credited is on record.                              *)
AmountsCopied ==
  \A s \in Sessions : pay[s].status # "none" => pay[s].amount = session[s].amount
CreditsKnown ==
  \A p \in Payments : CreditKey(p) \in posted => pay[p].status \in Settled
AmountsInv == SettlementInv /\ AmountsCopied /\ CreditsKnown

Kept ==
  /\ \A p \in Payments : pay[p].status \in Settled => pay'[p] = pay[p]
  /\ \A p \in Payments :
       pay'[p].status = "successful" => pay[p].status = "successful"
  /\ posted' = posted /\ total'["payment"] = total["payment"]

Paying(p) ==
  /\ pay[p].status \notin Settled /\ pay'[p].status = "successful"
  /\ \A q \in Payments \ {p} : pay'[q] = pay[q]
  /\ NetPaid + pay'[p].amount <= price /\ price' = price
  /\ Credit(p, pay'[p].amount)

(* Another event reports a session whose money was not taken as revenue:   *)
(* the ledger is credited all the same.                                    *)
Late(w) ==
  LET s == SessionOf[hook[w].event] IN
  /\ hook[w].pc = "loaded" /\ Owns(w) /\ Outcome[hook[w].event] \in {"paid", "failed"}
  /\ session[s].status = "succeeded" /\ pay' = pay /\ price' = price
  /\ Credit(s, session[s].amount)

LEMMA SessionAmounts ==
  ASSUME SettlementInv, SettlementNext
  PROVE  \A s \in Sessions : session[s].status # "none" =>
           session'[s].amount = session[s].amount
<1> USE DEF SettlementInv, SessionsSound
<1>1. ASSUME NEW s \in Sessions, NEW st, session' = [session EXCEPT ![s].status = st]
      PROVE  \A x \in Sessions : session'[x].amount = session[x].amount
  BY <1>1 DEF SessionRecords
<1>2. ASSUME NEW s \in Sessions, NEW a \in Amounts, CheckoutQuote(s, a)
      PROVE  \A x \in Sessions : session[x].status # "none" =>
               session'[x].amount = session[x].amount
  BY <1>2 DEF CheckoutQuote, SessionRecords
<1>3. ASSUME NEW s \in Sessions, CheckoutCreate(s)
      PROVE  \A x \in Sessions : session'[x].amount = session[x].amount
  BY <1>1, <1>3 DEF CheckoutCreate
<1>4. ASSUME NEW w \in Workers, HookExpires(w) \/ HookFailsSession(w) \/ HookSettles(w)
      PROVE  \A x \in Sessions : session'[x].amount = session[x].amount
  <2>1. SessionOf[hook[w].event] \in Sessions
    BY <1>4 DEF HookExpires, HookFailsSession, HookSettles, HooksSound
  <2>2. \/ session' = session
        \/ \E st : session' = [session EXCEPT ![SessionOf[hook[w].event]].status = st]
    BY <1>4 DEF HookExpires, HookFailsSession, HookSettles, SettleNew
  <2> QED BY <1>1, <2>1, <2>2
<1>5. SettlementNext =>
        \/ session' = session
        \/ \E s \in Sessions : (\E a \in Amounts : CheckoutQuote(s, a)) \/ CheckoutCreate(s)
        \/ \E w \in Workers : HookExpires(w) \/ HookFailsSession(w) \/ HookSettles(w)
  <2>1. BookingMoves \/ CancelFailsTransfers \/ RescheduleSaves => session' = session
    BY DEF BookingMoves, CancelFailsTransfers, RescheduleSaves
  <2>2. \A q : RescheduleQuotes(q) => session' = session
    BY DEF RescheduleQuotes
  <2>3. \A m, a : TransferQuote(m, a) \/ TransferReport(m) \/ TransferVerify(m)
                    \/ TransferReject(m) => session' = session
    BY DEF TransferQuote, TransferReport, TransferVerify, TransferReject
  <2>4. \A w, e : HookClaim(w, e) \/ HookLoad(w) \/ HookMarks(w) \/ HookFails(w)
                    \/ HookDies(w) \/ LeaseLapses(e) => session' = session
    BY DEF HookClaim, HookLoad, HookMarks, HookFails, HookDies, LeaseLapses
  <2>5. UNCHANGED moneyVars => session' = session
    BY DEF moneyVars
  <2> QED BY <2>1, <2>2, <2>3, <2>4, <2>5 DEF SettlementNext, HookRuns
<1> QED BY <1>2, <1>3, <1>4, <1>5

(* The actions that write a payment. *)
LEMMA PayActions ==
  SettlementNext =>
    \/ pay' = pay
    \/ CancelFailsTransfers
    \/ \E m \in Manuals : \/ \E a \in Amounts : TransferQuote(m, a)
                          \/ TransferReport(m) \/ TransferVerify(m)
                          \/ TransferReject(m)
    \/ \E w \in Workers : HookSettles(w)
<1>1. BookingMoves \/ RescheduleSaves => pay' = pay
  BY DEF BookingMoves, RescheduleSaves
<1>2. \A q : RescheduleQuotes(q) => pay' = pay
  BY DEF RescheduleQuotes
<1>3. \A w, e : HookClaim(w, e) \/ HookLoad(w) \/ HookMarks(w) \/ HookFails(w)
                  \/ HookDies(w) \/ LeaseLapses(e) => pay' = pay
  BY DEF HookClaim, HookLoad, HookMarks, HookFails, HookDies, LeaseLapses
<1>4. \A x, a : CheckoutQuote(x, a) \/ CheckoutCreate(x) => pay' = pay
  BY DEF CheckoutQuote, CheckoutCreate
<1>5. \A w : HookExpires(w) \/ HookFailsSession(w) => pay' = pay
  BY DEF HookExpires, HookFailsSession
<1>6. UNCHANGED moneyVars => pay' = pay
  BY DEF moneyVars
<1> QED BY <1>1, <1>2, <1>3, <1>4, <1>5, <1>6 DEF SettlementNext, HookRuns

(* The record of a session's payment is made by a handler of its event. *)
LEMMA RecordedByHook ==
  ASSUME SettlementInv, SettlementNext, NEW s \in Sessions,
         pay[s].status = "none", pay'[s].status # "none"
  PROVE  \E w \in Workers : HookSettles(w) /\ SessionOf[hook[w].event] = s
<1> USE DEF SettlementInv
<1>0. pay \in [Payments -> PaymentRecords] /\ s \in Payments
  BY DEF PaymentsSound
<1>1. ~CancelFailsTransfers
  BY <1>0 DEF CancelFailsTransfers, PaymentRecords
<1>2. \A m \in Manuals : \A a :
        TransferQuote(m, a) \/ TransferReport(m) \/ TransferVerify(m)
          \/ TransferReject(m) => pay'[s] = pay[s]
  BY <1>0 DEF TransferQuote, TransferReport, TransferVerify, TransferReject
<1>3. ASSUME NEW w \in Workers, HookSettles(w), SessionOf[hook[w].event] # s
      PROVE  FALSE
  <2>1. \A t, st : EnsurePayment(t, st) /\ t # s => pay'[s] = pay[s]
    BY <1>0 DEF EnsurePayment
  <2> QED BY <1>3, <2>1 DEF HookSettles, SettleNew, EnsureCredited
<1> QED BY <1>1, <1>2, <1>3, PayActions

(* How the record of a session's payment changes. *)
LEMMA SessionRecordStep ==
  ASSUME SettlementInv, SettlementNext, NEW s \in Sessions, pay'[s].status # "none"
  PROVE  \/ pay[s].status # "none" /\ pay'[s].amount = pay[s].amount
         \/ Exists(s) /\ pay'[s].amount = session[s].amount
<1> USE DEF SettlementInv
<1>0. pay \in [Payments -> PaymentRecords] /\ s \in Payments
  BY DEF PaymentsSound
<1>1. CASE CancelFailsTransfers
  BY <1>0, <1>1 DEF CancelFailsTransfers, PaymentRecords
<1>2. ASSUME NEW m \in Manuals, NEW a,
             TransferQuote(m, a) \/ TransferReport(m) \/ TransferVerify(m)
               \/ TransferReject(m)
      PROVE  pay'[s] = pay[s]
  <2>1. m # s
    OBVIOUS
  <2> QED BY <1>0, <1>2, <2>1
          DEF TransferQuote, TransferReport, TransferVerify, TransferReject
<1>3. ASSUME NEW w \in Workers, HookSettles(w)
      PROVE  \/ pay[s].status # "none" /\ pay'[s].amount = pay[s].amount
             \/ Exists(s) /\ pay'[s].amount = session[s].amount
  <2>1. PICK t \in Sessions, st \in {"successful"} \cup NonRevenue :
          Exists(t) /\ EnsurePayment(t, st)
    BY <1>3, SettleStep
  <2> QED BY <1>0, <2>1 DEF EnsurePayment
<1>4. pay' = pay => pay'[s] = pay[s]
  OBVIOUS
<1> QED BY <1>1, <1>2, <1>3, <1>4, PayActions

(* The three ways in which a step treats the payments. *)
LEMMA PayingStep ==
  ASSUME AmountsInv, SettlementNext
  PROVE  \/ Kept
         \/ \E p \in Payments : Paying(p)
         \/ \E w \in Workers : Late(w)
<1> USE DEF AmountsInv, SettlementInv
<1>0. pay \in [Payments -> PaymentRecords] /\ LedgerTypeOK
  BY DEF PaymentsSound
<1>1. UNCHANGED <<pay, ledgerVars>> => Kept
  BY DEF Kept, ledgerVars
<1>2. CASE CancelFailsTransfers
  BY <1>0, <1>2
     DEF CancelFailsTransfers, Kept, Settled, NonRevenue, ledgerVars, PaymentRecords
<1>3. ASSUME NEW m \in Manuals, NEW a \in Amounts, TransferQuote(m, a) PROVE Kept
  BY <1>0, <1>3 DEF TransferQuote, Kept, Settled, NonRevenue, ledgerVars
<1>4. ASSUME NEW m \in Manuals, TransferReport(m) \/ TransferReject(m) PROVE Kept
  BY <1>0, <1>4 DEF TransferReport, TransferReject, Kept, Settled, NonRevenue,
                    ledgerVars, PaymentRecords
<1>5. ASSUME NEW m \in Manuals, TransferVerify(m) PROVE Paying(m)
  <2>1. /\ pay'[m].status = "successful" /\ pay'[m].amount = pay[m].amount
        /\ \A q \in Payments \ {m} : pay'[q] = pay[q]
    BY <1>0, <1>5 DEF TransferVerify, PaymentRecords
  <2> QED BY <1>5, <2>1 DEF TransferVerify, Paying, Settled, NonRevenue
<1>6. ASSUME NEW w \in Workers, HookSettles(w)
      PROVE  Kept \/ Late(w) \/ \E p \in Payments : Paying(p)
  <2> DEFINE s == SessionOf[hook[w].event]
  <2>0. s \in Sessions /\ s \in Payments /\ Exists(s)
    BY <1>6 DEF HookSettles, HooksSound
  <2>1. CASE session[s].status = "succeeded"
    <3>1. pay[s].status # "none"
      BY <2>0, <2>1 DEF SessionPaid, SucceededRecorded
    <3>2. EnsureCredited(s) /\ price' = price /\ hook[w].pc = "loaded" /\ Owns(w)
            /\ Outcome[hook[w].event] \in {"paid", "failed"}
      BY <1>6, <2>1 DEF HookSettles
    <3>3. pay' = pay
      BY <3>1, <3>2 DEF EnsureCredited, EnsurePayment
    <3> HIDE DEF s
    <3>4. UNCHANGED ledgerVars \/ Credit(s, session[s].amount)
      BY <3>2 DEF EnsureCredited
    <3> QED BY <1>1, <2>1, <3>2, <3>3, <3>4 DEF Late, s
  <2>2. CASE session[s].status # "succeeded"
    <3>1. pay[s].status = "none" /\ CreditKey(s) \notin posted
      BY <2>0, <2>2 DEF SessionPaid, SucceededRecorded, CreditsKnown, Settled, NonRevenue
    <3>2. SettleNew(s) /\ price' = price
      BY <1>6, <2>2 DEF HookSettles
    <3> DEFINE new(st) == [status |-> st, amount |-> session[s].amount]
    <3>3. \A st : EnsurePayment(s, st) => pay' = [pay EXCEPT ![s] = new(st)]
      BY <3>1 DEF EnsurePayment
    <3> HIDE DEF s
    <3>4. ASSUME NEW st \in NonRevenue, EnsurePayment(s, st), UNCHANGED ledgerVars
          PROVE  Kept
      BY <1>0, <2>0, <3>1, <3>3, <3>4 DEF Kept, Settled, NonRevenue, ledgerVars
    <3>5. ASSUME NetPaid + session[s].amount <= price, EnsureCredited(s)
          PROVE  Paying(s)
      <4>1. pay' = [pay EXCEPT ![s] = new("successful")] /\ Credit(s, session[s].amount)
        BY <3>1, <3>3, <3>5 DEF EnsureCredited
      <4>2. /\ pay'[s].status = "successful" /\ pay'[s].amount = session[s].amount
            /\ \A q \in Payments \ {s} : pay'[q] = pay[q]
        BY <1>0, <2>0, <4>1
      <4> QED BY <3>1, <3>2, <3>5, <4>1, <4>2 DEF Paying, Settled, NonRevenue
    <3> QED BY <2>0, <3>2, <3>4, <3>5 DEF SettleNew, NonRevenue
  <2> QED BY <2>1, <2>2
<1>7. PayoutNext /\ UNCHANGED moneyVars => Kept
  <2>1. ASSUME NEW p \in Payouts, NEW a, NEW k \in EntryKinds, k # "payment", Entered(k, a)
        PROVE  total'["payment"] = total["payment"]
    BY <1>0, <2>1 DEF Entered, LedgerTypeOK, EntryKinds
  <2> QED BY <2>1 DEF PayoutNext, RequestPayout, RejectPayout, ApprovePayout,
                      moneyVars, Kept, EntryKinds
<1>8. SettlementNext =>
        \/ UNCHANGED <<pay, ledgerVars>>
        \/ CancelFailsTransfers
        \/ \E m \in Manuals : \/ \E a \in Amounts : TransferQuote(m, a)
                              \/ TransferReport(m) \/ TransferVerify(m)
                              \/ TransferReject(m)
        \/ \E w \in Workers : HookSettles(w)
        \/ PayoutNext /\ UNCHANGED moneyVars
  <2>1. BookingMoves \/ RescheduleSaves => UNCHANGED <<pay, ledgerVars>>
    BY DEF BookingMoves, RescheduleSaves
  <2>2. \A q : RescheduleQuotes(q) => UNCHANGED <<pay, ledgerVars>>
    BY DEF RescheduleQuotes
  <2>3. \A w, e : HookClaim(w, e) \/ HookLoad(w) \/ HookMarks(w) \/ HookFails(w)
                    \/ HookDies(w) \/ LeaseLapses(e) => UNCHANGED <<pay, ledgerVars>>
    BY DEF HookClaim, HookLoad, HookMarks, HookFails, HookDies, LeaseLapses
  <2>4. \A s, a : CheckoutQuote(s, a) \/ CheckoutCreate(s) => UNCHANGED <<pay, ledgerVars>>
    BY DEF CheckoutQuote, CheckoutCreate
  <2>5. \A w : HookExpires(w) \/ HookFailsSession(w) => UNCHANGED <<pay, ledgerVars>>
    BY DEF HookExpires, HookFailsSession
  <2> QED BY <2>1, <2>2, <2>3, <2>4, <2>5 DEF SettlementNext, HookRuns
<1> QED BY <1>1, <1>2, <1>3, <1>4, <1>5, <1>6, <1>7, <1>8

(* What a payment adds to the net amount. *)
LEMMA NetPaidChange ==
  ASSUME PaymentsSound, PaymentsSound', NEW p \in Payments,
         \A q \in Payments \ {p} : Paid(q)' = Paid(q)
  PROVE  /\ NetPaid \in Nat /\ Paid(p) \in Nat /\ Paid(p)' \in Nat
         /\ NetPaid' = NetPaid + Paid(p)' - Paid(p)
<1> DEFINE f == [q \in Payments |-> Paid(q)]
           g == [q \in Payments |-> Paid(q)']
<1>1. \A q \in Payments : Paid(q) \in Nat /\ Paid(q)' \in Nat
  BY DEF PaymentsSound, PaymentRecords, Paid, Amount
<1>2. NetPaid = Sum(f, Payments) /\ NetPaid' = Sum(g, Payments)
  BY DEF NetPaid, Paid, Sum, SumFunction
<1>3. /\ \A q \in Payments : f[q] \in Nat /\ g[q] \in Nat
      /\ f[p] = Paid(p) /\ g[p] = Paid(p)'
      /\ \A q \in Payments \ {p} : g[q] = f[q]
  BY <1>1
<1> HIDE DEF f, g
<1>4. Sum(f, Payments) \in Nat
  BY <1>3, SumNat, LedgerConstants
<1>5. \A q \in Payments : f[q] \in Int /\ g[q] \in Int
  BY <1>3
<1>6. Sum(g, Payments) = Sum(f, Payments) + g[p] - f[p]
  <2>1. IsFiniteSet(Payments)
    BY LedgerConstants
  <2> HIDE SettlementFacts
  <2>2. p \in Payments
    OBVIOUS
  <2> QED BY <1>3, <1>5, <2>1, <2>2, SumChange
<1> QED BY <1>1, <1>2, <1>3, <1>4, <1>6

LEMMA NetPaidSame ==
  ASSUME PaymentsSound, \A q \in Payments : Paid(q)' = Paid(q)
  PROVE  NetPaid' = NetPaid /\ NetPaid \in Nat
<1> DEFINE f == [q \in Payments |-> Paid(q)]
           g == [q \in Payments |-> Paid(q)']
<1>1. f = g
  OBVIOUS
<1>2. NetPaid = Sum(f, Payments) /\ NetPaid' = Sum(g, Payments)
  BY DEF NetPaid, Paid, Sum, SumFunction
<1>3. \A q \in Payments : f[q] \in Nat
  BY DEF PaymentsSound, PaymentRecords, Paid, Amount
<1> HIDE DEF f, g
<1> QED BY <1>1, <1>2, <1>3, SumNat, LedgerConstants

LEMMA KeptSame ==
  ASSUME Kept PROVE \A q \in Payments : Paid(q)' = Paid(q)
<1> QED BY DEF Kept, Settled, Paid, Amount

LEMMA PayingFacts ==
  ASSUME AmountsInv, SettlementNext, NEW p \in Payments, Paying(p)
  PROVE  /\ pay'[p].amount \in Amounts
         /\ NetPaid' = NetPaid + pay'[p].amount /\ NetPaid \in Nat
<1>1. PaymentsSound /\ PaymentsSound'
  BY PaymentStep DEF AmountsInv, SettlementInv
<1>2. /\ Paid(p) = 0 /\ Paid(p)' = pay'[p].amount
      /\ \A q \in Payments \ {p} : Paid(q)' = Paid(q)
  BY DEF Paying, Settled, Paid, Amount
<1>3. pay'[p].amount \in Amounts
  BY <1>1 DEF Paying, PaymentsSound
<1>4. /\ NetPaid \in Nat
      /\ NetPaid' = NetPaid + Paid(p)' - Paid(p)
  BY <1>1, <1>2, NetPaidChange
<1> QED BY <1>2, <1>3, <1>4

LEMMA AmountsInvStep ==
  ASSUME AmountsInv, [SettlementNext]_settlementVars
  PROVE  AmountsInv'
<1> USE DEF AmountsInv
<1>1. CASE UNCHANGED settlementVars
  <2>1. SettlementInv'
    BY SettlementInvStep
  <2> QED BY <1>1, <2>1 DEF settlementVars, moneyVars, ledgerVars, AmountsCopied,
                            CreditsKnown
<1>2. CASE SettlementNext
  <2>1. SettlementInv' /\ SettlementInv
    BY SettlementInvStep
  <2>2. AmountsCopied'
    <3> SUFFICES ASSUME NEW s \in Sessions, pay'[s].status # "none"
                 PROVE  pay'[s].amount = session'[s].amount
      BY DEF AmountsCopied
    <3>1. \/ pay[s].status # "none" /\ pay'[s].amount = pay[s].amount
          \/ Exists(s) /\ pay'[s].amount = session[s].amount
      BY <1>2, SessionRecordStep
    <3>2. pay[s].status # "none" => session[s].status = "succeeded"
      BY DEF SettlementInv, SessionPaid, SucceededRecorded
    <3>3. session[s].status # "none" => session'[s].amount = session[s].amount
      BY <1>2, SessionAmounts
    <3> QED BY <3>1, <3>2, <3>3 DEF AmountsCopied, Exists
  <2>3. CreditsKnown'
    <3>1. CASE Kept
      BY <3>1 DEF Kept, CreditsKnown
    <3>2. ASSUME NEW p \in Payments, Paying(p) PROVE CreditsKnown'
      BY <3>2 DEF Paying, CreditsKnown, Credit, CreditKey, Settled
    <3>3. ASSUME NEW w \in Workers, Late(w) PROVE CreditsKnown'
      <4> DEFINE s == SessionOf[hook[w].event]
      <4>1. s \in Sessions /\ session[s].status = "succeeded" /\ s \in Payments
        BY <3>3 DEF Late, SettlementInv, HooksSound
      <4>2. pay[s].status \in Settled
        <5>1. pay[s].status # "none" /\ pay[s].status \notin {"offered", "pending", "failed"}
          BY <4>1 DEF SettlementInv, SessionPaid, SucceededRecorded
        <5>2. pay[s] \in PaymentRecords
          BY <4>1 DEF SettlementInv, PaymentsSound
        <5> QED BY <5>1, <5>2 DEF PaymentRecords, Settled, NonRevenue
      <4>3. posted' = posted \cup {CreditKey(s)} /\ pay' = pay
        BY <3>3 DEF Late, Credit
      <4> HIDE DEF s
      <4> QED BY <4>1, <4>2, <4>3 DEF CreditsKnown, CreditKey
    <3> QED BY <1>2, <3>1, <3>2, <3>3, PayingStep
  <2> QED BY <2>1, <2>2, <2>3
<1> QED BY <1>1, <1>2

LEMMA AmountsInvHolds == SettlementSpec => []AmountsInv
<1>1. SettlementInit => AmountsCopied /\ CreditsKnown
  BY DEF SettlementInit, LedgerInit, AmountsCopied, CreditsKnown
<1>2. AmountsInv <=> SettlementInv /\ AmountsCopied /\ CreditsKnown
  BY DEF AmountsInv
<1>3. AmountsInv /\ [SettlementNext]_settlementVars => AmountsInv'
  BY AmountsInvStep
<1> QED BY <1>1, <1>2, <1>3, SettlementInvHolds, PTL DEF SettlementSpec

(* No step takes a booking over its total, unless it lowers the total.     *)
CapKept == [][CapRespected /\ price' >= price => CapRespected']_settlementVars

LEMMA CapStep ==
  ASSUME AmountsInv, [SettlementNext]_settlementVars, CapRespected, price' >= price
  PROVE  CapRespected'
<1>1. price \in Nat /\ PaymentsSound
  BY DEF AmountsInv, SettlementInv, RestSound
<1>2. price' \in Nat
  BY <1>1, ScalarStep DEF settlementVars, moneyVars, AmountsInv
<1>3. CASE Kept \/ \E w \in Workers : Late(w)
  <2>1. \A q \in Payments : Paid(q)' = Paid(q)
    BY <1>3, KeptSame DEF Late, Paid, Amount
  <2>2. NetPaid' = NetPaid /\ NetPaid \in Nat
    BY <1>1, <2>1, NetPaidSame
  <2> QED BY <1>1, <1>2, <2>2 DEF CapRespected
<1>4. ASSUME SettlementNext, NEW p \in Payments, Paying(p) PROVE CapRespected'
  BY <1>1, <1>4, PayingFacts DEF Paying, CapRespected
<1>5. CASE UNCHANGED settlementVars
  BY <1>5 DEF settlementVars, moneyVars, CapRespected, NetPaid, Amount
<1> QED BY <1>3, <1>4, <1>5, PayingStep

(* Concurrent sessions and transfers never collect more than the booking   *)
(* costs: whatever is settled is compared with the total in the settlement *)
(* itself.  Only a reschedule that saves a lower total can leave a booking *)
(* overpaid.                                                               *)
THEOREM CapIsKept == SettlementSpec => CapKept
<1>1. AmountsInv /\ [SettlementNext]_settlementVars =>
        [CapRespected /\ price' >= price => CapRespected']_settlementVars
  BY CapStep
<1> QED BY <1>1, AmountsInvHolds, PTL DEF SettlementSpec, CapKept

(* The total changes when a quote is saved. *)
LEMMA QuoteStep ==
  ASSUME Quotes \subseteq {NoQuote}, quote = NoQuote, [SettlementNext]_settlementVars
  PROVE  quote' = NoQuote /\ price' = price
<1>1. ~RescheduleSaves /\ ~ \E q \in Quotes \ {NoQuote} : RescheduleQuotes(q)
  BY DEF RescheduleSaves
<1>2. BookingMoves \/ CancelFailsTransfers => UNCHANGED <<price, quote>>
  BY DEF BookingMoves, CancelFailsTransfers, requests
<1>3. \A s, a : CheckoutQuote(s, a) \/ CheckoutCreate(s) => UNCHANGED <<price, quote>>
  BY DEF CheckoutQuote, CheckoutCreate, requests
<1>4. \A m, a : TransferQuote(m, a) \/ TransferReport(m) \/ TransferReject(m)
                  \/ TransferVerify(m) => UNCHANGED <<price, quote>>
  BY DEF TransferQuote, TransferReport, TransferReject, TransferVerify, requests
<1>5. \A w, e : HookClaim(w, e) \/ HookLoad(w) \/ HookMarks(w) \/ HookFails(w)
                  \/ HookDies(w) \/ HookExpires(w) \/ HookFailsSession(w)
                  \/ HookSettles(w) \/ LeaseLapses(e) => UNCHANGED <<price, quote>>
  BY DEF HookClaim, HookLoad, HookMarks, HookFails, HookDies, HookExpires,
         HookFailsSession, HookSettles, LeaseLapses, requests
<1>6. UNCHANGED moneyVars => UNCHANGED <<price, quote>>
  BY DEF moneyVars
<1> QED BY <1>1, <1>2, <1>3, <1>4, <1>5, <1>6
        DEF SettlementNext, HookRuns, settlementVars

(* So the cap holds of every booking that is not rescheduled.              *)
NotRescheduled == Quotes \subseteq {NoQuote}
CapInv == NotRescheduled /\ quote = NoQuote /\ CapRespected

LEMMA CapInvInit == NotRescheduled /\ SettlementInit => CapInv
<1> SUFFICES ASSUME NotRescheduled, SettlementInit PROVE CapInv
  OBVIOUS
<1> DEFINE f == [p \in Payments |-> Amount(p, "successful")]
<1>1. \A p \in Payments : f[p] = 0
  BY DEF SettlementInit, Amount
<1>2. NetPaid = Sum(f, Payments) /\ price \in Nat
  BY DEF SettlementInit, NetPaid, Sum, SumFunction
<1> HIDE DEF f
<1>3. Sum(f, Payments) = 0
  BY <1>1, SumZero, LedgerConstants
<1> QED BY <1>2, <1>3 DEF SettlementInit, CapInv, CapRespected

LEMMA CapInvStep ==
  ASSUME AmountsInv, CapInv, [SettlementNext]_settlementVars PROVE CapInv'
<1>1. quote' = NoQuote /\ price' = price
  BY QuoteStep DEF CapInv, NotRescheduled
<1>2. price \in Nat
  BY DEF AmountsInv, SettlementInv, RestSound
<1> QED BY <1>1, <1>2, CapStep DEF CapInv, NotRescheduled

THEOREM CapHolds == NotRescheduled /\ SettlementSpec => []CapRespected
<1>1. CapInv => CapRespected
  BY DEF CapInv
<1> QED BY <1>1, CapInvInit, CapInvStep, AmountsInvHolds, PTL DEF SettlementSpec
-----------------------------------------------------------------------------
(* Credits.  What the ledger has credited is the sum of the recorded       *)
(* payments it names.                                                      *)
Credited(p) == IF CreditKey(p) \in posted THEN pay[p].amount ELSE 0
CreditedAmount == SumFunction([p \in Payments |-> Credited(p)])

(* A successful payment is in the ledger, and the ledger has as much as    *)
(* its payments.                                                           *)
RevenueCredited ==
  /\ \A p \in Payments : pay[p].status = "successful" => CreditKey(p) \in posted
  /\ total["payment"] = CreditedAmount

LEMMA CreditedSame ==
  ASSUME \A p \in Payments : Credited(p)' = Credited(p)
  PROVE  CreditedAmount' = CreditedAmount
<1> DEFINE f == [q \in Payments |-> Credited(q)]
           g == [q \in Payments |-> Credited(q)']
<1>1. f = g
  OBVIOUS
<1>2. CreditedAmount = Sum(f, Payments) /\ CreditedAmount' = Sum(g, Payments)
  BY DEF CreditedAmount, Sum, SumFunction
<1> HIDE DEF f, g
<1> QED BY <1>1, <1>2

LEMMA CreditedMore ==
  ASSUME AmountsInv, AmountsInv', NEW p \in Payments, CreditKey(p) \notin posted,
         CreditKey(p) \in posted',
         \A q \in Payments \ {p} : Credited(q)' = Credited(q)
  PROVE  CreditedAmount' = CreditedAmount + pay'[p].amount
<1> DEFINE f == [q \in Payments |-> Credited(q)]
           g == [q \in Payments |-> Credited(q)']
<1>1. /\ pay \in [Payments -> PaymentRecords] /\ pay' \in [Payments -> PaymentRecords]
  BY DEF AmountsInv, SettlementInv, PaymentsSound
<1>2. /\ \A q \in Payments : f[q] \in Int /\ g[q] \in Int
      /\ f[p] = 0 /\ g[p] = pay'[p].amount
      /\ \A q \in Payments \ {p} : g[q] = f[q]
  BY <1>1 DEF Credited, PaymentRecords
<1>3. CreditedAmount = Sum(f, Payments) /\ CreditedAmount' = Sum(g, Payments)
  BY DEF CreditedAmount, Sum, SumFunction
<1>4. IsFiniteSet(Payments)
  BY LedgerConstants
<1>5. g[p] \in Int
  BY <1>2
<1> HIDE DEF f, g
<1> HIDE SettlementFacts
<1>6. Sum(f, Payments) \in Int
  BY <1>2, <1>4, SumType
<1>7. Sum(g, Payments) = Sum(f, Payments) + g[p] - f[p]
  <2>1. p \in Payments
    OBVIOUS
  <2> QED BY <1>2, <1>4, <2>1, SumChange
<1> QED BY <1>2, <1>3, <1>5, <1>6, <1>7

LEMMA CreditEntered ==
  ASSUME LedgerTypeOK, NEW p \in Payments, NEW a \in Amounts, Credit(p, a)
  PROVE  /\ CreditKey(p) \notin posted /\ posted' = posted \cup {CreditKey(p)}
         /\ total'["payment"] = total["payment"] + a
<1> QED BY EnteredFacts, KindsDistinct DEF Credit

(* A late report names a session whose money is on record. *)
LEMMA LateFacts ==
  ASSUME AmountsInv, NEW w \in Workers, Late(w)
  PROVE  \E s \in Sessions :
           /\ s = SessionOf[hook[w].event] /\ s \in Payments
           /\ Credit(s, pay[s].amount) /\ pay[s].amount \in Amounts
           /\ pay' = pay
<1> DEFINE s == SessionOf[hook[w].event]
<1>1. s \in Sessions /\ s \in Payments /\ session[s].status = "succeeded"
  BY DEF Late, AmountsInv, SettlementInv, HooksSound
<1>2. pay[s].status # "none"
  BY <1>1 DEF AmountsInv, SettlementInv, SessionPaid, SucceededRecorded
<1>3. pay[s].amount = session[s].amount /\ pay[s].amount \in Amounts
  BY <1>1, <1>2 DEF AmountsInv, AmountsCopied, SettlementInv, PaymentsSound
<1>4. Credit(s, session[s].amount) /\ pay' = pay
  BY DEF Late
<1> HIDE DEF s
<1>5. s = SessionOf[hook[w].event]
  BY DEF s
<1> QED BY <1>1, <1>3, <1>4, <1>5

LEMMA RevenueStep ==
  ASSUME AmountsInv, RevenueCredited, SettlementNext
  PROVE  RevenueCredited'
<1> USE DEF RevenueCredited
<1>0. AmountsInv' /\ LedgerTypeOK /\ \A p, q \in Payments : CreditKey(p) = CreditKey(q) => p = q
  BY AmountsInvStep DEF AmountsInv, SettlementInv, CreditKey
<1>1. CASE Kept
  <2>1. \A p \in Payments : Credited(p)' = Credited(p)
    BY <1>1 DEF Kept, Credited, AmountsInv, CreditsKnown
  <2>2. CreditedAmount' = CreditedAmount
    BY <2>1, CreditedSame
  <2> QED BY <1>1, <2>2 DEF Kept
<1>2. ASSUME NEW p \in Payments, Paying(p) PROVE RevenueCredited'
  <2>1. pay'[p].amount \in Amounts
    BY <1>2, PayingFacts
  <2>2. /\ CreditKey(p) \notin posted /\ posted' = posted \cup {CreditKey(p)}
        /\ total'["payment"] = total["payment"] + pay'[p].amount
    BY <1>0, <1>2, <2>1, CreditEntered DEF Paying
  <2>3. \A q \in Payments \ {p} : Credited(q)' = Credited(q)
    BY <1>0, <1>2, <2>2 DEF Paying, Credited
  <2>4. CreditedAmount' = CreditedAmount + pay'[p].amount
    BY <1>0, <2>2, <2>3, CreditedMore
  <2> QED BY <1>0, <1>2, <2>2, <2>4 DEF Paying
<1>3. ASSUME NEW w \in Workers, Late(w) PROVE RevenueCredited'
  <2>1. PICK s \in Sessions : /\ s \in Payments
                              /\ Credit(s, pay[s].amount) /\ pay[s].amount \in Amounts
                              /\ pay' = pay
    BY <1>3, LateFacts
  <2>2. /\ CreditKey(s) \notin posted /\ posted' = posted \cup {CreditKey(s)}
        /\ total'["payment"] = total["payment"] + pay'[s].amount
    BY <1>0, <2>1, CreditEntered
  <2>3. \A q \in Payments \ {s} : Credited(q)' = Credited(q)
    BY <1>0, <2>1, <2>2 DEF Credited
  <2>4. CreditedAmount' = CreditedAmount + pay'[s].amount
    BY <1>0, <2>1, <2>2, <2>3, CreditedMore
  <2> QED BY <2>1, <2>2, <2>4
<1> QED BY <1>1, <1>2, <1>3, PayingStep

LEMMA RevenueSame ==
  ASSUME UNCHANGED settlementVars, RevenueCredited
  PROVE  RevenueCredited'
<1> QED BY DEF settlementVars, moneyVars, ledgerVars, RevenueCredited, CreditedAmount,
               Credited

LEMMA RevenueInit == SettlementInit => RevenueCredited
<1> SUFFICES ASSUME SettlementInit PROVE RevenueCredited
  OBVIOUS
<1> DEFINE f == [p \in Payments |-> Credited(p)]
<1>1. \A p \in Payments : f[p] = 0
  BY DEF SettlementInit, LedgerInit, Credited
<1>2. CreditedAmount = Sum(f, Payments)
  BY DEF CreditedAmount, Sum, SumFunction
<1> HIDE DEF f
<1>3. Sum(f, Payments) = 0
  BY <1>1, SumZero, LedgerConstants
<1> QED BY <1>2, <1>3, KindsDistinct DEF SettlementInit, LedgerInit, RevenueCredited

(* Whatever is delivered twice or out of order: every successful payment   *)
(* has its credit, and the ledger has collected exactly the amounts of the *)
(* payments it names.                                                      *)
THEOREM RevenueIsCredited == SettlementSpec => []RevenueCredited
<1>1. AmountsInv /\ RevenueCredited /\ [SettlementNext]_settlementVars => RevenueCredited'
  BY RevenueStep, RevenueSame
<1> QED BY <1>1, RevenueInit, AmountsInvHolds, PTL DEF SettlementSpec
-----------------------------------------------------------------------------
(* Each session is reported by one event.  Where two report one session    *)
(* the second can credit money the first has put aside (see the README).   *)
Reports(e) == Outcome[e] \in {"paid", "failed"}
OneReport ==
  \A e, f \in Events : Reports(e) /\ Reports(f) /\ SessionOf[e] = SessionOf[f] => e = f

(* What has settled a session is processed, so nothing settles it again.   *)
Reported ==
  \A e \in Events :
    Reports(e) /\ session[SessionOf[e]].status = "succeeded" =>
      inbox[e].status = "processed"
OnlyRevenue ==
  \A p \in Payments : CreditKey(p) \in posted => pay[p].status = "successful"
CreditsInv == AmountsInv /\ RevenueCredited /\ Reported /\ OnlyRevenue

LEMMA ReportedStep ==
  ASSUME OneReport, CreditsInv, SettlementNext
  PROVE  Reported'
<1> USE DEF CreditsInv, AmountsInv
<1> SUFFICES ASSUME NEW e \in Events, Reports(e),
                    session'[SessionOf[e]].status = "succeeded"
             PROVE  inbox'[e].status = "processed"
  BY DEF Reported, Reports
<1> DEFINE s == SessionOf[e]
<1>1. s \in Sessions /\ session \in [Sessions -> SessionRecords]
  BY DEF SettlementInv, SessionsSound
<1>2. CASE session[s].status = "succeeded"
  BY <1>2, InboxStep DEF Reported
<1>3. CASE session[s].status # "succeeded"
  <2>1. pay[s].status = "none" /\ pay'[s].status # "none"
    <3>1. pay[s].status = "none"
      BY <1>1, <1>3 DEF SettlementInv, SessionPaid, SucceededRecorded
    <3>2. SessionPaid'
      BY PaymentStep
    <3> QED BY <1>1, <3>1, <3>2 DEF SessionPaid, SucceededRecorded
  <2>2. PICK w \in Workers : HookSettles(w) /\ SessionOf[hook[w].event] = s
    BY <1>1, <2>1, RecordedByHook
  <2>3. hook[w].event \in Events /\ Reports(hook[w].event) /\ Marked(w, "processed")
    BY <2>2 DEF HookSettles, SettlementInv, HooksSound, Reports
  <2>4. hook[w].event = e
    BY <2>2, <2>3 DEF OneReport
  <2>5. inbox \in [Events -> InboxRecords]
    BY DEF SettlementInv, RestSound
  <2> QED BY <2>3, <2>4, <2>5 DEF Marked, InboxRecords
<1> QED BY <1>2, <1>3

LEMMA NotLate ==
  ASSUME CreditsInv, NEW w \in Workers PROVE ~Late(w)
<1> SUFFICES ASSUME Late(w) PROVE FALSE
  OBVIOUS
<1>1. hook[w].event \in Events
  BY DEF Late, CreditsInv, AmountsInv, SettlementInv, HooksSound
<1>2. inbox[hook[w].event].status = "processed"
  BY <1>1 DEF Late, CreditsInv, Reported, Reports
<1> QED BY <1>2 DEF Late, Owns

LEMMA CreditsInvStep ==
  ASSUME OneReport, CreditsInv, [SettlementNext]_settlementVars
  PROVE  CreditsInv'
<1>1. CASE UNCHANGED settlementVars
  BY <1>1, AmountsInvStep, RevenueSame
     DEF settlementVars, moneyVars, ledgerVars, CreditsInv, Reported, OnlyRevenue
<1>2. CASE SettlementNext
  <2>1. AmountsInv' /\ RevenueCredited' /\ Reported'
    BY <1>2, AmountsInvStep, RevenueStep, ReportedStep DEF CreditsInv
  <2>2. CASE Kept
    BY <2>1, <2>2 DEF Kept, CreditsInv, OnlyRevenue, Settled
  <2>3. ASSUME NEW p \in Payments, Paying(p) PROVE CreditsInv'
    BY <2>1, <2>3 DEF Paying, Credit, CreditKey, CreditsInv, OnlyRevenue
  <2>4. AmountsInv
    BY DEF CreditsInv
  <2> QED BY <1>2, <2>2, <2>3, <2>4, PayingStep, NotLate
<1> QED BY <1>1, <1>2

LEMMA CreditsArePayments == ASSUME CreditsInv PROVE CreditsMatchPayments
<1>1. \A p \in Payments : Credited(p) = Amount(p, "successful")
  BY DEF CreditsInv, OnlyRevenue, RevenueCredited, Credited, Amount
<1>2. CreditedAmount = NetPaid
  BY <1>1 DEF CreditedAmount, NetPaid
<1> QED BY <1>2 DEF CreditsInv, OnlyRevenue, RevenueCredited, CreditsMatchPayments

LEMMA CreditsInvInit == SettlementInit => CreditsInv
<1>1. SettlementInit => AmountsCopied /\ CreditsKnown /\ Reported /\ OnlyRevenue
  BY DEF SettlementInit, LedgerInit, AmountsCopied, CreditsKnown, Reported, OnlyRevenue
<1> QED BY <1>1, SettlementInvInit, RevenueInit DEF CreditsInv, AmountsInv
SceneInv == OneReport /\ (scene = "settle" => CreditsInv)

LEMMA SceneInvStep ==
  ASSUME SceneInv, [SceneNext]_<<settlementVars, scene>> PROVE SceneInv'
<1>1. OneReport' /\ scene' = scene
  BY DEF SceneInv, OneReport, Reports, SceneNext
<1>2. ASSUME scene = "settle" PROVE [SettlementNext]_settlementVars
  BY <1>2 DEF SceneNext
<1>3. scene = "settle" => CreditsInv'
  BY <1>2, CreditsInvStep DEF SceneInv
<1> QED BY <1>1, <1>3 DEF SceneInv

(* Every successful payment has exactly one credit, of its amount, nothing *)
(* else is credited, and a session has succeeded exactly if its money is   *)
(* on record, whatever sessions and transfers are settled at once, for any *)
(* number of handlers and deliveries of an event.                          *)
THEOREM PaymentsAreCredited == OneReport /\ SceneSpec => []PaymentsCredited
<1>1. OneReport /\ SceneInit => SceneInv
  BY CreditsInvInit DEF SceneInit, SceneInv
<1>2. SceneInv => PaymentsCredited
  BY CreditsArePayments DEF SceneInv, PaymentsCredited, CreditsInv, AmountsInv,
                      SettlementInv, SessionPaid
<1> QED BY <1>1, <1>2, SceneInvStep, PTL DEF SceneSpec
==============================================================================
