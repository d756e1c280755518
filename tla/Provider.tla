------------------------------ MODULE Provider ------------------------------
(***************************************************************************)
(* The payment provider under Settlement.tla: it repeats an event until it *)
(* is answered with success.  handleWebhook answers a repetition with      *)
(* success (duplicate, processing) while the lease of an earlier delivery  *)
(* holds, whatever becomes of that delivery.                               *)
(***************************************************************************)
EXTENDS Settlement

VARIABLE answered  \* payments repeated under a lease, which it repeats no more

providerVars == <<settlementVars, answered>>

ProviderInit == SettlementInit /\ answered = {}

Begins(e) == \E w \in Workers : HookClaim(w, e)

(* A delivery that begins, of an event that is still repeated. *)
Delivers(e) == e \notin answered /\ Begins(e) /\ UNCHANGED answered

(* claimWebhookEvent finds the lease taken. *)
AnswersBusy(e) ==
  /\ Outcome[e] = "paid" /\ inbox[e].status = "processing"
  /\ answered' = answered \cup {e}
  /\ UNCHANGED settlementVars

ProviderNext ==
  \/ SettlementNext /\ UNCHANGED answered /\ \A e \in answered : ~Begins(e)
  \/ \E e \in Events : AnswersBusy(e)

HookLoadsOwned(w, e) == hook[w].event = e /\ Owns(w) /\ HookLoad(w)

(* A handler does not run for ever.  The provider delivers a payment until *)
(* it is answered; its lease ends; and a handler that again and again      *)
(* holds the lease (a minute for what takes milliseconds) does not fail    *)
(* every time, before its session is loaded or in its last transaction.    *)
(* Nothing is assumed of the events that report no payment.                *)
FairSettlement ==
  /\ ProviderInit /\ [][ProviderNext]_providerVars
  /\ \A s \in Sessions : WF_providerVars(CheckoutCreate(s) /\ UNCHANGED answered)
  /\ \A w \in Workers : WF_providerVars((HookRuns(w) \/ HookFails(w)) /\ UNCHANGED answered)
  /\ \A e \in {f \in Events : Outcome[f] = "paid"} :
       /\ SF_providerVars(Delivers(e))
       /\ WF_providerVars(LeaseLapses(e) /\ UNCHANGED answered)
       /\ SF_providerVars(\E w \in Workers : HookLoadsOwned(w, e) /\ UNCHANGED answered)
       /\ SF_providerVars(\E w \in Workers : /\ hook[w].event = e /\ HookSettles(w)
                                             /\ UNCHANGED answered)
-----------------------------------------------------------------------------
(* The provider was told that the event is being handled, and no handler   *)
(* has it any more.                                                        *)
Stranded(e) == e \in answered /\ \A w \in Workers : hook[w].event # e

(* A reported payment is settled in the end, in spite of crashes, lost     *)
(* leases and failures of the handler; all that can prevent it is that the *)
(* provider repeated the event under a lease whose handler then failed.    *)
PaidSettles ==
  \A e \in Events :
    Outcome[e] = "paid" /\ session[SessionOf[e]].status = "open" ~>
      session[SessionOf[e]].status = "succeeded" \/ Stranded(e)
=============================================================================
