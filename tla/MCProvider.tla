----------------------------- MODULE MCProvider -----------------------------
(* One session, its payment, and a failure or an expiry reported besides.  *)
EXTENDS MCSettlement, Provider

(* Besides the payment, the provider reports the failure or the expiry.    *)
OneFailure == \E e \in Events : inbox[e].status = "none" /\ Outcome[e] # "paid"

(* Payouts are played when no handler is at work. *)
PayoutsApart == (\E o \in Payouts : payout[o].status # "none") =>
  \A w \in Workers : hook[w] = IdleHook
=============================================================================
