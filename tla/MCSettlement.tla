---------------------------- MODULE MCSettlement ----------------------------
(* Small instances of Settlement.tla.                                      *)
EXTENDS Settlement, TLC

CONSTANTS s1, s2, m1, e1, e2, e3, w1, w2, o1

(* Two sessions are paid and the first one's expiry is reported as well;   *)
(* a payment of s1, the failure of a first try and its expiry.             *)
SessionsOfThree == e1 :> s1 @@ e2 :> s2 @@ e3 :> s1
PaidPaidExpired == e1 :> "paid" @@ e2 :> "paid" @@ e3 :> "expired"
Same == [e \in Events |-> s1]
PaidFailedExpired == e1 :> "paid" @@ e2 :> "failed" @@ e3 :> "expired"

Symmetry == Permutations(Workers) \cup Permutations(Refunds) \cup Permutations(Payouts)
=============================================================================
