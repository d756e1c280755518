----------------------------- MODULE MCRefunds ------------------------------
(* Small instances of Refunds.tla: payments of one unit each.              *)
EXTENDS Refunds, TLC

CONSTANTS p1, g1

ByWallet == p1 :> {"transfer"} @@ g1 :> {"stripe", "momo"}
CollectsOne == [p \in Payments |-> 1]

(* Two submissions at once are explored while there is one refund. *)
Uncrowded ==
  \/ Cardinality({w \in Submitters : submit[w].pc # "idle"}) <= 1
  \/ Cardinality({r \in Refunds : refund[r].status # "none"}) <= 1

Symmetry == Permutations(Refunds) \cup Permutations(Submitters)
=============================================================================
