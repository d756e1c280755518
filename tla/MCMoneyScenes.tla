--------------------------- MODULE MCMoneyScenes ---------------------------
(***************************************************************************)
(* A behaviour plays the payments of a booking, without payouts, or the    *)
(* ledger under them alone, with refunds, payouts and the script that      *)
(* reconciles it.                                                          *)
(***************************************************************************)
EXTENDS MCSettlement

VARIABLE scene

SceneInit == SettlementInit /\ scene \in {"settle", "ledger"}

SceneNext ==
  /\ UNCHANGED scene
  /\ \/ scene = "settle" /\ SettlementNext /\ UNCHANGED payout
     \/ scene = "ledger" /\ LedgerNext /\ CreditKey(m1) \notin posted' /\ UNCHANGED moneyVars

SceneSpec == SceneInit /\ [][SceneNext]_<<settlementVars, scene>>

(* While bookings are paid, every successful payment has exactly one       *)
(* ledger credit, of its amount, nothing else is credited, and a session   *)
(* has succeeded exactly if its money is on record.                        *)
PaymentsCredited == scene = "settle" => CreditsMatchPayments /\ SucceededRecorded
=============================================================================
