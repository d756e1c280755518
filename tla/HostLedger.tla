----------------------------- MODULE HostLedger -----------------------------
(***************************************************************************)
(* A host's money: the immutable ledger (ledgerService), its projection    *)
(* HostBalance, the payouts (payoutService) and the script that reconciles *)
(* the two (reconcile-finance).                                            *)
(*                                                                         *)
(* Every operation is one transaction that writes the host's only          *)
(* HostBalance document, so two of them conflict and one starts over: an   *)
(* operation is one step.  The script is not a transaction.                *)
(*                                                                         *)
(* Of the ledger only the sums per kind of entry are kept, which is all    *)
(* that its readers compute from, and the idempotency keys in use.         *)
(***************************************************************************)
EXTENDS Integers, FiniteSets, Functions

CONSTANTS
  Payments,     \* identifiers of payments, each credited at most once
  Refunds,      \* identifiers of refunds, each debited at most once
  Payouts,      \* scoped idempotency keys of payout requests
  Amounts,      \* the amounts of single operations
  MinPayout     \* the smallest payout

ASSUME LedgerConstants ==
  /\ Amounts \subseteq Nat \ {0} /\ MinPayout \in Nat
  /\ IsFiniteSet(Payments) /\ IsFiniteSet(Refunds) /\ IsFiniteSet(Payouts)

VARIABLES
  available, reserved, paidOut, debt,  \* the fields of HostBalance
  total,     \* ledger: the sum of the entries of each kind
  posted,    \* ledger: idempotency keys of payment and refund entries
  payout,    \* Payout documents
  script     \* reconcile-finance --apply: what it has read; writes is a
             \* history field, 1 once it has written a balance

balance == <<available, reserved, paidOut, debt>>
ledgerVars == <<available, reserved, paidOut, debt, total, posted, payout,
                script>>

EntryKinds == {"payment", "refund", "reserve", "restore", "settle"}
CreditKey(p) == <<"credit", p>>
DebitKey(r) == <<"debit", r>>
Keys == ({"credit"} \X Payments) \cup ({"debit"} \X Refunds)

NewScript == [pc |-> "idle", ledger |-> 0, reserved |-> 0, writes |-> 0]
IdleScript == [NewScript EXCEPT !.writes = script.writes]

LedgerInit ==
  /\ available = 0 /\ reserved = 0 /\ paidOut = 0 /\ debt = 0
  /\ total = [k \in EntryKinds |-> 0]
  /\ posted = {}
  /\ payout = [p \in Payouts |-> [status |-> "none", amount |-> 0]]
  /\ script = NewScript

Lesser(a, b) == IF a <= b THEN a ELSE b

Entered(kind, a) == total' = [total EXCEPT ![kind] = @ + a]

(***************************************************************************)
(* postEntry and applyBalanceProjection.  A key that is in use is answered *)
(* with the entry it names, and nothing changes.                           *)
(***************************************************************************)
(* Mutant of Credit: the debt goes down but the credit is kept whole. *)
CreditTwice(p, a) ==
  /\ CreditKey(p) \notin posted
  /\ posted' = posted \cup {CreditKey(p)}
  /\ Entered("payment", a)
  /\ debt' = debt - Lesser(debt, a)
  /\ available' = available + a
  /\ UNCHANGED <<reserved, paidOut, payout, script>>

(* A payment repays the debt first. *)
Credit(p, a) ==
  /\ CreditKey(p) \notin posted
  /\ posted' = posted \cup {CreditKey(p)}
  /\ Entered("payment", a)
  /\ debt' = debt - Lesser(debt, a)
  /\ available' = available + a - Lesser(debt, a)
  /\ UNCHANGED <<reserved, paidOut, payout, script>>

(* A refund takes what is available; the rest becomes debt. *)
Debit(r, a) ==
  /\ DebitKey(r) \notin posted
  /\ posted' = posted \cup {DebitKey(r)}
  /\ Entered("refund", a)
  /\ available' = available - Lesser(available, a)
  /\ debt' = debt + (a - Lesser(available, a))
  /\ UNCHANGED <<reserved, paidOut, payout, script>>

(***************************************************************************)
(* requestPayout and processPayout.                                        *)
(***************************************************************************)
(* Mutant of RequestPayout: the reserve is not conditional. *)
RequestPayoutUnchecked(p, a) ==
  /\ payout[p].status = "none" /\ a >= MinPayout
  /\ available' = available - a
  /\ reserved' = reserved + a
  /\ payout' = [payout EXCEPT ![p] = [status |-> "requested", amount |-> a]]
  /\ Entered("reserve", a)
  /\ UNCHANGED <<paidOut, debt, posted, script>>

RequestPayout(p, a) ==
  /\ payout[p].status = "none" /\ a >= MinPayout
  /\ available >= a
  /\ available' = available - a
  /\ reserved' = reserved + a
  /\ payout' = [payout EXCEPT ![p] = [status |-> "requested", amount |-> a]]
  /\ Entered("reserve", a)
  /\ UNCHANGED <<paidOut, debt, posted, script>>

(* The release is conditional, the ledger entry is not; a debt is not      *)
(* repaid from what is released.                                           *)
RejectPayout(p) ==
  LET a == payout[p].amount IN
  /\ payout[p].status = "requested"
  /\ payout' = [payout EXCEPT ![p].status = "failed"]
  /\ IF reserved >= a
       THEN available' = available + a /\ reserved' = reserved - a
       ELSE UNCHANGED <<available, reserved>>
  /\ Entered("restore", a)
  /\ UNCHANGED <<paidOut, debt, posted, script>>

(* Without the reserved funds the transaction is rolled back. *)
ApprovePayout(p) ==
  LET a == payout[p].amount IN
  /\ payout[p].status = "requested"
  /\ reserved >= a
  /\ payout' = [payout EXCEPT ![p].status = "paid"]
  /\ reserved' = reserved - a
  /\ paidOut' = paidOut + a
  /\ Entered("settle", a)
  /\ UNCHANGED <<available, debt, posted, script>>

(***************************************************************************)
(* The readers of the ledger: computeFromLedger and reconcile-finance.     *)
(***************************************************************************)
AboveZero(n) == IF n > 0 THEN n ELSE 0

(* computeFromLedger, before its last lines separate the debt. *)
NetAvailable == total["payment"] - total["refund"] - total["reserve"]
                  + total["restore"]
Rebuilt ==
  [available |-> AboveZero(NetAvailable),
   reserved |-> AboveZero(total["reserve"] - total["restore"]
                            - total["settle"]),
   paidOut |-> AboveZero(total["settle"]),
   debt |-> AboveZero(-NetAvailable)]

(* The script adds every credit and subtracts every debit. *)
ScriptAvailable == AboveZero(NetAvailable - total["settle"])

(* The script reads the entries, then the projection, then writes. *)
ScriptReadLedger ==
  /\ script.pc = "idle"
  /\ script' = [script EXCEPT !.pc = "entries", !.ledger = ScriptAvailable]
  /\ UNCHANGED <<balance, total, posted, payout>>

ScriptReadBalance ==
  /\ script.pc = "entries"
  /\ script' = IF script.ledger = available + reserved THEN IdleScript
               ELSE [script EXCEPT !.pc = "balance", !.reserved = reserved]
  /\ UNCHANGED <<balance, total, posted, payout>>

ScriptApply ==
  /\ script.pc = "balance"
  /\ available' = AboveZero(script.ledger - script.reserved)
  /\ script' = [NewScript EXCEPT !.writes = 1]
  /\ UNCHANGED <<reserved, paidOut, debt, total, posted, payout>>

Reconcile == ScriptReadLedger \/ ScriptReadBalance \/ ScriptApply

PayoutNext ==
  \E p \in Payouts :
    \/ \E a \in Amounts : RequestPayout(p, a)
    \/ RejectPayout(p)
    \/ ApprovePayout(p)

(* Who refunds has checked that the money has been collected. *)
LedgerNext ==
  \/ \E p \in Payments, a \in Amounts : Credit(p, a)
  \/ \E r \in Refunds, a \in Amounts :
        total["refund"] + a <= total["payment"] /\ Debit(r, a)
  \/ PayoutNext
  \/ Reconcile

LedgerSpec == LedgerInit /\ [][LedgerNext]_ledgerVars
-----------------------------------------------------------------------------
PayoutRecords ==
  [status : {"none", "requested", "failed", "paid"}, amount : Nat]

(* The type of every variable; no balance is ever negative. *)
LedgerTypeOK ==
  /\ available \in Nat /\ reserved \in Nat /\ paidOut \in Nat /\ debt \in Nat
  /\ total \in [EntryKinds -> Nat]
  /\ posted \subseteq Keys
  /\ payout \in [Payouts -> PayoutRecords]
  /\ script \in [pc : {"idle", "entries", "balance"}, ledger : Nat,
                 reserved : Nat, writes : 0 .. 1]

(* The script has not overwritten the available balance so far.            *)
Uncorrected == script.writes = 0

(* No money appears or vanishes between the ledger and the projection:     *)
(* what the host can spend, has reserved and was paid, less its debt, is   *)
(* what was collected less what was refunded, whatever the order of        *)
(* payments, refunds, payout requests, rejections and approvals.           *)
Conserved ==
  Uncorrected =>
    available + reserved + paidOut - debt = total["payment"] - total["refund"]

(* Concurrent payouts cannot overspend: what has left or is about to leave *)
(* was collected before, even when refunds have put the host in debt.      *)
NoOverspend == Uncorrected => reserved + paidOut <= total["payment"]

AmountIn(s) ==
  SumFunction([p \in Payouts |->
                 IF payout[p].status = s THEN payout[p].amount ELSE 0])

(* Every reservation is balanced: the reserved funds are those of the      *)
(* payouts that wait for a decision, each reserved once and released or    *)
(* paid once, so an approval never finds them missing, whatever balance    *)
(* the script writes.                                                      *)
ReservesBalance ==
  reserved = AmountIn("requested") /\ paidOut = AmountIn("paid")

(* The net projection can be rebuilt from the immutable ledger.            *)
NetRebuilds ==
  /\ Uncorrected => available - debt = NetAvailable
  /\ reserved = Rebuilt.reserved /\ paidOut = Rebuilt.paidOut

(* What the projection says of payouts is what the payouts and the ledger  *)
(* say, and no payout was approved of money that had not come in.          *)
PayoutsBalance == NoOverspend /\ ReservesBalance /\ NetRebuilds
=============================================================================
