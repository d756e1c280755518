-------------------------- MODULE HostLedgerProofs --------------------------
(***************************************************************************)
(* Theorems about HostLedger.tla, for every set of payments, refunds and   *)
(* payouts and all amounts.                                                *)
(***************************************************************************)
EXTENDS HostLedger, SumTheorems

LEMMA LesserFacts ==
  ASSUME NEW a \in Nat, NEW b \in Nat
  PROVE  Lesser(a, b) \in Nat /\ Lesser(a, b) <= a /\ Lesser(a, b) <= b
<1> QED BY DEF Lesser

LEMMA AboveZeroFacts == \A n \in Int : AboveZero(n) \in Nat
<1> QED BY DEF AboveZero

LEMMA AmountFacts == \A a \in Amounts : a \in Nat /\ a > 0
<1> QED BY LedgerConstants

(* Entering an amount adds to one sum of the ledger. *)
LEMMA EnteredFacts ==
  ASSUME LedgerTypeOK, NEW k \in EntryKinds, NEW a \in Nat, Entered(k, a)
  PROVE  /\ total' \in [EntryKinds -> Nat]
         /\ total'[k] = total[k] + a
         /\ \A j \in EntryKinds : j # k => total'[j] = total[j]
<1> QED BY DEF LedgerTypeOK, Entered

LEMMA KindsDistinct ==
  {"payment", "refund", "reserve", "restore", "settle"} = EntryKinds
<1> QED BY DEF EntryKinds

LEMMA LedgerTypeInit == LedgerInit => LedgerTypeOK
<1> QED BY DEF LedgerInit, LedgerTypeOK, PayoutRecords, NewScript

LEMMA LedgerTypeStep == LedgerTypeOK /\ [LedgerNext]_ledgerVars => LedgerTypeOK'
<1> SUFFICES ASSUME LedgerTypeOK, [LedgerNext]_ledgerVars PROVE LedgerTypeOK'
  OBVIOUS
<1> USE AmountFacts, KindsDistinct
<1>1. ASSUME NEW p \in Payments, NEW a \in Amounts, Credit(p, a)
      PROVE  LedgerTypeOK'
  <2>1. CreditKey(p) \in Keys
    BY DEF CreditKey, Keys
  <2>2. total' \in [EntryKinds -> Nat]
    BY <1>1, EnteredFacts DEF Credit
  <2>3. available' \in Nat /\ debt' \in Nat
    <3> DEFINE l == Lesser(debt, a)
    <3>1. l \in Nat /\ l <= debt /\ l <= a
      BY LesserFacts DEF LedgerTypeOK
    <3> HIDE DEF l
    <3> QED BY <1>1, <3>1 DEF l, Credit, LedgerTypeOK
  <2> QED BY <1>1, <2>1, <2>2, <2>3 DEF Credit, LedgerTypeOK
<1>2. ASSUME NEW r \in Refunds, NEW a \in Amounts, Debit(r, a)
      PROVE  LedgerTypeOK'
  <2>1. DebitKey(r) \in Keys
    BY DEF DebitKey, Keys
  <2>2. total' \in [EntryKinds -> Nat]
    BY <1>2, EnteredFacts DEF Debit
  <2>3. available' \in Nat /\ debt' \in Nat
    <3> DEFINE l == Lesser(available, a)
    <3>1. l \in Nat /\ l <= available /\ l <= a
      BY LesserFacts DEF LedgerTypeOK
    <3> HIDE DEF l
    <3> QED BY <1>2, <3>1 DEF l, Debit, LedgerTypeOK
  <2> QED BY <1>2, <2>1, <2>2, <2>3 DEF Debit, LedgerTypeOK
<1>3. ASSUME NEW p \in Payouts, NEW a \in Amounts, RequestPayout(p, a)
      PROVE  LedgerTypeOK'
  <2>1. total' \in [EntryKinds -> Nat]
    BY <1>3, EnteredFacts DEF RequestPayout
  <2>2. payout' \in [Payouts -> PayoutRecords]
    BY <1>3 DEF RequestPayout, LedgerTypeOK, PayoutRecords
  <2> QED BY <1>3, <2>1, <2>2 DEF RequestPayout, LedgerTypeOK
<1>4. ASSUME NEW p \in Payouts, RejectPayout(p) PROVE LedgerTypeOK'
  <2>1. payout[p].amount \in Nat
    BY DEF LedgerTypeOK, PayoutRecords
  <2>2. total' \in [EntryKinds -> Nat]
    BY <1>4, <2>1, EnteredFacts DEF RejectPayout
  <2>3. payout' \in [Payouts -> PayoutRecords]
    BY <1>4 DEF RejectPayout, LedgerTypeOK, PayoutRecords
  <2>4. available' \in Nat /\ reserved' \in Nat
    BY <1>4, <2>1 DEF RejectPayout, LedgerTypeOK
  <2> QED BY <1>4, <2>2, <2>3, <2>4 DEF RejectPayout, LedgerTypeOK
<1>5. ASSUME NEW p \in Payouts, ApprovePayout(p) PROVE LedgerTypeOK'
  <2>1. payout[p].amount \in Nat
    BY DEF LedgerTypeOK, PayoutRecords
  <2>2. total' \in [EntryKinds -> Nat]
    BY <1>5, <2>1, EnteredFacts DEF ApprovePayout
  <2>3. payout' \in [Payouts -> PayoutRecords]
    BY <1>5 DEF ApprovePayout, LedgerTypeOK, PayoutRecords
  <2> QED BY <1>5, <2>1, <2>2, <2>3 DEF ApprovePayout, LedgerTypeOK
<1>6. CASE Reconcile
  <2>1. ScriptAvailable \in Nat
    <3>1. \A k \in EntryKinds : total[k] \in Nat
      BY DEF LedgerTypeOK
    <3>2. NetAvailable - total["settle"] \in Int
      BY <3>1 DEF NetAvailable
    <3> QED BY <3>2, AboveZeroFacts DEF ScriptAvailable
  <2>2. CASE ScriptReadLedger
    BY <2>1, <2>2 DEF ScriptReadLedger, LedgerTypeOK, balance
  <2>3. CASE ScriptReadBalance
    BY <2>3 DEF ScriptReadBalance, LedgerTypeOK, balance, IdleScript, NewScript
  <2>4. CASE ScriptApply
    BY <2>4, AboveZeroFacts DEF ScriptApply, LedgerTypeOK, NewScript
  <2> QED BY <1>6, <2>2, <2>3, <2>4 DEF Reconcile
<1>7. CASE UNCHANGED ledgerVars
  BY <1>7 DEF ledgerVars, LedgerTypeOK
<1> QED BY <1>1, <1>2, <1>3, <1>4, <1>5, <1>6, <1>7 DEF LedgerNext, PayoutNext

(* No balance is ever negative, with or without the script.                *)
THEOREM LedgerTypeCorrect == LedgerSpec => []LedgerTypeOK
<1> QED BY LedgerTypeInit, LedgerTypeStep, PTL DEF LedgerSpec
-----------------------------------------------------------------------------
(* A host owes no more than has been refunded: with conservation this      *)
(* bounds what can have left by what has been collected.                   *)
DebtBounded == debt <= total["refund"]
LedgerInv == LedgerTypeOK /\ Conserved /\ DebtBounded

LEMMA MoneyStep ==
  ASSUME LedgerInv, [LedgerNext]_ledgerVars
  PROVE  Conserved' /\ DebtBounded'
<1> USE AmountFacts, KindsDistinct
<1>1. \A k \in EntryKinds : total[k] \in Nat
  BY DEF LedgerInv, LedgerTypeOK
<1>2. ASSUME NEW p \in Payments, NEW a \in Amounts, Credit(p, a)
      PROVE  Conserved' /\ DebtBounded'
  <2>1. total'["payment"] = total["payment"] + a /\ total'["refund"] = total["refund"]
    BY <1>2, EnteredFacts DEF Credit, LedgerInv
  <2>2. Lesser(debt, a) \in Nat
    BY LesserFacts DEF LedgerInv, LedgerTypeOK
  <2> QED BY <1>1, <1>2, <2>1, <2>2
          DEF Credit, LedgerInv, LedgerTypeOK, Conserved, DebtBounded, Uncorrected
<1>3. ASSUME NEW r \in Refunds, NEW a \in Amounts, Debit(r, a)
      PROVE  Conserved' /\ DebtBounded'
  <2>1. total'["payment"] = total["payment"] /\ total'["refund"] = total["refund"] + a
    BY <1>3, EnteredFacts DEF Debit, LedgerInv
  <2>2. Lesser(available, a) \in Nat
    BY LesserFacts DEF LedgerInv, LedgerTypeOK
  <2> QED BY <1>1, <1>3, <2>1, <2>2
          DEF Debit, LedgerInv, LedgerTypeOK, Conserved, DebtBounded, Uncorrected
<1>4. ASSUME NEW p \in Payouts, NEW a \in Amounts, RequestPayout(p, a)
      PROVE  Conserved' /\ DebtBounded'
  <2>1. total'["payment"] = total["payment"] /\ total'["refund"] = total["refund"]
    BY <1>4, EnteredFacts DEF RequestPayout, LedgerInv
  <2> QED BY <1>4, <2>1
          DEF RequestPayout, LedgerInv, LedgerTypeOK, Conserved, DebtBounded, Uncorrected
<1>5. ASSUME NEW p \in Payouts, RejectPayout(p)
      PROVE  Conserved' /\ DebtBounded'
  <2>1. payout[p].amount \in Nat
    BY DEF LedgerInv, LedgerTypeOK, PayoutRecords
  <2>2. total'["payment"] = total["payment"] /\ total'["refund"] = total["refund"]
    BY <1>5, <2>1, EnteredFacts DEF RejectPayout, LedgerInv
  <2> QED BY <1>5, <2>1, <2>2
          DEF RejectPayout, LedgerInv, LedgerTypeOK, Conserved, DebtBounded, Uncorrected
<1>6. ASSUME NEW p \in Payouts, ApprovePayout(p)
      PROVE  Conserved' /\ DebtBounded'
  <2>1. payout[p].amount \in Nat
    BY DEF LedgerInv, LedgerTypeOK, PayoutRecords
  <2>2. total'["payment"] = total["payment"] /\ total'["refund"] = total["refund"]
    BY <1>6, <2>1, EnteredFacts DEF ApprovePayout, LedgerInv
  <2> QED BY <1>6, <2>1, <2>2
          DEF ApprovePayout, LedgerInv, LedgerTypeOK, Conserved, DebtBounded, Uncorrected
<1>7. CASE Reconcile
  <2>1. UNCHANGED <<debt, total>>
    BY <1>7 DEF Reconcile, ScriptReadLedger, ScriptReadBalance, ScriptApply,
                balance
  <2>2. CASE ScriptReadLedger
    BY <2>1, <2>2 DEF ScriptReadLedger, balance, LedgerInv, LedgerTypeOK,
                      Conserved, DebtBounded, Uncorrected
  <2>3. CASE ScriptReadBalance
    BY <2>1, <2>3 DEF ScriptReadBalance, balance, LedgerInv, LedgerTypeOK,
                      Conserved, DebtBounded, Uncorrected, IdleScript, NewScript
  <2>4. CASE ScriptApply
    BY <2>1, <2>4 DEF ScriptApply, LedgerInv, Conserved, DebtBounded,
                      Uncorrected, NewScript
  <2> QED BY <1>7, <2>2, <2>3, <2>4 DEF Reconcile
<1>8. CASE UNCHANGED ledgerVars
  BY <1>8 DEF ledgerVars, LedgerInv, Conserved, DebtBounded, Uncorrected
<1> QED BY <1>2, <1>3, <1>4, <1>5, <1>6, <1>7, <1>8 DEF LedgerNext, PayoutNext

LEMMA LedgerInvCorrect == LedgerSpec => []LedgerInv
<1>1. LedgerInit => LedgerInv
  BY LedgerTypeInit, KindsDistinct
     DEF LedgerInit, LedgerInv, Conserved, DebtBounded, Uncorrected
<1>2. LedgerInv /\ [LedgerNext]_ledgerVars => LedgerInv'
  BY LedgerTypeStep, MoneyStep DEF LedgerInv
<1> QED BY <1>1, <1>2, PTL DEF LedgerSpec

(* The projection and the ledger agree about the host's net money.         *)
THEOREM MoneyConserved == LedgerSpec => []Conserved
<1>1. LedgerInv => Conserved
  BY DEF LedgerInv
<1> QED BY <1>1, LedgerInvCorrect, PTL

(* No order of requests, approvals and refunds pays out more than was      *)
(* collected.                                                              *)
THEOREM PayoutsCovered == LedgerSpec => []NoOverspend
<1>1. LedgerInv => NoOverspend
  <2> SUFFICES ASSUME LedgerInv PROVE NoOverspend
    OBVIOUS
  <2>1. total["payment"] \in Nat /\ total["refund"] \in Nat
    BY KindsDistinct DEF LedgerInv, LedgerTypeOK
  <2> QED BY <2>1
          DEF LedgerInv, LedgerTypeOK, Conserved, DebtBounded, NoOverspend,
              Uncorrected
<1> QED BY <1>1, LedgerInvCorrect, PTL
-----------------------------------------------------------------------------
(* What a payout contributes to the sum of its status.                     *)
Part(p, s) == IF payout[p].status = s THEN payout[p].amount ELSE 0

LEMMA AmountInFacts ==
  ASSUME LedgerTypeOK, NEW s
  PROVE  /\ AmountIn(s) \in Nat
         /\ \A p \in Payouts : Part(p, s) \in Nat /\ Part(p, s) <= AmountIn(s)
<1> DEFINE f == [p \in Payouts |-> Part(p, s)]
<1>1. \A p \in Payouts : f[p] = Part(p, s) /\ Part(p, s) \in Nat
  BY DEF LedgerTypeOK, PayoutRecords, Part
<1>2. AmountIn(s) = Sum(f, Payouts)
  BY DEF AmountIn, Part, Sum, SumFunction
<1> HIDE DEF f
<1> QED BY <1>1, <1>2, SumNat, LedgerConstants

(* A payout that changes moves its amount from one sum to another.         *)
LEMMA AmountInStep ==
  ASSUME LedgerTypeOK, LedgerTypeOK', NEW p \in Payouts,
         \A q \in Payouts \ {p} : payout'[q] = payout[q], NEW s
  PROVE  AmountIn(s)' = AmountIn(s) + Part(p, s)' - Part(p, s)
<1> DEFINE f == [q \in Payouts |-> Part(q, s)]
           g == [q \in Payouts |-> Part(q, s)']
<1>1. \A q \in Payouts : f[q] \in Int /\ g[q] \in Int
  BY DEF LedgerTypeOK, PayoutRecords, Part
<1>2. \A q \in Payouts \ {p} : g[q] = f[q]
  BY DEF Part
<1>3. f[p] = Part(p, s) /\ g[p] = Part(p, s)'
  OBVIOUS
<1>4. AmountIn(s) = Sum(f, Payouts) /\ AmountIn(s)' = Sum(g, Payouts)
  BY DEF AmountIn, Part, Sum, SumFunction
<1> HIDE DEF f, g
<1> QED BY <1>1, <1>2, <1>3, <1>4, SumChange, LedgerConstants

LEMMA AmountInSame ==
  ASSUME payout' = payout
  PROVE  \A s : AmountIn(s)' = AmountIn(s)
<1> QED BY DEF AmountIn

(* What the ledger says was reserved and paid is what the payouts say.     *)
EntriesMatch ==
  /\ total["reserve"] = reserved + total["restore"] + total["settle"]
  /\ total["settle"] = paidOut
ReservedInv == LedgerInv /\ ReservesBalance /\ EntriesMatch

LEMMA ReservedStep ==
  ASSUME ReservedInv, [LedgerNext]_ledgerVars
  PROVE  ReservesBalance' /\ EntriesMatch'
<1> USE AmountFacts, KindsDistinct DEF ReservedInv, LedgerInv
<1>0. /\ \A k \in EntryKinds : total[k] \in Nat
      /\ LedgerTypeOK /\ LedgerTypeOK'
      /\ reserved \in Nat /\ paidOut \in Nat
      /\ payout \in [Payouts -> PayoutRecords]
      /\ reserved = AmountIn("requested") /\ paidOut = AmountIn("paid")
  BY LedgerTypeStep DEF LedgerTypeOK, ReservesBalance
<1>1. ASSUME UNCHANGED <<reserved, paidOut, payout>>,
             \A k \in {"reserve", "restore", "settle"} : total'[k] = total[k]
      PROVE  ReservesBalance' /\ EntriesMatch'
  BY <1>0, <1>1 DEF ReservesBalance, EntriesMatch, AmountIn
<1>2. ASSUME NEW p \in Payments, NEW a \in Amounts, Credit(p, a)
      PROVE  ReservesBalance' /\ EntriesMatch'
  BY <1>1, <1>2, EnteredFacts DEF Credit
<1>3. ASSUME NEW r \in Refunds, NEW a \in Amounts, Debit(r, a)
      PROVE  ReservesBalance' /\ EntriesMatch'
  BY <1>1, <1>3, EnteredFacts DEF Debit
<1>4. ASSUME NEW p \in Payouts, NEW a \in Amounts, RequestPayout(p, a)
      PROVE  ReservesBalance' /\ EntriesMatch'
  <2>1. /\ total'["reserve"] = total["reserve"] + a
        /\ total'["restore"] = total["restore"] /\ total'["settle"] = total["settle"]
    BY <1>4, EnteredFacts DEF RequestPayout
  <2>2. /\ \A s : AmountIn(s)' = AmountIn(s) + Part(p, s)' - Part(p, s)
        /\ reserved' = reserved + a /\ paidOut' = paidOut
    BY <1>0, <1>4, AmountInStep DEF RequestPayout
  <2>3. \A s \in {"requested", "paid"} :
          Part(p, s) = 0 /\ Part(p, s)' = IF s = "requested" THEN a ELSE 0
    BY <1>0, <1>4 DEF RequestPayout, Part
  <2> QED BY <1>0, <2>1, <2>2, <2>3 DEF ReservesBalance, EntriesMatch
<1>5. ASSUME NEW p \in Payouts, RejectPayout(p)
      PROVE  ReservesBalance' /\ EntriesMatch'
  <2> DEFINE a == payout[p].amount
  <2>1. a \in Nat /\ Part(p, "requested") = a /\ Part(p, "paid") = 0
    BY <1>0, <1>5 DEF RejectPayout, Part, PayoutRecords
  <2>2. reserved >= a
    BY <1>0, <2>1, AmountInFacts
  <2>3. reserved' = reserved - a /\ paidOut' = paidOut
    BY <1>5, <2>2 DEF RejectPayout
  <2>4. /\ total'["restore"] = total["restore"] + a
        /\ total'["reserve"] = total["reserve"] /\ total'["settle"] = total["settle"]
    BY <1>5, <2>1, EnteredFacts DEF RejectPayout
  <2>5. \A s : AmountIn(s)' = AmountIn(s) + Part(p, s)' - Part(p, s)
    BY <1>0, <1>5, AmountInStep DEF RejectPayout
  <2>6. Part(p, "requested")' = 0 /\ Part(p, "paid")' = 0
    BY <1>0, <1>5 DEF RejectPayout, Part
  <2> HIDE DEF a
  <2> QED BY <1>0, <2>1, <2>3, <2>4, <2>5, <2>6 DEF ReservesBalance, EntriesMatch
<1>6. ASSUME NEW p \in Payouts, ApprovePayout(p)
      PROVE  ReservesBalance' /\ EntriesMatch'
  <2> DEFINE a == payout[p].amount
  <2>1. a \in Nat /\ Part(p, "requested") = a /\ Part(p, "paid") = 0
    BY <1>0, <1>6 DEF ApprovePayout, Part, PayoutRecords
  <2>2. reserved' = reserved - a /\ paidOut' = paidOut + a
    BY <1>6 DEF ApprovePayout
  <2>3. /\ total'["settle"] = total["settle"] + a
        /\ total'["reserve"] = total["reserve"] /\ total'["restore"] = total["restore"]
    BY <1>6, <2>1, EnteredFacts DEF ApprovePayout
  <2>4. \A s : AmountIn(s)' = AmountIn(s) + Part(p, s)' - Part(p, s)
    BY <1>0, <1>6, AmountInStep DEF ApprovePayout
  <2>5. Part(p, "requested")' = 0 /\ Part(p, "paid")' = a
    BY <1>0, <1>6 DEF ApprovePayout, Part
  <2> HIDE DEF a
  <2> QED BY <1>0, <2>1, <2>2, <2>3, <2>4, <2>5 DEF ReservesBalance, EntriesMatch
<1>7. CASE Reconcile
  BY <1>1, <1>7 DEF Reconcile, ScriptReadLedger, ScriptReadBalance, ScriptApply,
                    balance
<1>8. CASE UNCHANGED ledgerVars
  BY <1>1, <1>8 DEF ledgerVars
<1> QED BY <1>2, <1>3, <1>4, <1>5, <1>6, <1>7, <1>8 DEF LedgerNext, PayoutNext

LEMMA ReservedInvCorrect == LedgerSpec => []ReservedInv
<1>1. LedgerInit => ReservesBalance /\ EntriesMatch
  <2> SUFFICES ASSUME LedgerInit PROVE ReservesBalance /\ EntriesMatch
    OBVIOUS
  <2>1. ASSUME NEW s \in {"requested", "paid"} PROVE AmountIn(s) = 0
    <3> DEFINE f == [p \in Payouts |-> Part(p, s)]
    <3>1. \A p \in Payouts : f[p] = 0
      BY DEF LedgerInit, Part
    <3>2. AmountIn(s) = Sum(f, Payouts)
      BY DEF AmountIn, Part, Sum, SumFunction
    <3> HIDE DEF f
    <3> QED BY <3>1, <3>2, SumZero, LedgerConstants
  <2> QED BY <2>1, KindsDistinct DEF LedgerInit, ReservesBalance, EntriesMatch
<1>2. LedgerInv /\ ReservesBalance /\ EntriesMatch <=> ReservedInv
  BY DEF ReservedInv
<1>3. ReservedInv /\ [LedgerNext]_ledgerVars => ReservesBalance' /\ EntriesMatch'
  BY ReservedStep
<1> QED BY <1>1, <1>2, <1>3, LedgerInvCorrect, PTL DEF LedgerSpec

(* Payouts, projection and ledger agree: the reserved funds are those of   *)
(* the payouts that wait, so no approval finds them missing, what was paid *)
(* had come in, and the projection can be rebuilt from the ledger.         *)
THEOREM PayoutsAreBalanced == LedgerSpec => []PayoutsBalance
<1>1. ReservedInv => PayoutsBalance
  <2> SUFFICES ASSUME ReservedInv PROVE PayoutsBalance
    OBVIOUS
  <2> USE DEF ReservedInv, LedgerInv
  <2>1. \A k \in EntryKinds : total[k] \in Nat
    BY DEF LedgerTypeOK
  <2>2. NoOverspend
    BY <2>1, KindsDistinct
       DEF LedgerTypeOK, Conserved, DebtBounded, NoOverspend, Uncorrected
  <2>3. NetRebuilds
    BY <2>1, KindsDistinct
       DEF LedgerTypeOK, Conserved, EntriesMatch, NetRebuilds, NetAvailable,
           Rebuilt, AboveZero
  <2> QED BY <2>2, <2>3 DEF PayoutsBalance
<1> QED BY <1>1, ReservedInvCorrect, PTL
=============================================================================
