SPECIFICATION RefundsSpec
CONSTANTS
  Payments = {p1, g1}
  Refunds = {r1, r2}
  Payouts = {}
  Amounts = {1, 2}
  MinPayout = 1
  Collects <- CollectsOne
  Methods <- ByWallet
  Disputes = {d1}
  Submitters = {w1, w2}
  Nothing = Nothing
  p1 = p1
  g1 = g1
  r1 = r1
  r2 = r2
  d1 = d1
  w1 = w1
  w2 = w2
SYMMETRY Symmetry
CONSTRAINT Uncrowded
INVARIANTS AmountsAgree DebitsSound DisputeNotForgotten
PROPERTY LedgerBehaves
CHECK_DEADLOCK FALSE
