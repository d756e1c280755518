SPECIFICATION FairSettlement
CONSTANTS
  Payments = {s1}
  Refunds = {}
  Payouts = {o1}
  Amounts = {1}
  MinPayout = 1
  Sessions = {s1}
  Manuals = {}
  Events = {e1, e2, e3}
  SessionOf <- Same
  Outcome <- PaidFailedExpired
  Workers = {w1, w2}
  Price = 1
  Quotes = {2}
  None = None
  s1 = s1
  s2 = s2
  m1 = m1
  e1 = e1
  e2 = e2
  e3 = e3
  w1 = w1
  w2 = w2
  o1 = o1
PROPERTIES OutcomesFinal PaidSettles
CHECK_DEADLOCK FALSE
CONSTRAINTS OneFailure PayoutsApart
