SPECIFICATION SceneSpec
CONSTANTS
  Payments = {s1, s2, m1}
  Refunds = {r1, r2}
  Payouts = {o1, o2}
  Amounts = {1, 2}
  MinPayout = 1
  Sessions = {s1, s2}
  Manuals = {m1}
  Events = {e1, e2, e3}
  SessionOf <- SessionsOfThree
  Outcome <- PaidPaidExpired
  Workers = {w1}
  Price = 2
  Quotes = {}
  None = None
  s1 = s1
  s2 = s2
  m1 = m1
  e1 = e1
  e2 = e2
  e3 = e3
  w1 = w1
  w2 = w2
  o1 = o1
  o2 = o2
  r1 = r1
  r2 = r2
SYMMETRY Symmetry
INVARIANTS Conserved PayoutsBalance CapRespected PaymentsCredited
CHECK_DEADLOCK FALSE
