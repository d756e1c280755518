SPECIFICATION SceneSpec
CONSTANTS
  Orders = {o1, o2, o3, o4}
  Users = {u1, u2}
  UserOf <- HalfEach
  UsageLimit = 2
  PerUserLimit = 1
  Plans = {m1, m2}
  Calls = {c1, c2}
  IncludedHours = 2
  Trips = {t1, t2}
  MaxGrants = 1
  Void = Void
  Dates = {d1, d2}
  Kids = {k1, k2, k3}
  Makers = {w1, w2}
  Cancellers = {x1}
  Guests = {g1, g2}
  MaxTakes = 2
  Nought = Nought
  Rules = {1, 2}
  Lengths = {3, 4, 9}
  Rates = {0, 2, 3}
  PackPrices = {0, 11}
  Changes <- ThreeChanges
  ExtraPrice = 1
  Percent = 10
  MaxEdits = 3
  Spaces = {s1}
  Times = {t3, t4}
  Length <- FourHours
  Requests = {q1, q2}
  MaxClicks = 5
  Bookings = {b1, b2, b3}
  Customers = {u3, u4}
  CustomerOf <- OneAnother
  Instances = {i1, i2}
  InstanceOf <- AllButOne
  Slots = {1, 2}
  Closures = {k4}
  TTL = 2
  MaxSwitches = 1
  MaxMoves = 1
  Missing = Missing
SYMMETRY Alike
INVARIANTS CouponCounts CreditsBalance OccurrencesOwn PreviewHolds OneBooking BlackoutsTold
PROPERTY SwitchBinds
CHECK_DEADLOCK FALSE
