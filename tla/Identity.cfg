SPECIFICATION SceneSpec
CONSTANTS
  Requests = {1, 2, 3, 4}
  Passwords = {p1, p2}
  Sids = {s1, s2}
  PreAuths = {a1}
  Otps = {o1, o2}
  Mails = {m1}
  Challenges = {c1, c2, c3}
  ForRegistration = {c1}
  Codes = {k1}
  Secrets = {x1}
  MaxTries = 1
  Device = 2
  Lookups = {g1}
  TTL = 2
  TimeOut = 1
  MaxEntries = 1
  None = None
  Instances = {i1, i2}
  Holders = {u1, u2}
  Signed = {t1, t2}
  MaxSeeds = 2
  a1 = a1
  c1 = c1
  c2 = c2
  c3 = c3
  k1 = k1
  m1 = m1
  o1 = o1
  o2 = o2
  p1 = p1
  p2 = p2
  s1 = s1
  s2 = s2
  x1 = x1
  g1 = g1
INVARIANTS RevocationHolds OneTime GuessesBounded RevocationsAnnounced StaleLimited KeysOverlap
CHECK_DEADLOCK FALSE
