SPECIFICATION FairMessaging
CONSTANTS
  Envelopes = {v1}
  Secret = {}
  Publishers = {p1, p2}
  Consumers = {k1, k2}
  Admins = {a1}
  MaxPublish = 2
  MaxDeaths = 1
  MaxCopies = 2
  NoOne = NoOne
  Notes = {n1}
  Texts = {t1}
  TextOf <- OneText
  Senders = {s1, s2}
  MaxSends = 2
  Endpoints = {b1, b2, b3}
  MaxActive = 2
  Requests = {q1, q2, q3}
  Nil = Nil
INVARIANTS DeliveredOnce SentOnce
PROPERTIES Announced
CHECK_DEADLOCK FALSE
