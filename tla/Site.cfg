SPECIFICATION SceneSpec
CONSTANTS
  BranchPages = {p1}
  SpacePages = {p2}
  Customers = {a1}
  Hosts = {a2}
  Files = {f1, f2, f3}
  Users = {u1, u2, u3}
  Requests = {r1, r2}
  MaxVersion = 2
  MaxReports = 2
  Nil = Nil
  Owners = {h1, h2}
  Branches = {b1, b2, b3}
  OwnerOf <- FirstOwns
  Staffers = {s1}
  Keys = {k1}
  Visits = {v1}
  Everywhere = {"all"}
  Slugs = {g1}
  Paths = {q1, q2}
  Words = {w1}
  Editors = {e1, e2}
  Tokens = {t1}
  Publishers = {o1, o2}
  MaxEdits = 3
  MaxHops = 4
  MaxAttempts = 2
  MaxClaims = 3
  Absent = Absent
  Here = Here
  Calls = {1, 2, 3, 4}
  Passwords = {y1}
  Logins = {1, 2}
  MailTokens = {1, 2}
  Resets = {1}
  Challenges = {c1, c2}
  Enrolling = {c2}
  Recovery = {x1}
  Device = 2
  MaxTries = 1
  None = None
SYMMETRY Alike
INVARIANTS EditsSurvive StaffScoped EndedStaysEnded
PROPERTY EditsHold
CHECK_DEADLOCK FALSE
