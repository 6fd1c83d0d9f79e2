SPECIFICATION RegisterSpec
CONSTANTS
  NULL = NULL
  Gone = Gone
  e1 = e1
  e2 = e2
  e3 = e3
  Accounts = {u1, u2}
  Emails = {e1}
  Codes = {c1, c2}
  Requests = {r1, r2}
  Kinds = {"register", "google", "linkedin", "verify", "delete", "create", "approve", "reject"}
  TypeInputs = {"student", "teacher"}
  OtpLife = 1
  LinkLife = 0
  MaxClock = 1
  MaxFaults = 1
  MaxMail = 2
PROPERTY AccountKept
PROPERTY RegisteredGetsLink
CHECK_DEADLOCK FALSE
