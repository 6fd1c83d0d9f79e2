SPECIFICATION TutorSpec
CONSTANTS
  NULL = NULL
  Gone = Gone
  e1 = e1
  e2 = e2
  e3 = e3
  Accounts = {u1}
  Emails = {e1, e2}
  Codes = {}
  Requests = {r1, r2}
  Kinds = {"decide", "delete", "restrict", "unrestrict", "login", "logout", "update", "resend"}
  TypeInputs = {"student"}
  OtpLife = 1
  LinkLife = 2
  MaxClock = 0
  MaxFaults = 1
  MaxMail = 2
SYMMETRY AccountsSymmetry
INVARIANT LastLetterIsTrue
INVARIANT CountedOnce
CHECK_DEADLOCK FALSE
