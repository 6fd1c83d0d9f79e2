SPECIFICATION StudentsSpec
CONSTANTS
  NULL = NULL
  Gone = Gone
  e1 = e1
  e2 = e2
  e3 = e3
  Accounts = {u1, u2}
  Emails = {e1, e2, e3}
  Codes = {c1, c2}
  Requests = {r1, r2}
  Kinds = {"forgot", "resend", "requestChange", "reset", "verify", "changeEmail", "password"}
  TypeInputs = {}
  OtpLife = 1
  LinkLife = 2
  MaxClock = 0
  MaxFaults = 1
  MaxMail = 1
SYMMETRY AccountsSymmetry
INVARIANT WrittenByItsOwn
INVARIANT CodeUsedOnce
CHECK_DEADLOCK FALSE
