SPECIFICATION SupportSpec
CONSTANTS
  NULL = NULL
  Events = {v1, v2}
  Notifications = {n1}
  Users = {a1, a2}
  Admins = {a1, a2}
  Calls = {c1, c2}
  TextTypes = {"contact_message", "help_and_support_status_updated"}
  PlainTypes = {"session_booking"}
  Texts = {"hello", "solved", "unsolved"}
  MaxFaults = 1
  Messages = {m1}
  Questions = {q1, q2}
  Workers = {w1}
SYMMETRY SupportSymmetry
INVARIANT LinkedAsAsked
INVARIANT EventsUnique
INVARIANT AdminsTold
INVARIANT FaqIsBatch
CHECK_DEADLOCK FALSE
