SPECIFICATION Spec
CONSTANTS
  h1 = h1
  h2 = h2
  NULL = NULL
  NaN = NaN
  Deleted = Deleted
  Students = {u1}
  Teachers = {t1, t2}
  Sessions = {s1}
  Bookings = {b1}
  Intents = {i1}
  Handlers = {h1, h2}
  Dates = {0}
  SlotInputs = {1}
  ChargeInputs = {5}
  BodyColumns = {"available_slots"}
  TenSeconds = 1
  OneHour = 1
  ThreeHours = 2
  MaxClock = 2
  MaxFaults = 1
SYMMETRY FreshSymmetry
INVARIANT TypeOK
INVARIANT References
INVARIANT ReadsStillHold
INVARIANT PaidWasCharged
INVARIANT CompletedWasHeld
INVARIANT RequestsAgree
INVARIANT StatusBackedByFlags
INVARIANT StartReachesSession
INVARIANT PagesAgree
PROPERTY ContractKept
PROPERTY SessionsKept
CHECK_DEADLOCK FALSE
