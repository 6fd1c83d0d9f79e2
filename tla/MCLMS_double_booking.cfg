SPECIFICATION Spec
CONSTANTS
  h1 = h1
  h2 = h2
  NULL = NULL
  NaN = NaN
  Deleted = Deleted
  Students = {u1}
  Teachers = {t1}
  Sessions = {s1}
  Bookings = {b1, b2}
  Intents = {i1}
  Handlers = {h1, h2}
  Dates = {0}
  SlotInputs = {1}
  ChargeInputs = {5}
  BodyColumns = {"available_slots"}
  TenSeconds = 1
  OneHour = 1
  ThreeHours = 2
  MaxClock = 2
  MaxFaults = 0
INVARIANT NoDoubleBooking
CHECK_DEADLOCK FALSE
