SPECIFICATION Spec
CONSTANTS
  h1 = h1
  h2 = h2
  NULL = NULL
  NaN = NaN
  Deleted = Deleted
  Students = {u1, u2}
  Teachers = {t1}
  Sessions = {s1}
  Bookings = {b1, b2, b3}
  Intents = {}
  Handlers = {h1, h2}
  Dates = {0}
  SlotInputs = {5, NULL, NaN}
  ChargeInputs = {5}
  BodyColumns = {"slots_available"}
  TenSeconds = 1
  OneHour = 1
  ThreeHours = 2
  MaxClock = 0
  MaxFaults = 1
SYMMETRY FreshSymmetry
INVARIANT SlotsAccounted
CHECK_DEADLOCK FALSE
