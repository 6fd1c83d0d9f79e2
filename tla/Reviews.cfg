SPECIFICATION Spec
CONSTANTS
  Students = {u1}
  Teachers = {t1}
  Admins = {a1}
  Bookings = {b1}
  Ratings = {g1, g2}
  Requests = {r1, r2}
  MaxFaults = 1
INVARIANT ReviewsBacked
CHECK_DEADLOCK FALSE
