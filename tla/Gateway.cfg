SPECIFICATION Spec
CONSTANTS
  NULL = NULL
  Users = {u1}
  Sockets = {s1, s2, s3}
  Names = {n1}
  MaxFailures = 1
  MaxCrashes = 1
INVARIANT RoutesToOpenSocket
INVARIANT StatusFollowsConnection
PROPERTY StaysOnline
CHECK_DEADLOCK FALSE
