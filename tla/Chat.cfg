SPECIFICATION Spec
CONSTANTS
  NULL = NULL
  Gone = Gone
  Users = {u1, u2}
  Conversations = {c1, c2}
  Messages = {m1, m2}
  Requests = {r1, r2}
  MaxFaults = 1
INVARIANT MessageHasConversation
INVARIANT StoredIsAnnounced
INVARIANT ConversationsUnique
CHECK_DEADLOCK FALSE
