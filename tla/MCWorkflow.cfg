SPECIFICATION WfSpec
CONSTANTS
  Workers = {w1, w2}
  u1 = u1
  Users = {u1, u2}
  Docs = {d1}
  Owner <- MCOwner
  Expiring = {d1}
  Revisions = {v1}
  Flaky = {v1}
  Batch = 2
  MaxAttempts = 2
  Limit = 50
  MaxRequests = 1
  MaxFaults = 1
  None = none
  Requests = {r1}
INVARIANTS PublishedHandled Announced
PROPERTIES OneNotification Delivered
CHECK_DEADLOCK FALSE
