SPECIFICATION WfSpec
CONSTANTS
  Workers = {w1}
  u1 = u1
  Users = {u1, u2}
  Docs = {d1}
  Owner <- MCOwner
  Expiring = {d1}
  Revisions = {v1, v2}
  Flaky = {}
  Batch = 2
  MaxAttempts = 2
  Limit = 50
  MaxRequests = 0
  MaxFaults = 0
  None = none
  Requests = {r1}
PROPERTIES PDFWritten
CHECK_DEADLOCK FALSE
