SPECIFICATION CatSpec
CONSTANTS
  Requests = {r1, r2}
  po = po
  v1 = v1
  Unassigned = una
  None = none
  Profiles = {po, una}
  Areas = {qa, una}
  Seeded = {po, qa}
  Users = {u1}
  Roles = {viewer, approver}
  Versions = {v1}
  VersionProfile <- MCVersionProfile
  Legacy = {l1, l2}
  Prefix <- MCPrefix
  Conns = 2
  MaxDocs = 3
  MaxRequests = 2
PROPERTY NumberingEnds
CHECK_DEADLOCK FALSE
