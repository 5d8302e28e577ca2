CONSTANTS
  root = root
  ann = ann
  p1 = p1
  p2 = p2
  s1 = s1
  r1 = r1
  r2 = r2
  Users = {root, ann}
  Root = root
  Passwords = {p1, p2}
  RootPassword = p1
  Sessions = {s1}
  Requests = {r1, r2}
  Routes = {"read", "manage", "password"}
  RoleSets <- MCRoleSets
  LegacyHeader = TRUE
  MaxFailed = 2
  LockDuration = 1
  SessionTTL = 1
  CacheTTL = 1
  MaxTime = 2
  MaxRequests = 3
  MaxCrashes = 1
SPECIFICATION IdSpec
SYMMETRY MCSymmetry
INVARIANTS
  AdmittedHeld
  LockEarned
  AdminAfterBoot
CHECK_DEADLOCK FALSE
