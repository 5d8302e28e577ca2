CONSTANTS
  ann = ann
  bob = bob
  cyd = cyd
  r1 = r1
  r2 = r2
  c1 = c1
  none = none
  norole = norole
  nohash = nohash
  Users = {ann, bob, cyd}
  Writers = {ann}
  RolesOf <- MCRolesOf
  Configs <- MCConfigs
  Contents = {c1}
  Schemas <- MCSchemas
  EmptySchema <- MCEmpty
  Requests = {r1, r2}
  MaxVersions = 2
  MaxRequests = 7
  NoOne = none
  NoRole = norole
  NoHash = nohash
SPECIFICATION TplSpec
SYMMETRY MCSymmetry
INVARIANTS
  SignedOff
  Contiguous
  SchemasSound
CHECK_DEADLOCK FALSE
