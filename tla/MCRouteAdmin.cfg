SPECIFICATION RouteSpec
CONSTANTS
  r1 = r1
  r2 = r2
  t1 = t1
  t2 = t2
  s1 = s1
  s2 = s2
  Profiles = {"po", "it"}
  RouteIds = {r1, r2}
  Users = {"ana", "rui", "eva"}
  Members <- MCMembers
  DocArea = "quality"
  Lists <- MCLists
  Txs = {t1, t2}
  Subs = {s1, s2}
  NoTx = NoTx
  MaxVersion = 3
INVARIANTS
  SnapshotWhole
PROPERTY RouteFrozen
SYMMETRY Symmetry
CHECK_DEADLOCK FALSE
