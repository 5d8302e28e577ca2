SPECIFICATION EditorSpec
CONSTANTS
  u1 = u1
  u2 = u2
  u3 = u3
  s1 = s1
  s2 = s2
  s3 = s3
  h0 = h0
  h1 = h1
  h2 = h2
  Users <- MCUsers
  Admins <- MCAdmins
  Sids = {s1, s2, s3}
  Hashes <- MCHashes
  Initial = h0
  Creator = u1
  NoRev = NoRev
  NoSid = NoSid
  MaxCheckpoints = 1
  MaxPending = 2
  MaxCommits = 2
INVARIANTS
  PointerIsWriter
  UploadsMatchRevisions
PROPERTIES
  HeadMovedByWriter
  OneLateSave
SYMMETRY Symmetry
