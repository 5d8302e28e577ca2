SPECIFICATION FairSchedSpec
CONSTANTS
  p1 = p1
  p2 = p2
  s1 = s1
  s2 = s2
  d1 = d1
  Leaders <- MCLeaders
  Jobs = {"publisher", "reaper"}
  Reaper = "reaper"
  TTL = 1
  ReapAfter = 1
  MaxEpoch = 3
  Docs <- MCDocs
  Scheduled <- MCScheduled
  Publisher = "publisher"
INVARIANTS
  PublishedOnce
PROPERTY DuePublished
