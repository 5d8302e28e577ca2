CONSTANTS
  t1 = t1
  t2 = t2
  t3 = t3
  w1 = w1
  w2 = w2
  ann = ann
  bob = bob
  Templates <- MCTemplates
  Schema <- MCSchema
  Placeholders <- MCPlaceholders
  Required <- MCRequired
  Resolver <- MCResolver
  Named <- MCNamed
  Accepts <- MCAccepts
  Texts <- MCTexts
  Writers = {w1, w2}
  Approvers = {ann, bob}
  MaxReviews = 2
  MaxAbandoned = 1
SPECIFICATION FillInSpec
INVARIANTS
  FrozenWhole
  ApproversSigned
PROPERTY
  FrozenOnce
