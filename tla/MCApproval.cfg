SPECIFICATION Spec
CONSTANTS
  d0 = d0
  d1 = d1
  d2 = d2
  a1 = a1
  a2 = a2
  a3 = a3
  i1 = i1
  i2 = i2
  r1 = r1
  r2 = r2
  q1 = q1
  q2 = q2
  Docs <- MCDocs
  LegacyDocs <- MCLegacyDocs
  Actors <- MCActors
  CreatedBy <- MCCreatedBy
  Insts <- MCInsts
  Routes <- MCRoutes
  RouteStages <- MCRouteStages
  Forms = {"form"}
  Reqs <- MCReqs
INVARIANTS
  TypeOK
  OneReview
  StageShape
  FourEyes
  ApprovedChain
  AuditTrail
PROPERTIES
  LegalSteps
  EndedStaysEnded
  NoLateSignoff
  ImplementsReview
SYMMETRY Symmetry
CHECK_DEADLOCK FALSE
