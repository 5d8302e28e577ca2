------------------------------ MODULE MCApproval ------------------------------
(***************************************************************************)
(* Instances of Approval for TLC.  d1 and d2 are drafts, d0 was published  *)
(* before the workflow existed; a1 created all three.  The routes are a    *)
(* two-stage one (any_1_of, then all_of) and a one-stage m_of_n with       *)
(* M = 2.  Two instance ids allow a cancelled or rejected review and one   *)
(* more, or one of each draft; two requests race with each other and with  *)
(* every other operation.                                                  *)
(***************************************************************************)
EXTENDS ApprovalRefinement, TLC

CONSTANTS d0, d1, d2, a1, a2, a3, i1, i2, r1, r2, q1, q2

MCDocs == {d0, d1, d2}
MCLegacyDocs == {d0}
MCActors == {a1, a2, a3}
MCCreatedBy == [d \in MCDocs |-> a1]
MCInsts == {i1, i2}
MCRoutes == {r1, r2}
MCRouteStages ==
  (r1 :> <<[quorum |-> "any_1_of", m |-> 0], [quorum |-> "all_of", m |-> 0]>>)
    @@ (r2 :> <<[quorum |-> "m_of_n", m |-> 2]>>)
MCReqs == {q1, q2}

Symmetry == Permutations(MCReqs) \cup Permutations(MCInsts) \cup Permutations({d1, d2})
=============================================================================
