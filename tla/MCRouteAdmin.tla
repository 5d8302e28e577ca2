---------------------------- MODULE MCRouteAdmin ----------------------------
(***************************************************************************)
(* An instance of RouteAdmin for TLC: an administrator, an author in the   *)
(* documents' area and one in another, two profiles, stage lists of one    *)
(* and two stages, and lists that validation must refuse (a gap in the     *)
(* order, a name twice, m_of_n without M).                                 *)
(***************************************************************************)
EXTENDS RouteAdmin, TLC

CONSTANTS r1, r2, t1, t2, s1, s2

MCMembers == {
  [user |-> "ana", area |-> "production", role |-> "qms_admin"],
  [user |-> "rui", area |-> "quality",    role |-> "author"],
  [user |-> "eva", area |-> "production", role |-> "author"] }

Stage(k, n, q, m) == [order |-> k, name |-> n, quorum |-> q, m |-> m]

MCLists == {
  <<Stage(1, "quality", "any_1_of", 0)>>,
  <<Stage(1, "quality", "all_of", 0), Stage(2, "board", "m_of_n", 2)>>,
  <<Stage(2, "board", "any_1_of", 0)>>,
  <<Stage(1, "board", "any_1_of", 0), Stage(2, "board", "any_1_of", 0)>>,
  <<Stage(1, "board", "m_of_n", 0)>> }

Symmetry == Permutations({r1, r2}) \cup Permutations({t1, t2}) \cup Permutations({s1, s2})
=============================================================================
