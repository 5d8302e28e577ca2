------------------------------ MODULE MCIdentity ------------------------------
(* Two accounts, two requests in flight, a clock of two ticks.               *)
EXTENDS Identity, TLC

CONSTANTS root, ann, p1, p2, s1, r1, r2
MCRoleSets == {{"admin"}, {"viewer"}}
MCSymmetry == Permutations({r1, r2})
===============================================================================
