---------------------------- MODULE MCCatalogue ----------------------------
(***************************************************************************)
(* A seeded profile and area, the "unassigned" ones that may be created,   *)
(* one template version, one user, two old documents whose ids start alike,*)
(* two requests in flight.                                                 *)
(***************************************************************************)
EXTENDS Catalogue, TLC
CONSTANTS po, v1

MCVersionProfile == [v \in Versions |-> po]
MCPrefix == [l \in Legacy |-> 7]
\* The requests, the roles and the old documents are interchangeable.
Symm == Permutations(Requests) \cup Permutations(Roles)
        \cup Permutations(Legacy)
=============================================================================
