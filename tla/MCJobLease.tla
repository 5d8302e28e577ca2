------------------------------ MODULE MCJobLease ------------------------------
(***************************************************************************)
(* Instances of JobLease for TLC: two processes, the reaper and one other  *)
(* job, leases of one time unit.                                           *)
(***************************************************************************)
EXTENDS JobLease, TLC

CONSTANTS p1, p2

MCLeaders == {p1, p2}
=============================================================================
