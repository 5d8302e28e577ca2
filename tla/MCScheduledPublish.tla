-------------------------- MODULE MCScheduledPublish --------------------------
(***************************************************************************)
(* Instances of ScheduledPublish for TLC: two processes, two documents due *)
(* and one approved, leases of one time unit.                              *)
(***************************************************************************)
EXTENDS ScheduledPublish, TLC

CONSTANTS p1, p2, s1, s2, d1

MCLeaders == {p1, p2}
MCDocs == {s1, s2, d1}
MCScheduled == {s1, s2}
=============================================================================
