----------------------------- MODULE MCWorkflow -----------------------------
(***************************************************************************)
(* One legacy document about to expire, in any status, a requester and a   *)
(* reviewer, one transition, two workers that race for the events, a PDF   *)
(* job that may fail for ever, and one fault of a statement or a process.  *)
(***************************************************************************)
EXTENDS Workflow
CONSTANT u1

MCOwner == [d \in Docs |-> u1]
=============================================================================
