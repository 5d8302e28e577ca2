-------------------------- MODULE ApprovalRefinement --------------------------
(***************************************************************************)
(* The approval workflow implements module Review: a signoff, which is     *)
(* three steps of a request at READ COMMITTED, takes effect in its commit, *)
(* and document, instance, stages and signoffs change together.            *)
(***************************************************************************)
EXTENDS Approval

(* The review of d that counts: the one that was not cancelled. *)
Reviews(d) == {i \in Insts : inst[i].status \notin {"none", "cancelled"} /\ inst[i].doc = d}
OpenReviews(d) == {i \in Reviews(d) : inst[i].status = "in_progress"}

(* A document under review without an open instance was voted down.  Its    *)
(* row still says under_review, where the design of the workflow has it say  *)
(* rejected and offers the author a rework: the README, section 5.           *)
phaseBar ==
  [d \in Docs |-> IF status[d] # "under_review" THEN status[d]
                  ELSE IF OpenReviews(d) # {} THEN "review" ELSE "rejected"]
leftBar ==
  [d \in Docs |-> UNION {{k \in DOMAIN inst[i].stage : inst[i].stage[k] # "completed"} :
                         i \in OpenReviews(d)}]
authorBar == [d \in Docs |-> {inst[i].by : i \in Reviews(d)}]
signersBar == [d \in Docs |-> {s.actor : s \in {t \in signoffs : t.inst \in Reviews(d)}}]

R == INSTANCE Review WITH
       Released0 <- LegacyDocs,
       StageSets <- {DOMAIN RouteStages[r] : r \in Routes},
       phase <- phaseBar, left <- leftBar, author <- authorBar, signers <- signersBar

(* Every behaviour of the approval workflow, its overlapping requests,       *)
(* aborts and lost PDF events included, is a behaviour of Review: each       *)
(* commit is one of its steps and nothing else of it can be seen.  That the  *)
(* workflow takes every step Review offers is not claimed.                   *)
ImplementsReview == R!Spec
=============================================================================
