---------------------------- MODULE ApprovalRules ----------------------------
(***************************************************************************)
(* The pure rules of the approval workflow, as                             *)
(* internal/modules/documents_v2/approval/domain states them: the document *)
(* state graph, route validation, stage advancement, quorum evaluation,    *)
(* eligibility drift and separation of duties.  No state, no clock.        *)
(*                                                                         *)
(* A stage configuration is a record [quorum, m]; m = 0 stands for the nil *)
(* QuorumM pointer.  Votes are sets of actors: UNIQUE(instance, actor)     *)
(* lets an actor sign an instance once, so counting actors counts rows.    *)
(***************************************************************************)
EXTENDS Integers, Sequences, FiniteSets

DocStates == {"draft", "under_review", "approved", "rejected", "scheduled",
              "published", "superseded", "obsolete"}

(* The Spec 2 graph: legal successors of each document state. *)
legalTransitions(s) ==
  CASE s = "draft"        -> {"under_review"}
    [] s = "under_review" -> {"approved", "rejected"}
    [] s = "rejected"     -> {"draft"}
    [] s = "approved"     -> {"published", "scheduled", "draft"}
    [] s = "scheduled"    -> {"published", "draft"}
    [] s = "published"    -> {"superseded", "obsolete"}
    [] s = "superseded"   -> {"obsolete"}
    [] OTHER              -> {}

(* The database trigger admits the graph and, inside a cancel transaction,  *)
(* the edge from under_review back to draft.                                *)
TriggerAllows(s, t) ==
  \/ s = t
  \/ t \in legalTransitions(s)
  \/ s = "under_review" /\ t = "draft"

Policies == {"any_1_of", "all_of", "m_of_n"}
StageConfig == [quorum : Policies, m : Nat]
StageStates == {"pending", "active", "completed", "skipped", "rejected_here",
                "cancelled"}

(* Route.Validate: at least one stage, M present exactly for m_of_n.  The   *)
(* dense order is the sequence itself; stage names are not modelled.        *)
ValidRoute(route) ==
  /\ Len(route) >= 1
  /\ \A k \in 1..Len(route) : (route[k].quorum = "m_of_n") <=> (route[k].m >= 1)

-----------------------------------------------------------------------------
(* Instance.Active: the first active stage, 0 for nil. *)
Active(stage) ==
  IF \E k \in DOMAIN stage : stage[k] = "active"
  THEN CHOOSE k \in DOMAIN stage :
         /\ stage[k] = "active"
         /\ \A j \in DOMAIN stage : stage[j] = "active" => k <= j
  ELSE 0

(* The stage AdvanceStage and SkipStage activate after stage k: the first   *)
(* pending one past it, 0 when none is left and the instance is approved.   *)
NextPending(stage, k) ==
  IF \E j \in DOMAIN stage : j > k /\ stage[j] = "pending"
  THEN CHOOSE j \in DOMAIN stage :
         /\ j > k /\ stage[j] = "pending"
         /\ \A n \in DOMAIN stage : n > k /\ stage[n] = "pending" => j <= n
  ELSE 0

-----------------------------------------------------------------------------
(* ComputeEffectiveDenominator followed by RecordSignoff's two fallbacks:   *)
(* the snapshot itself is passed as the current set, and an empty set       *)
(* counts as one eligible actor.                                            *)
EffectiveDenominator(eligible) ==
  IF eligible = {} THEN 1 ELSE Cardinality(eligible)

(* Votes that count: those of eligible actors, or all without a set. *)
Counted(eligible, votes) ==
  IF eligible = {} THEN votes ELSE votes \cap eligible

(* Mutant: the counts are compared with > where the code has >=. *)
EvaluateQuorum_Strict(cfg, eligible, approvals, rejections, denominator) ==
  LET approve == Cardinality(Counted(eligible, approvals))
      reject  == Cardinality(Counted(eligible, rejections))
  IN IF cfg.quorum = "all_of" /\ reject >= 1 THEN "rejected_stage"
     ELSE IF approve > denominator THEN "approved_stage" ELSE "pending"

(* A missing M counts as one. *)
EvaluateQuorum(cfg, eligible, approvals, rejections, denominator) ==
  LET approve == Cardinality(Counted(eligible, approvals))
      reject  == Cardinality(Counted(eligible, rejections))
      m       == IF cfg.m = 0 THEN 1 ELSE cfg.m
  IN CASE denominator = 0 -> "rejected_stage"
       [] denominator # 0 /\ cfg.quorum = "any_1_of" ->
            IF approve >= 1 THEN "approved_stage"
            ELSE IF reject >= 1 THEN "rejected_stage" ELSE "pending"
       [] denominator # 0 /\ cfg.quorum = "all_of" ->
            IF reject >= 1 THEN "rejected_stage"
            ELSE IF approve >= denominator THEN "approved_stage" ELSE "pending"
       [] OTHER ->
            IF approve >= m THEN "approved_stage"
            ELSE IF reject > denominator - m THEN "rejected_stage" ELSE "pending"

(* Mutant: the submitter is not compared. *)
CheckSoD_PriorOnly(author, actor, priorActors) == actor \notin priorActors

(* CheckSoD: the submitter may not sign, nor whoever signed another stage.  *)
CheckSoD(author, actor, priorActors) ==
  actor # author /\ actor \notin priorActors
=============================================================================
