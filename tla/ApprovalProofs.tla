---------------------------- MODULE ApprovalProofs ----------------------------
(***************************************************************************)
(* Proofs about Approval, for any documents, users, routes, contents and   *)
(* number of concurrent requests.  The first half is about reviews and     *)
(* their signoffs.  The second reduces every step to what it does to       *)
(* documents, instances and signoffs (StepKinds) and reads off the kinds   *)
(* that document and reviews agree, that the audit trail counts what       *)
(* happened, and that the workflow implements module Review.               *)
(***************************************************************************)
EXTENDS ApprovalRefinement, TLAPS, FiniteSetTheorems, SequenceTheorems

-----------------------------------------------------------------------------
(* Facts about the records and sequences the state is made of.             *)

(* The fields of an instance, and what tells it from no instance. *)
LEMMA InstanceFields ==
  ASSUME NEW x \in Instance
  PROVE  /\ x.status \in InstStates /\ x.doc \in Docs /\ x.route \in Routes
         /\ x.by \in Actors /\ x.stage \in Seq(StageStates)
         /\ x # NoInst /\ x.status # "none"
BY DEF Instance, NoInst, InstStates

LEMMA NoInstStatus == NoInst.status = "none"
BY DEF NoInst

(* WithStages changes the stages and the status, and nothing else. *)
LEMMA WithStagesFields ==
  ASSUME NEW x \in Instance, NEW st \in Seq(StageStates), NEW s \in InstStates
  PROVE  /\ WithStages(x, st, s) \in Instance
         /\ WithStages(x, st, s).stage = st /\ WithStages(x, st, s).status = s
         /\ WithStages(x, st, s).doc = x.doc /\ WithStages(x, st, s).by = x.by
         /\ WithStages(x, st, s).route = x.route
BY DEF WithStages, Instance

LEMMA SignoffFields ==
  ASSUME NEW s \in Signoff
  PROVE  /\ s.inst \in Insts /\ s.stage \in Nat /\ s.actor \in Actors
         /\ s.decision \in Decisions
BY DEF Signoff

(* A request is idle, has loaded, has inserted or is to dispatch. *)
LEMMA RequestFields ==
  ASSUME NEW x \in Request
  PROVE  /\ x.phase \in {"idle", "loaded", "inserted", "dispatch"}
         /\ x.phase = "idle" => x = Idle
         /\ x.phase \in {"loaded", "inserted"} =>
              x.row \in Signoff /\ x.seen \in Seq(StageStates)
         /\ x.phase = "inserted" =>
              x.outcome \in {"approved_stage", "rejected_stage", "pending"}
         /\ x.phase = "dispatch" => x.doc \in Docs
BY DEF Request, Idle

(* Replacing a stage of a sequence of stages. *)
LEMMA StageExcept ==
  ASSUME NEW st \in Seq(StageStates), NEW k \in DOMAIN st, NEW v \in StageStates
  PROVE  /\ [st EXCEPT ![k] = v] \in Seq(StageStates)
         /\ DOMAIN [st EXCEPT ![k] = v] = DOMAIN st
         /\ [st EXCEPT ![k] = v][k] = v
         /\ \A j \in DOMAIN st : j # k => [st EXCEPT ![k] = v][j] = st[j]
BY ExceptSeq, LenProperties

LEMMA StageDomain ==
  ASSUME NEW st \in Seq(StageStates)
  PROVE  /\ Len(st) \in Nat /\ DOMAIN st = 1..Len(st)
         /\ \A k \in DOMAIN st : st[k] \in StageStates
BY LenProperties, ElementOfSeq

(* Cancelling stages leaves a sequence of stages, none active or pending. *)
LEMMA CancelledShape ==
  ASSUME NEW st \in Seq(StageStates)
  PROVE  /\ CancelledStages(st) \in Seq(StageStates)
         /\ DOMAIN CancelledStages(st) = DOMAIN st
         /\ \A k \in DOMAIN st : CancelledStages(st)[k] =
              IF st[k] \in {"active", "pending"} THEN "cancelled" ELSE st[k]
<1> DEFINE e(k) == IF st[k] \in {"active", "pending"} THEN "cancelled" ELSE st[k]
<1>1. Len(st) \in Nat /\ DOMAIN st = 1..Len(st)
  BY StageDomain
<1>2. \A k \in 1..Len(st) : e(k) \in StageStates
  BY StageDomain DEF StageStates
<1>3. [k \in 1..Len(st) |-> e(k)] \in Seq(StageStates)
  BY <1>1, <1>2, IsASeq
<1> QED BY <1>1, <1>3 DEF CancelledStages

(* What NextPending returns when everything after stage k is pending. *)
LEMMA NextPendingShape ==
  ASSUME NEW st \in Seq(StageStates), NEW k \in DOMAIN st,
         \A j \in DOMAIN st : j > k => st[j] = "pending"
  PROVE  IF k = Len(st) THEN NextPending(st, k) = 0
         ELSE NextPending(st, k) = k + 1 /\ k + 1 \in DOMAIN st
<1>1. Len(st) \in Nat /\ DOMAIN st = 1..Len(st)
  BY StageDomain
<1>2. CASE k = Len(st)
  BY <1>1, <1>2 DEF NextPending
<1>3. CASE k # Len(st)
  <2> DEFINE First(j) == /\ j > k /\ st[j] = "pending"
                         /\ \A n \in DOMAIN st : n > k /\ st[n] = "pending" => j <= n
  <2>1. k + 1 \in DOMAIN st /\ k + 1 > k /\ st[k + 1] = "pending"
    BY <1>1, <1>3
  <2>2. First(k + 1)
    BY <1>1, <2>1
  <2>3. \A j \in DOMAIN st : First(j) => j = k + 1
    BY <1>1, <2>1
  <2>4. (CHOOSE j \in DOMAIN st : First(j)) = k + 1
    BY <2>1, <2>2, <2>3
  <2>5. NextPending(st, k) = CHOOSE j \in DOMAIN st : First(j)
    BY <2>1 DEF NextPending
  <2> QED BY <1>3, <2>1, <2>4, <2>5
<1> QED BY <1>2, <1>3

-----------------------------------------------------------------------------
(* The inductive invariant.                                                *)

(* An instance has one stage per stage of its route, which was valid. *)
RouteOK(i) ==
  inst[i] # NoInst =>
    /\ ValidRoute(RouteStages[inst[i].route])
    /\ Len(inst[i].stage) = Len(RouteStages[inst[i].route])

(* An open signoff is for a stage of its instance, was loaded while nothing  *)
(* after that stage had begun, and is not the submitter's.                   *)
RequestOK(q) ==
  req[q].phase \in {"loaded", "inserted"} =>
    LET row == req[q].row IN
    /\ inst[row.inst] # NoInst
    /\ DOMAIN req[q].seen = DOMAIN inst[row.inst].stage
    /\ row.stage \in DOMAIN req[q].seen
    /\ \A j \in DOMAIN req[q].seen : j > row.stage => req[q].seen[j] = "pending"
    /\ row.actor # inst[row.inst].by

ApprovesStage(s, row) ==
  s.inst = row.inst /\ s.stage = row.stage /\ s.decision = "approve"

(* An inserted signoff is not the creator's and not the actor's second, and  *)
(* it has decided its stage: when in favour, on some approval.               *)
InsertedOK(q) ==
  req[q].phase = "inserted" =>
    LET row == req[q].row IN
    /\ row.actor # CreatedBy[inst[row.inst].doc]
    /\ ~AlreadySigned(row)
    /\ UniqueKeyFree(q)
    /\ req[q].outcome # "pending"
    /\ req[q].outcome = "approved_stage" =>
         \E s \in signoffs \cup {row} : ApprovesStage(s, row)

(* Committed signoffs are of other people, one per actor and instance, and   *)
(* a completed stage has an approval among them.                             *)
SignoffsOK ==
  /\ \A s \in signoffs :
       /\ inst[s.inst] # NoInst
       /\ s.actor \notin {inst[s.inst].by, CreatedBy[inst[s.inst].doc]}
  /\ \A s, t \in signoffs : s.inst = t.inst /\ s.actor = t.actor => s = t
  /\ \A i \in Insts : inst[i] # NoInst =>
       \A k \in DOMAIN inst[i].stage : inst[i].stage[k] = "completed" =>
         \E s \in signoffs : s.inst = i /\ s.stage = k /\ s.decision = "approve"

ReviewInv ==
  /\ TypeOK
  /\ OneReview
  /\ StageShape
  /\ \A i \in Insts : RouteOK(i)
  /\ \A q \in Reqs : RequestOK(q)
  /\ \A q \in Reqs : InsertedOK(q)
  /\ SignoffsOK

-----------------------------------------------------------------------------
(* Type correctness, one step per action.                                  *)

(* The instance of an open signoff. *)
LEMMA RequestInstance ==
  ASSUME TypeOK, NEW q \in Reqs, RequestOK(q), req[q].phase \in {"loaded", "inserted"}
  PROVE  /\ req[q].row \in Signoff /\ req[q].seen \in Seq(StageStates)
         /\ req[q].row.inst \in Insts /\ inst[req[q].row.inst] \in Instance
         /\ req[q].row.stage \in DOMAIN inst[req[q].row.inst].stage
<1>1. req[q] \in Request
  BY DEF TypeOK
<1>2. req[q].row \in Signoff /\ req[q].seen \in Seq(StageStates)
  BY <1>1, RequestFields
<1>3. req[q].row.inst \in Insts
  BY <1>2, SignoffFields
<1> QED BY <1>2, <1>3 DEF TypeOK, RequestOK

(* The document write and the event of the document operations. *)
LEMMA SetStatusType ==
  ASSUME TypeOK, NEW d \in Docs, NEW s \in DocStates, SetStatus(d, s)
  PROVE  status' \in [Docs -> DocStates] /\ rev' \in [Docs -> Nat]
BY DEF TypeOK, SetStatus

LEMMA EmitType ==
  ASSUME TypeOK, NEW d \in Docs, NEW e \in EventTypes, Emit(d, e)
  PROVE  events' \in [Docs -> [EventTypes -> Nat]]
BY DEF TypeOK, Emit

LEMMA RecordRowType ==
  ASSUME TypeOK, NEW q \in Reqs, req[q].row \in Signoff, RecordRow(q)
  PROVE  signoffs' \subseteq Signoff /\ recorded' \in [Insts -> Nat]
<1>1. req[q].row.inst \in Insts
  BY SignoffFields
<1> QED BY <1>1 DEF TypeOK, RecordRow

LEMMA SubmitType ==
  ASSUME TypeOK, NEW d \in Docs, NEW a \in Actors, NEW r \in Routes, NEW i \in Insts,
         NEW f \in Forms, SubmitRevisionForReview(d, a, r, i, f)
  PROVE  /\ TypeOK'
         /\ inst'[i] \in Instance /\ inst'[i].doc = d /\ inst'[i].by = a
         /\ inst'[i].route = r /\ inst'[i].status = "in_progress"
         /\ inst'[i].stage = [k \in 1..Len(RouteStages[r]) |->
                                IF k = 1 THEN "active" ELSE "pending"]
         /\ Len(inst'[i].stage) = Len(RouteStages[r])
         /\ \A j \in Insts \ {i} : inst'[j] = inst[j]
<1> DEFINE st == [k \in 1..Len(RouteStages[r]) |-> IF k = 1 THEN "active" ELSE "pending"]
           new == [status |-> "in_progress", doc |-> d, route |-> r, by |-> a,
                   hash |-> ContentHash(d, rev[d], f), stage |-> st]
<1>1. Len(RouteStages[r]) \in Nat
  BY ConstantsAssumption, LenProperties
<1>2. st \in Seq(StageStates) /\ Len(st) = Len(RouteStages[r])
  <2> DEFINE e(k) == IF k = 1 THEN "active" ELSE "pending"
  <2>1. \A k \in 1..Len(RouteStages[r]) : e(k) \in StageStates
    BY DEF StageStates
  <2>2. [k \in 1..Len(RouteStages[r]) |-> e(k)] \in Seq(StageStates)
    BY <1>1, <2>1, IsASeq
  <2> QED BY <1>1, <2>2, LenProperties
<1>3. ContentHash(d, rev[d], f) \in [id : Docs, rev : Nat, form : Forms]
  BY DEF ContentHash, TypeOK
<1>4. inst' = [inst EXCEPT ![i] = new]
  BY DEF SubmitRevisionForReview
<1> HIDE DEF st
<1>5. new \in Instance
  BY <1>2, <1>3 DEF Instance, InstStates
<1>6. inst'[i] = new /\ \A j \in Insts \ {i} : inst'[j] = inst[j]
  BY <1>4 DEF TypeOK
<1>7. inst' \in [Insts -> Instance \cup {NoInst}]
  BY <1>4, <1>5 DEF TypeOK
<1>8. status' \in [Docs -> DocStates] /\ rev' \in [Docs -> Nat]
  BY SetStatusType DEF SubmitRevisionForReview, DocStates
<1>9. events' \in [Docs -> [EventTypes -> Nat]]
  BY EmitType DEF SubmitRevisionForReview, EventTypes
<1>10. TypeOK'
  BY <1>7, <1>8, <1>9 DEF SubmitRevisionForReview, TypeOK
<1> QED BY <1>2, <1>5, <1>6, <1>10 DEF st

(* The steps of a request that touch nothing but the request itself. *)
LEMMA RequestStepType ==
  ASSUME TypeOK, NEW q \in Reqs, NEW x \in Request, req' = [req EXCEPT ![q] = x],
         UNCHANGED <<status, rev, frozen, inst, signoffs, events, recorded>>,
         pdf' \in SUBSET Docs
  PROVE  /\ TypeOK'
         /\ req'[q] = x /\ \A p \in Reqs \ {q} : req'[p] = req[p]
BY DEF TypeOK

LEMMA IdleRequest == Idle \in Request /\ Idle.phase = "idle"
BY DEF Idle, Request

(* A commit that leaves the instance with stages st and status s, and the    *)
(* request as x; only an approval writes the document.                       *)
CommitsTo(q, st, s, x) ==
  /\ inst' = [inst EXCEPT ![req[q].row.inst] =
                WithStages(inst[req[q].row.inst], st, s)]
  /\ RecordRow(q)
  /\ req' = [req EXCEPT ![q] = x]
  /\ frozen' \in [Docs -> BOOLEAN]
  /\ UNCHANGED <<pdf, events>>
  /\ \/ s # "approved" /\ UNCHANGED <<status, rev>>
     \/ s = "approved" /\ SetStatus(inst[req[q].row.inst].doc, "approved")

(* What the state then says of the instance and of the requests. *)
Committed(q, st, s, x) ==
  LET i == req[q].row.inst IN
  /\ inst'[i] \in Instance /\ inst'[i].stage = st /\ inst'[i].status = s
  /\ inst'[i].doc = inst[i].doc /\ inst'[i].by = inst[i].by
  /\ inst'[i].route = inst[i].route
  /\ \A j \in Insts \ {i} : inst'[j] = inst[j]
  /\ req'[q] = x /\ \A p \in Reqs \ {q} : req'[p] = req[p]

(* The commits: stages and status of one instance, the row and its event. *)
LEMMA CommitType ==
  ASSUME TypeOK, NEW q \in Reqs, req[q].row \in Signoff,
         inst[req[q].row.inst] \in Instance,
         NEW st \in Seq(StageStates), NEW s \in InstStates, NEW x \in Request,
         CommitsTo(q, st, s, x),
         status' \in [Docs -> DocStates], rev' \in [Docs -> Nat]
  PROVE  TypeOK' /\ Committed(q, st, s, x)
<1> DEFINE i == req[q].row.inst
           new == WithStages(inst[i], st, s)
<1>1. i \in Insts
  BY SignoffFields
<1>2. /\ new \in Instance /\ new.stage = st /\ new.status = s
      /\ new.doc = inst[i].doc /\ new.by = inst[i].by /\ new.route = inst[i].route
  BY WithStagesFields
<1>3. /\ inst' = [inst EXCEPT ![i] = new] /\ RecordRow(q)
      /\ req' = [req EXCEPT ![q] = x] /\ frozen' \in [Docs -> BOOLEAN]
      /\ UNCHANGED <<pdf, events>>
  BY DEF CommitsTo
<1> HIDE DEF new
<1>4. inst' \in [Insts -> Instance \cup {NoInst}] /\ inst'[i] = new
  BY <1>1, <1>2, <1>3 DEF TypeOK
<1>5. \A j \in Insts \ {i} : inst'[j] = inst[j]
  BY <1>3 DEF TypeOK
<1>6. signoffs' \subseteq Signoff /\ recorded' \in [Insts -> Nat]
  BY <1>3, RecordRowType
<1>7. TypeOK'
  BY <1>3, <1>4, <1>6 DEF TypeOK
<1>8. req'[q] = x /\ \A p \in Reqs \ {q} : req'[p] = req[p]
  BY <1>3 DEF TypeOK
<1> QED BY <1>2, <1>4, <1>5, <1>7, <1>8 DEF Committed

-----------------------------------------------------------------------------
(* With no eligible set, as every stage instance has, a vote decides its     *)
(* stage, and in favour only when there is an approval.                      *)
LEMMA QuorumDecides ==
  ASSUME NEW cfg \in StageConfig, (cfg.quorum = "m_of_n") <=> (cfg.m >= 1),
         NEW A, NEW N, IsFiniteSet(A), IsFiniteSet(N), A # {} \/ N # {}
  PROVE  LET o == EvaluateQuorum(cfg, {}, A, N, EffectiveDenominator({})) IN
         /\ o \in {"approved_stage", "rejected_stage"}
         /\ o = "approved_stage" => A # {}
<1>1. Cardinality(A) \in Nat /\ Cardinality(N) \in Nat
  BY FS_CardinalityType
<1>2. /\ Cardinality(A) = 0 <=> A = {}
      /\ Cardinality(N) = 0 <=> N = {}
  BY FS_EmptySet
<1>3. cfg.quorum \in Policies /\ cfg.m \in Nat
  BY DEF StageConfig
<1>4. Counted({}, A) = A /\ Counted({}, N) = N /\ EffectiveDenominator({}) = 1
  BY DEF Counted, EffectiveDenominator
<1>5. CASE cfg.quorum = "any_1_of"
  BY <1>1, <1>2, <1>4, <1>5 DEF EvaluateQuorum
<1>6. CASE cfg.quorum = "all_of"
  BY <1>1, <1>2, <1>4, <1>6 DEF EvaluateQuorum
<1>7. CASE cfg.quorum = "m_of_n"
  <2>1. EvaluateQuorum(cfg, {}, A, N, 1) =
          IF Cardinality(A) >= cfg.m THEN "approved_stage"
          ELSE IF Cardinality(N) > 1 - cfg.m THEN "rejected_stage" ELSE "pending"
    BY <1>4, <1>7 DEF EvaluateQuorum
  <2> QED BY <1>1, <1>2, <1>3, <1>4, <1>7, <2>1
<1> QED BY <1>3, <1>5, <1>6, <1>7 DEF Policies

(* So InsertSignoff leaves its request with a decided outcome. *)
LEMMA OutcomeDecided ==
  ASSUME ReviewInv, NEW q \in Reqs, req[q].phase = "loaded"
  PROVE  LET row == req[q].row
             cfg == RouteStages[inst[row.inst].route][row.stage]
             o == EvaluateQuorum(cfg, EligibleActorIDs, Votes(row, "approve"),
                    Votes(row, "reject"), EffectiveDenominator(EligibleActorIDs))
         IN /\ o \in {"approved_stage", "rejected_stage"}
            /\ o = "approved_stage" =>
                 \E s \in signoffs \cup {row} : ApprovesStage(s, row)
<1> DEFINE row == req[q].row
           route == RouteStages[inst[row.inst].route]
           cfg == route[row.stage]
           A == Votes(row, "approve")
           N == Votes(row, "reject")
<1>1. /\ row \in Signoff /\ row.inst \in Insts /\ inst[row.inst] \in Instance
      /\ row.stage \in DOMAIN inst[row.inst].stage
  BY RequestInstance DEF ReviewInv
<1>2. inst[row.inst] # NoInst /\ inst[row.inst].route \in Routes
      /\ inst[row.inst].stage \in Seq(StageStates)
  BY <1>1, InstanceFields
<1>3. ValidRoute(route) /\ Len(inst[row.inst].stage) = Len(route)
  BY <1>1, <1>2 DEF ReviewInv, RouteOK
<1>4. route \in Seq(StageConfig) /\ row.stage \in 1..Len(route)
  BY <1>1, <1>2, <1>3, StageDomain, ConstantsAssumption
<1>5. cfg \in StageConfig /\ ((cfg.quorum = "m_of_n") <=> (cfg.m >= 1))
  BY <1>3, <1>4, ElementOfSeq DEF ValidRoute
<1>6. \A s \in signoffs \cup {row} : s.actor \in Actors
  BY <1>1, SignoffFields DEF ReviewInv, TypeOK
<1>7. A \in SUBSET Actors /\ N \in SUBSET Actors
  BY <1>6 DEF Votes
<1>8. IsFiniteSet(A) /\ IsFiniteSet(N)
  BY <1>7, FS_Subset, ConstantsAssumption
<1>9. A # {} \/ N # {}
  <2>1. row.decision = "approve" \/ row.decision = "reject"
    BY <1>1, SignoffFields DEF Decisions
  <2>2. row.actor \in A \/ row.actor \in N
    BY <2>1 DEF Votes
  <2> QED BY <2>2
<1>10. A # {} => \E s \in signoffs \cup {row} : ApprovesStage(s, row)
  BY DEF Votes, ApprovesStage
<1> HIDE DEF row, cfg, A, N
<1>11. LET o == EvaluateQuorum(cfg, {}, A, N, EffectiveDenominator({})) IN
       /\ o \in {"approved_stage", "rejected_stage"}
       /\ o = "approved_stage" => A # {}
  BY <1>5, <1>8, <1>9, QuorumDecides
<1> QED BY <1>10, <1>11 DEF EligibleActorIDs, row, cfg, A, N

-----------------------------------------------------------------------------
(* What every step keeps of an instance: it is not deleted, its document,    *)
(* submitter, route and number of stages stay.                               *)
Kept(i) ==
  inst[i] # NoInst =>
    /\ inst'[i] # NoInst
    /\ inst'[i].doc = inst[i].doc /\ inst'[i].by = inst[i].by
    /\ inst'[i].route = inst[i].route
    /\ DOMAIN inst'[i].stage = DOMAIN inst[i].stage
    /\ Len(inst'[i].stage) = Len(inst[i].stage)

(* A request that does not move stays valid while instances are kept. *)
LEMMA KeepsRequest ==
  ASSUME ReviewInv, \A i \in Insts : Kept(i), NEW q \in Reqs, req'[q] = req[q]
  PROVE  RequestOK(q)'
<1> SUFFICES ASSUME req[q].phase \in {"loaded", "inserted"}
             PROVE  RequestOK(q)'
  BY DEF RequestOK
<1>1. req[q].row.inst \in Insts /\ RequestOK(q)
  BY RequestInstance DEF ReviewInv
<1> QED BY <1>1 DEF Kept, RequestOK

(* Steps on documents and instances only: no request and no signoff moves,   *)
(* and no stage is completed.                                                *)
LEMMA DocumentStep ==
  ASSUME ReviewInv, \A i \in Insts : Kept(i), UNCHANGED <<signoffs, req>>,
         \A i \in Insts : inst'[i] # NoInst =>
           \A k \in DOMAIN inst'[i].stage : inst'[i].stage[k] = "completed" =>
             inst[i] # NoInst /\ inst[i].stage[k] = "completed"
  PROVE  /\ \A q \in Reqs : RequestOK(q)' /\ InsertedOK(q)'
         /\ SignoffsOK'
<1>1. \A q \in Reqs : RequestOK(q)'
  BY KeepsRequest
<1>2. ASSUME NEW q \in Reqs PROVE InsertedOK(q)'
  <2> SUFFICES ASSUME req[q].phase = "inserted"
               PROVE  InsertedOK(q)'
    BY DEF InsertedOK
  <2>1. req[q].row.inst \in Insts /\ inst[req[q].row.inst] # NoInst
    BY RequestInstance, InstanceFields DEF ReviewInv
  <2>2. InsertedOK(q) /\ inst'[req[q].row.inst].doc = inst[req[q].row.inst].doc
    BY <2>1 DEF ReviewInv, Kept
  <2> QED BY <2>2 DEF InsertedOK, AlreadySigned, UniqueKeyFree
<1>3. \A s \in signoffs : s.inst \in Insts
  BY SignoffFields DEF ReviewInv, TypeOK
<1>4. ASSUME NEW s \in signoffs'
      PROVE  /\ inst'[s.inst] # NoInst
             /\ s.actor \notin {inst'[s.inst].by, CreatedBy[inst'[s.inst].doc]}
  BY <1>3 DEF ReviewInv, SignoffsOK, Kept
<1>5. ASSUME NEW i \in Insts, inst'[i] # NoInst, NEW k \in DOMAIN inst'[i].stage,
             inst'[i].stage[k] = "completed"
      PROVE  \E s \in signoffs' : s.inst = i /\ s.stage = k /\ s.decision = "approve"
  <2>1. inst[i] # NoInst /\ inst[i].stage[k] = "completed" /\ k \in DOMAIN inst[i].stage
    BY <1>5 DEF Kept
  <2> QED BY <2>1 DEF ReviewInv, SignoffsOK
<1>6. \A s, t \in signoffs' : s.inst = t.inst /\ s.actor = t.actor => s = t
  BY DEF ReviewInv, SignoffsOK
<1>7. SignoffsOK'
  BY <1>4, <1>5, <1>6 DEF SignoffsOK
<1> QED BY <1>1, <1>2, <1>7

(* The commit of a signoff: one row more, and at most its own stage          *)
(* completed, when the vote was in favour.                                   *)
LEMMA CommitStep ==
  ASSUME ReviewInv, \A i \in Insts : Kept(i), NEW q \in Reqs,
         req[q].phase = "inserted", RecordRow(q),
         \A p \in Reqs \ {q} : req'[p] = req[p],
         req'[q].phase \notin {"loaded", "inserted"},
         \A i \in Insts : inst'[i] # NoInst =>
           /\ inst[i] # NoInst
           /\ \A k \in DOMAIN inst'[i].stage : inst'[i].stage[k] = "completed" =>
                \/ inst[i].stage[k] = "completed"
                \/ /\ i = req[q].row.inst /\ k = req[q].row.stage
                   /\ req[q].outcome = "approved_stage"
  PROVE  /\ \A p \in Reqs : RequestOK(p)' /\ InsertedOK(p)'
         /\ SignoffsOK'
<1> DEFINE row == req[q].row
<1>1. row \in Signoff /\ row.inst \in Insts /\ inst[row.inst] # NoInst
  BY RequestInstance, InstanceFields DEF ReviewInv
<1>2. signoffs' = signoffs \cup {row}
  BY DEF RecordRow
<1>3. InsertedOK(q) /\ RequestOK(q)
  BY DEF ReviewInv
<1>4. ASSUME NEW p \in Reqs PROVE RequestOK(p)'
  <2>1. CASE p = q
    BY <2>1 DEF RequestOK
  <2>2. CASE p # q
    BY <2>2, KeepsRequest
  <2> QED BY <2>1, <2>2
<1>5. ASSUME NEW p \in Reqs PROVE InsertedOK(p)'
  <2>1. CASE p = q
    BY <2>1 DEF InsertedOK
  <2>2. CASE p # q /\ req[p].phase = "inserted"
    <3>1. InsertedOK(p) /\ req'[p] = req[p]
      BY <2>2 DEF ReviewInv
    <3>2. req[p].row.inst \in Insts /\ inst[req[p].row.inst] # NoInst
      BY <2>2, RequestInstance, InstanceFields DEF ReviewInv
    <3>3. inst'[req[p].row.inst].doc = inst[req[p].row.inst].doc
      BY <3>2 DEF Kept
    <3>4. ~AlreadySigned(req[p].row)'
      <4>1. ~(row.inst = req[p].row.inst /\ row.actor = req[p].row.actor)
        BY <2>2, <3>1 DEF InsertedOK, UniqueKeyFree
      <4> QED BY <1>2, <2>2, <3>1, <4>1 DEF InsertedOK, AlreadySigned
    <3>5. UniqueKeyFree(p)'
      BY <2>2, <3>1 DEF InsertedOK, UniqueKeyFree
    <3> QED BY <1>2, <2>2, <3>1, <3>3, <3>4, <3>5 DEF InsertedOK
  <2>3. CASE p # q /\ req[p].phase # "inserted"
    BY <2>3 DEF InsertedOK
  <2> QED BY <2>1, <2>2, <2>3
<1>6. \A s \in signoffs : s.inst \in Insts
  BY SignoffFields DEF ReviewInv, TypeOK
<1>7. ASSUME NEW s \in signoffs'
      PROVE  /\ inst'[s.inst] # NoInst
             /\ s.actor \notin {inst'[s.inst].by, CreatedBy[inst'[s.inst].doc]}
  <2>1. CASE s \in signoffs
    BY <1>6, <2>1 DEF ReviewInv, SignoffsOK, Kept
  <2>2. CASE s = row
    BY <1>1, <1>3, <2>2 DEF RequestOK, InsertedOK, Kept
  <2> QED BY <1>2, <2>1, <2>2
<1>8. \A s, t \in signoffs' : s.inst = t.inst /\ s.actor = t.actor => s = t
  BY <1>2, <1>3 DEF ReviewInv, SignoffsOK, InsertedOK, AlreadySigned
<1>9. ASSUME NEW i \in Insts, inst'[i] # NoInst, NEW k \in DOMAIN inst'[i].stage,
             inst'[i].stage[k] = "completed"
      PROVE  \E s \in signoffs' : s.inst = i /\ s.stage = k /\ s.decision = "approve"
  <2>1. inst[i] # NoInst /\ k \in DOMAIN inst[i].stage
    BY <1>9 DEF Kept
  <2>2. CASE inst[i].stage[k] = "completed"
    BY <1>2, <2>1, <2>2 DEF ReviewInv, SignoffsOK
  <2>3. CASE i = row.inst /\ k = row.stage /\ req[q].outcome = "approved_stage"
    BY <1>2, <1>3, <2>3 DEF InsertedOK, ApprovesStage
  <2> QED BY <1>9, <2>2, <2>3
<1>10. SignoffsOK'
  BY <1>7, <1>8, <1>9 DEF SignoffsOK
<1> QED BY <1>4, <1>5, <1>10

-----------------------------------------------------------------------------
(* What is shown of every step: it keeps the invariant, and it satisfies the *)
(* action properties EndedStaysEnded, NoLateSignoff and LegalSteps.          *)
EndedKept ==
  \A i \in Insts :
    inst[i].status \in InstStates \ {"in_progress"} => inst'[i] = inst[i]

SignsOpen == \A s \in signoffs' \ signoffs : inst[s.inst].status = "in_progress"

LegalChange ==
  \A d \in Docs : status'[d] # status[d] =>
    /\ TriggerAllows(status[d], status'[d])
    /\ status[d] \in Released => status'[d] \in Released
    /\ rev'[d] > rev[d]

GoodStep == ReviewInv' /\ EndedKept /\ SignsOpen /\ LegalChange

(* A step of one request that commits nothing. *)
LEMMA RequestStep ==
  ASSUME ReviewInv, NEW q \in Reqs, NEW x \in Request, req' = [req EXCEPT ![q] = x],
         UNCHANGED <<status, rev, frozen, inst, signoffs, events, recorded>>,
         pdf' \in SUBSET Docs, RequestOK(q)', InsertedOK(q)'
  PROVE  GoodStep
<1>1. TypeOK' /\ req'[q] = x /\ \A p \in Reqs \ {q} : req'[p] = req[p]
  BY RequestStepType DEF ReviewInv
<1>2. OneReview' /\ StageShape' /\ SignoffsOK' /\ \A i \in Insts : RouteOK(i)'
  BY DEF ReviewInv, OneReview, StageShape, SignoffsOK, RouteOK
<1>3. \A p \in Reqs : RequestOK(p)'
  BY <1>1 DEF ReviewInv, RequestOK
<1>4. ASSUME NEW p \in Reqs \ {q} PROVE InsertedOK(p)'
  <2> SUFFICES ASSUME req[p].phase = "inserted"
               PROVE  InsertedOK(p)'
    BY <1>1 DEF InsertedOK
  <2>1. InsertedOK(p) /\ req'[p] = req[p]
    BY <1>1 DEF ReviewInv
  <2>2. UniqueKeyFree(p)'
    <3>1. ASSUME NEW o \in Reqs \ {p}, req'[o].phase = "inserted"
          PROVE  ~(req'[o].row.inst = req'[p].row.inst
                     /\ req'[o].row.actor = req'[p].row.actor)
      <4>1. CASE o = q
        BY <2>1, <3>1, <4>1 DEF InsertedOK, UniqueKeyFree
      <4>2. CASE o # q
        BY <1>1, <2>1, <3>1, <4>2 DEF InsertedOK, UniqueKeyFree
      <4> QED BY <4>1, <4>2
    <3> QED BY <3>1 DEF UniqueKeyFree
  <2> QED BY <2>1, <2>2 DEF InsertedOK, AlreadySigned
<1>5. \A p \in Reqs : InsertedOK(p)'
  BY <1>4
<1>6. ReviewInv'
  BY <1>1, <1>2, <1>3, <1>5 DEF ReviewInv
<1> QED BY <1>6 DEF GoodStep, EndedKept, SignsOpen, LegalChange

(* The active stage of an instance in progress is the one it has stopped at. *)
LEMMA ActiveShape ==
  ASSUME NEW st \in Seq(StageStates), NEW m \in DOMAIN st, StoppedAt(st, m, "active")
  PROVE  Active(st) = m /\ \A j \in DOMAIN st : st[j] = "active" => j = m
<1>1. Len(st) \in Nat /\ DOMAIN st = 1..Len(st)
  BY StageDomain
<1>2. \A j \in DOMAIN st : st[j] = "active" => j = m
  BY <1>1 DEF StoppedAt
<1> DEFINE First(k) == /\ st[k] = "active"
                       /\ \A j \in DOMAIN st : st[j] = "active" => k <= j
<1>3. st[m] = "active" /\ First(m) /\ \A k \in DOMAIN st : First(k) => k = m
  BY <1>1, <1>2 DEF StoppedAt
<1>4. (CHOOSE k \in DOMAIN st : First(k)) = m
  BY <1>3
<1>5. Active(st) = CHOOSE k \in DOMAIN st : First(k)
  BY <1>3 DEF Active
<1> QED BY <1>2, <1>4, <1>5

LEMMA LoadStep ==
  ASSUME ReviewInv, NEW q \in Reqs, NEW i \in Insts, NEW a \in Actors,
         NEW dec \in Decisions, NEW f \in Forms, NEW k \in DOMAIN inst[i].stage,
         LoadForSignoff(q, i, k, a, dec, f)
  PROVE  GoodStep
<1> DEFINE row == [inst |-> i, stage |-> k, actor |-> a, decision |-> dec,
                   hash |-> ContentHash(i, 0, f)]
           x == [phase |-> "loaded", row |-> row, seen |-> inst[i].stage]
<1>1. inst[i].status = "in_progress"
  BY DEF LoadForSignoff, InstanceIs
<1>2. inst[i] \in Instance
  BY <1>1, NoInstStatus DEF ReviewInv, TypeOK
<1>3. inst[i] # NoInst /\ inst[i].stage \in Seq(StageStates) /\ k \in Nat
  BY <1>2, InstanceFields, StageDomain
<1>4. PICK m \in DOMAIN inst[i].stage : StoppedAt(inst[i].stage, m, "active")
  BY <1>1 DEF ReviewInv, StageShape
<1>5. k = m /\ \A j \in DOMAIN inst[i].stage : j > k => inst[i].stage[j] = "pending"
  BY <1>3, <1>4, ActiveShape DEF LoadForSignoff, StoppedAt
<1>6. a # inst[i].by
  BY DEF LoadForSignoff, CheckSoD
<1>7. row \in Signoff
  BY <1>3 DEF Signoff, ContentHash
<1>8. row.inst = i /\ row.stage = k /\ row.actor = a
  OBVIOUS
<1>9. /\ req' = [req EXCEPT ![q] = x]
      /\ UNCHANGED <<status, rev, frozen, inst, signoffs, pdf, events, recorded>>
  BY DEF LoadForSignoff
<1> HIDE DEF row
<1>10. /\ x \in Request /\ x.phase = "loaded" /\ x.row = row
       /\ x.seen = inst[i].stage
  BY <1>3, <1>7 DEF Request
<1> HIDE DEF x
<1>11. req'[q] = x
  BY <1>9 DEF ReviewInv, TypeOK
<1>12. RequestOK(q)' /\ InsertedOK(q)'
  BY <1>3, <1>5, <1>6, <1>8, <1>9, <1>10, <1>11 DEF RequestOK, InsertedOK
<1>13. pdf' \in SUBSET Docs
  BY <1>9 DEF ReviewInv, TypeOK
<1> QED BY <1>9, <1>10, <1>12, <1>13, RequestStep

LEMMA InsertStep ==
  ASSUME ReviewInv, NEW q \in Reqs, InsertSignoff(q)
  PROVE  GoodStep
<1> DEFINE row == req[q].row
           o == EvaluateQuorum(RouteStages[inst[row.inst].route][row.stage],
                  EligibleActorIDs, Votes(row, "approve"), Votes(row, "reject"),
                  EffectiveDenominator(EligibleActorIDs))
           x == [phase |-> "inserted", row |-> row, seen |-> req[q].seen, outcome |-> o]
<1>1. /\ req[q].phase = "loaded" /\ UniqueKeyFree(q) /\ ~AlreadySigned(row)
      /\ row.actor # CreatedBy[inst[row.inst].doc]
      /\ req' = [req EXCEPT ![q] = x]
      /\ UNCHANGED <<status, rev, frozen, inst, signoffs, pdf, events, recorded>>
  BY DEF InsertSignoff
<1>2. /\ o \in {"approved_stage", "rejected_stage"}
      /\ o = "approved_stage" => \E s \in signoffs \cup {row} : ApprovesStage(s, row)
  BY <1>1, OutcomeDecided
<1>3. row \in Signoff /\ req[q].seen \in Seq(StageStates) /\ RequestOK(q)
  BY <1>1, RequestInstance DEF ReviewInv
<1> HIDE DEF o
<1>4. /\ x \in Request /\ x.phase = "inserted" /\ x.row = row
      /\ x.seen = req[q].seen /\ x.outcome = o
  BY <1>2, <1>3 DEF Request
<1> HIDE DEF x
<1>5. req'[q] = x /\ \A p \in Reqs \ {q} : req'[p] = req[p]
  BY <1>1 DEF ReviewInv, TypeOK
<1>6. RequestOK(q)'
  BY <1>1, <1>3, <1>4, <1>5 DEF RequestOK
<1>7. UniqueKeyFree(q)'
  BY <1>1, <1>4, <1>5 DEF UniqueKeyFree
<1>8. InsertedOK(q)'
  BY <1>1, <1>2, <1>4, <1>5, <1>7 DEF InsertedOK, AlreadySigned
<1>9. pdf' \in SUBSET Docs
  BY <1>1 DEF ReviewInv, TypeOK
<1> QED BY <1>1, <1>4, <1>6, <1>8, <1>9, RequestStep

(* Replays, aborts and the dispatch end the request. *)
LEMMA EndRequestStep ==
  ASSUME ReviewInv, NEW q \in Reqs,
         ReplaySignoff(q) \/ AbortSignoff(q) \/ DispatchPDF(q)
  PROVE  GoodStep
<1>1. /\ req' = [req EXCEPT ![q] = Idle]
      /\ UNCHANGED <<status, rev, frozen, inst, signoffs, events, recorded>>
  BY DEF ReplaySignoff, AbortSignoff, DispatchPDF
<1>2. req[q].phase = "dispatch" => req[q].doc \in Docs
  BY RequestFields DEF ReviewInv, TypeOK
<1>3. pdf' \in SUBSET Docs
  BY <1>2 DEF ReplaySignoff, AbortSignoff, DispatchPDF, ReviewInv, TypeOK
<1>4. req'[q] = Idle
  BY <1>1 DEF ReviewInv, TypeOK
<1>5. RequestOK(q)' /\ InsertedOK(q)'
  BY <1>4, IdleRequest DEF RequestOK, InsertedOK
<1> QED BY <1>1, <1>3, <1>5, IdleRequest, RequestStep

(* An instance with an active stage is in progress and has stopped there:    *)
(* the guard on the stage protects the instance too.                         *)
LEMMA ActiveIsOpen ==
  ASSUME ReviewInv, NEW i \in Insts, inst[i] \in Instance,
         NEW k \in DOMAIN inst[i].stage, inst[i].stage[k] = "active"
  PROVE  inst[i].status = "in_progress" /\ StoppedAt(inst[i].stage, k, "active")
<1> DEFINE st == inst[i].stage
<1>1. st \in Seq(StageStates) /\ inst[i].status \in InstStates
  BY InstanceFields
<1>2. Len(st) \in Nat /\ DOMAIN st = 1..Len(st)
  BY <1>1, StageDomain
<1>3. inst[i].status # "rejected"
  <2>1. \A m \in DOMAIN st : ~StoppedAt(st, m, "rejected_here")
    BY <1>2 DEF StoppedAt
  <2> QED BY <2>1 DEF ReviewInv, StageShape
<1>4. inst[i].status # "approved" /\ inst[i].status # "cancelled"
  BY DEF ReviewInv, StageShape
<1>5. inst[i].status = "in_progress"
  BY <1>1, <1>3, <1>4 DEF InstStates
<1>6. PICK m \in DOMAIN st : StoppedAt(st, m, "active")
  BY <1>5 DEF ReviewInv, StageShape
<1>7. k = m
  BY <1>1, <1>6, ActiveShape
<1> QED BY <1>5, <1>6, <1>7

(* What the three commits start from. *)
LEMMA CommitStart ==
  ASSUME ReviewInv, NEW q \in Reqs, req[q].phase = "inserted",
         StageIs(req[q].row.inst, req[q].row.stage, "active")
  PROVE  LET i == req[q].row.inst
             k == req[q].row.stage
             st == inst[i].stage
             n == NextPending(req[q].seen, k)
         IN /\ req[q].row \in Signoff /\ i \in Insts
            /\ inst[i] \in Instance /\ inst[i].status = "in_progress"
            /\ st \in Seq(StageStates) /\ k \in DOMAIN st
            /\ StoppedAt(st, k, "active")
            /\ IF k = Len(st) THEN n = 0 ELSE n = k + 1 /\ n \in DOMAIN st
<1> DEFINE i == req[q].row.inst
           k == req[q].row.stage
           st == inst[i].stage
<1>1. /\ req[q].row \in Signoff /\ req[q].seen \in Seq(StageStates)
      /\ i \in Insts /\ inst[i] \in Instance /\ k \in DOMAIN st
  BY RequestInstance DEF ReviewInv
<1>2. st \in Seq(StageStates)
  BY <1>1, InstanceFields
<1>3. inst[i].status = "in_progress" /\ StoppedAt(st, k, "active")
  BY <1>1, ActiveIsOpen DEF StageIs
<1>4. /\ DOMAIN req[q].seen = DOMAIN st /\ k \in DOMAIN req[q].seen
      /\ \A j \in DOMAIN req[q].seen : j > k => req[q].seen[j] = "pending"
  BY DEF ReviewInv, RequestOK
<1>5. Len(req[q].seen) = Len(st)
  BY <1>1, <1>2, <1>4, StageDomain
<1> QED BY <1>1, <1>2, <1>3, <1>4, <1>5, NextPendingShape

(* st and s fit together, and only the signed stage is completed anew. *)
StagesFit(q, st, s) ==
  /\ s \in {"in_progress", "rejected", "approved"}
  /\ s = "in_progress" => \E k \in DOMAIN st : StoppedAt(st, k, "active")
  /\ s = "rejected" => \E k \in DOMAIN st : StoppedAt(st, k, "rejected_here")
  /\ s = "approved" => \A k \in DOMAIN st : st[k] = "completed"
  /\ \A k \in DOMAIN st : st[k] = "completed" =>
       \/ inst[req[q].row.inst].stage[k] = "completed"
       \/ k = req[q].row.stage /\ req[q].outcome = "approved_stage"

(* What SetStatus does to the statuses and versions. *)
LEMMA SetStatusEffect ==
  ASSUME TypeOK, NEW d \in Docs, NEW s \in DocStates, SetStatus(d, s)
  PROVE  /\ status' \in [Docs -> DocStates] /\ rev' \in [Docs -> Nat]
         /\ status'[d] = s /\ rev'[d] > rev[d]
         /\ \A e \in Docs \ {d} : status'[e] = status[e]
BY DEF TypeOK, SetStatus

(* The document of an instance in progress has no other one, so the other   *)
(* instances in progress keep their documents when this one ends.           *)
LEMMA CommitGood ==
  ASSUME ReviewInv, NEW q \in Reqs, req[q].phase = "inserted",
         StageIs(req[q].row.inst, req[q].row.stage, "active"),
         NEW st \in Seq(StageStates), NEW s, NEW x \in Request,
         DOMAIN st = DOMAIN inst[req[q].row.inst].stage,
         CommitsTo(q, st, s, x), StagesFit(q, st, s),
         x.phase \notin {"loaded", "inserted"}
  PROVE  GoodStep
<1> DEFINE i == req[q].row.inst
           d == inst[i].doc
<1>1. /\ req[q].row \in Signoff /\ i \in Insts
      /\ inst[i] \in Instance /\ inst[i].status = "in_progress"
      /\ inst[i].stage \in Seq(StageStates)
  BY CommitStart
<1>2. d \in Docs /\ inst[i] # NoInst
  BY <1>1, InstanceFields
<1>3. status[d] = "under_review"
  BY <1>1 DEF ReviewInv, OneReview
<1>4. /\ status' \in [Docs -> DocStates] /\ rev' \in [Docs -> Nat]
      /\ \A e \in Docs \ {d} : status'[e] = status[e]
      /\ s # "approved" => status'[d] = status[d]
      /\ status'[d] # status[d] => status'[d] = "approved" /\ rev'[d] > rev[d]
  <2>1. CASE s # "approved" /\ UNCHANGED <<status, rev>>
    BY <2>1 DEF ReviewInv, TypeOK
  <2>2. CASE s = "approved" /\ SetStatus(d, "approved")
    <3>1. /\ status' \in [Docs -> DocStates] /\ rev' \in [Docs -> Nat]
          /\ status'[d] = "approved" /\ rev'[d] > rev[d]
          /\ \A e \in Docs \ {d} : status'[e] = status[e]
      BY <1>2, <2>2, SetStatusEffect DEF ReviewInv, DocStates
    <3> QED BY <2>2, <3>1
  <2> QED BY <2>1, <2>2 DEF CommitsTo
<1>5. /\ TypeOK'
      /\ inst'[i] \in Instance /\ inst'[i].stage = st /\ inst'[i].status = s
      /\ inst'[i].doc = d /\ inst'[i].by = inst[i].by
      /\ inst'[i].route = inst[i].route
      /\ \A j \in Insts \ {i} : inst'[j] = inst[j]
      /\ req'[q] = x /\ \A p \in Reqs \ {q} : req'[p] = req[p]
  <2>1. s \in InstStates
    BY DEF StagesFit, InstStates
  <2>2. TypeOK
    BY DEF ReviewInv
  <2>3. status' \in [Docs -> DocStates] /\ rev' \in [Docs -> Nat]
    BY <1>4
  <2>4. req[q].row \in Signoff /\ inst[req[q].row.inst] \in Instance
    BY <1>1
  <2>5. TypeOK' /\ Committed(q, st, s, x)
    BY <2>1, <2>2, <2>3, <2>4, CommitType
  <2> QED BY <2>5 DEF Committed
<1>6. inst'[i] # NoInst /\ Len(st) = Len(inst[i].stage)
  BY <1>1, <1>5, InstanceFields, StageDomain
<1>7. \A j \in Insts : Kept(j)
  BY <1>5, <1>6 DEF Kept
<1>8. OneReview'
  <2>1. ASSUME NEW j \in Insts, inst'[j].status = "in_progress"
        PROVE  /\ status'[inst'[j].doc] = "under_review"
               /\ \A m \in Insts \ {j} :
                    ~(inst'[m].status = "in_progress" /\ inst'[m].doc = inst'[j].doc)
    <3>1. inst[j].status = "in_progress" /\ inst'[j].doc = inst[j].doc
      BY <1>1, <1>5, <2>1
    <3>2. inst[j] \in Instance
      BY <3>1, NoInstStatus DEF ReviewInv, TypeOK
    <3>3. inst[j].doc \in Docs
      BY <3>2, InstanceFields
    <3>4. status[inst[j].doc] = "under_review"
      BY <3>1 DEF ReviewInv, OneReview
    <3>5. status'[inst'[j].doc] = "under_review"
      <4>1. CASE j = i
        BY <1>3, <1>4, <1>5, <2>1, <4>1
      <4>2. CASE j # i
        <5>1. inst[j].doc # d
          BY <1>1, <3>1, <4>2 DEF ReviewInv, OneReview
        <5> QED BY <1>4, <3>1, <3>3, <3>4, <5>1
      <4> QED BY <4>1, <4>2
    <3>6. ASSUME NEW m \in Insts \ {j}
          PROVE  ~(inst'[m].status = "in_progress" /\ inst'[m].doc = inst'[j].doc)
      BY <1>1, <1>5, <3>1 DEF ReviewInv, OneReview
    <3> QED BY <3>5, <3>6
  <2> QED BY <2>1 DEF OneReview
<1>9. StageShape'
  <2>1. ASSUME NEW j \in Insts \ {i}
        PROVE  inst'[j] = inst[j]
    BY <1>5
  <2>2. /\ s \in {"in_progress", "rejected", "approved"}
        /\ s = "in_progress" => \E k \in DOMAIN st : StoppedAt(st, k, "active")
        /\ s = "rejected" => \E k \in DOMAIN st : StoppedAt(st, k, "rejected_here")
        /\ s = "approved" => \A k \in DOMAIN st : st[k] = "completed"
    BY DEF StagesFit
  <2>3. inst'[i].stage = st /\ inst'[i].status = s
    BY <1>5
  <2> QED BY <2>1, <2>2, <2>3 DEF ReviewInv, StageShape
<1>10. \A j \in Insts : RouteOK(j)'
  BY <1>2, <1>5, <1>6 DEF ReviewInv, RouteOK
<1>11. ASSUME NEW j \in Insts, inst'[j] # NoInst
       PROVE  /\ inst[j] # NoInst
              /\ \A k \in DOMAIN inst'[j].stage : inst'[j].stage[k] = "completed" =>
                   \/ inst[j].stage[k] = "completed"
                   \/ /\ j = i /\ k = req[q].row.stage
                      /\ req[q].outcome = "approved_stage"
  <2>1. CASE j # i
    BY <1>5, <1>11, <2>1
  <2>2. CASE j = i
    BY <1>2, <1>5, <2>2 DEF StagesFit
  <2> QED BY <2>1, <2>2
<1>12. SignoffsOK' /\ \A p \in Reqs : RequestOK(p)' /\ InsertedOK(p)'
  <2>1. RecordRow(q)
    BY DEF CommitsTo
  <2> QED BY <1>5, <1>7, <1>11, <2>1, CommitStep
<1>13. ReviewInv'
  BY <1>5, <1>8, <1>9, <1>10, <1>12 DEF ReviewInv
<1>14. EndedKept
  BY <1>1, <1>5 DEF EndedKept
<1>15. SignsOpen
  BY <1>1 DEF SignsOpen, RecordRow, CommitsTo
<1>16. LegalChange
  BY <1>3, <1>4 DEF LegalChange, TriggerAllows, legalTransitions, Released
<1> QED BY <1>13, <1>14, <1>15, <1>16 DEF GoodStep

(* Advancing from stage k to the next one. *)
Advanced(old, k) == [old EXCEPT ![k] = "completed", ![k + 1] = "active"]

(* It leaves the stages stopped at the next one, and completes only stage k. *)
LEMMA AdvanceShape ==
  ASSUME NEW old \in Seq(StageStates), NEW k \in DOMAIN old, k + 1 \in DOMAIN old,
         StoppedAt(old, k, "active")
  PROVE  LET st == Advanced(old, k) IN
         /\ st \in Seq(StageStates) /\ DOMAIN st = DOMAIN old
         /\ StoppedAt(st, k + 1, "active")
         /\ \A j \in DOMAIN st : st[j] = "completed" => old[j] = "completed" \/ j = k
<1> DEFINE st == Advanced(old, k)
           mid == [old EXCEPT ![k] = "completed"]
<1>1. Len(old) \in Nat /\ DOMAIN old = 1..Len(old)
  BY StageDomain
<1>2. /\ mid \in Seq(StageStates) /\ DOMAIN mid = DOMAIN old
      /\ mid[k] = "completed" /\ \A j \in DOMAIN old : j # k => mid[j] = old[j]
  BY StageExcept DEF StageStates
<1>3. st = [mid EXCEPT ![k + 1] = "active"]
  BY DEF Advanced
<1> HIDE DEF mid, st
<1>4. /\ st \in Seq(StageStates) /\ DOMAIN st = DOMAIN mid /\ st[k + 1] = "active"
      /\ \A j \in DOMAIN mid : j # k + 1 => st[j] = mid[j]
  BY <1>2, <1>3, StageExcept DEF StageStates
<1>5. k \in Nat /\ k # k + 1
  BY <1>1
<1>6. st[k] = "completed" /\ \A j \in DOMAIN old : j # k /\ j # k + 1 => st[j] = old[j]
  BY <1>2, <1>4, <1>5
<1>7. \A j \in DOMAIN st : j < k + 1 => st[j] = "completed"
  BY <1>1, <1>2, <1>4, <1>6 DEF StoppedAt
<1>8. \A j \in DOMAIN st : j > k + 1 => st[j] = "pending"
  BY <1>1, <1>2, <1>4, <1>6 DEF StoppedAt
<1>9. StoppedAt(st, k + 1, "active")
  BY <1>4, <1>7, <1>8 DEF StoppedAt
<1>10. \A j \in DOMAIN st : st[j] = "completed" => old[j] = "completed" \/ j = k
  BY <1>2, <1>4, <1>6
<1>11. DOMAIN st = DOMAIN old
  BY <1>2, <1>4
<1> QED BY <1>4, <1>9, <1>10, <1>11 DEF st

LEMMA CommitOpenStep ==
  ASSUME ReviewInv, NEW q \in Reqs, CommitSignoffOpen(q)
  PROVE  GoodStep
<1> DEFINE i == req[q].row.inst
           k == req[q].row.stage
           n == NextPending(req[q].seen, k)
           old == inst[i].stage
           st == [old EXCEPT ![k] = "completed", ![n] = "active"]
<1>1. req[q].phase = "inserted" /\ req[q].outcome # "rejected_stage"
  BY DEF CommitSignoffOpen
<1>2. req[q].outcome = "approved_stage"
  <2>1. req[q].outcome # "pending"
    BY <1>1 DEF ReviewInv, InsertedOK
  <2>2. req[q].outcome \in {"approved_stage", "rejected_stage", "pending"}
    BY <1>1, RequestFields DEF ReviewInv, TypeOK
  <2> QED BY <1>1, <2>1, <2>2
<1>3. /\ n # 0 /\ StageIs(i, k, "active") /\ StageIs(i, n, "pending")
      /\ inst' = [inst EXCEPT ![i] = WithStages(inst[i], st, inst[i].status)]
      /\ RecordRow(q) /\ req' = [req EXCEPT ![q] = Idle]
      /\ UNCHANGED <<status, rev, frozen, pdf, events>>
  BY <1>2 DEF CommitSignoffOpen
<1>4. /\ i \in Insts /\ inst[i] \in Instance /\ inst[i].status = "in_progress"
      /\ old \in Seq(StageStates) /\ k \in DOMAIN old
      /\ StoppedAt(old, k, "active") /\ n = k + 1 /\ n \in DOMAIN old
  BY <1>1, <1>3, CommitStart
<1>5. st = Advanced(old, k)
  BY <1>4 DEF Advanced
<1> HIDE DEF st, n, old, k, i
<1>6. /\ st \in Seq(StageStates) /\ DOMAIN st = DOMAIN old
      /\ StoppedAt(st, k + 1, "active")
      /\ \A j \in DOMAIN st : st[j] = "completed" => old[j] = "completed" \/ j = k
  BY <1>4, <1>5, AdvanceShape
<1> USE DEF old, k, i
<1>7. \E j \in DOMAIN st : StoppedAt(st, j, "active")
  BY <1>4, <1>6
<1>8. StagesFit(q, st, "in_progress")
  BY <1>2, <1>6, <1>7 DEF StagesFit
<1>9. CommitsTo(q, st, "in_progress", Idle)
  BY <1>3, <1>4 DEF CommitsTo, ReviewInv, TypeOK
<1> QED BY <1>1, <1>3, <1>6, <1>8, <1>9, CommitGood, IdleRequest

LEMMA CommitApproveStep ==
  ASSUME ReviewInv, NEW q \in Reqs, CommitSignoffApprove(q)
  PROVE  GoodStep
<1> DEFINE i == req[q].row.inst
           k == req[q].row.stage
           d == inst[i].doc
           old == inst[i].stage
           st == [old EXCEPT ![k] = "completed"]
           x == [phase |-> "dispatch", doc |-> d]
<1>1. /\ req[q].phase = "inserted" /\ req[q].outcome = "approved_stage"
      /\ NextPending(req[q].seen, k) = 0 /\ StageIs(i, k, "active")
      /\ inst' = [inst EXCEPT ![i] = WithStages(inst[i], st, "approved")]
      /\ frozen' = [frozen EXCEPT ![d] = TRUE] /\ ApproveDocument(d)
      /\ RecordRow(q) /\ req' = [req EXCEPT ![q] = x] /\ UNCHANGED <<pdf, events>>
  BY DEF CommitSignoffApprove, Freeze
<1>2. /\ i \in Insts /\ inst[i] \in Instance /\ inst[i].status = "in_progress"
      /\ old \in Seq(StageStates) /\ k \in DOMAIN old
      /\ StoppedAt(old, k, "active") /\ k = Len(old)
  <2>1. /\ i \in Insts /\ inst[i] \in Instance /\ inst[i].status = "in_progress"
        /\ old \in Seq(StageStates) /\ k \in DOMAIN old
        /\ StoppedAt(old, k, "active") /\ (k = Len(old) \/ k + 1 = 0)
    BY <1>1, CommitStart
  <2>2. k \in Nat
    BY <2>1, StageDomain
  <2>3. k + 1 # 0
    BY <2>2
  <2> QED BY <2>1, <2>3
<1>3. Len(old) \in Nat /\ DOMAIN old = 1..Len(old) /\ d \in Docs
  BY <1>2, StageDomain, InstanceFields
<1>4. /\ st \in Seq(StageStates) /\ DOMAIN st = DOMAIN old /\ st[k] = "completed"
      /\ \A j \in DOMAIN old : j # k => st[j] = old[j]
  BY <1>2, StageExcept DEF StageStates
<1> HIDE DEF st, old, k
<1>5. \A j \in DOMAIN st : st[j] = "completed"
  BY <1>2, <1>3, <1>4 DEF StoppedAt
<1> USE DEF old, k
<1>6. StagesFit(q, st, "approved")
  BY <1>1, <1>4, <1>5 DEF StagesFit
<1>7. status[d] = "under_review"
  BY <1>2 DEF ReviewInv, OneReview
<1>8. SetStatus(d, "approved")
  BY <1>1, <1>7 DEF ApproveDocument
<1>9. frozen' \in [Docs -> BOOLEAN]
  BY <1>1 DEF ReviewInv, TypeOK
<1>10. x \in Request /\ x.phase = "dispatch"
  BY <1>3 DEF Request
<1> HIDE DEF x
<1>11. CommitsTo(q, st, "approved", x)
  BY <1>1, <1>8, <1>9 DEF CommitsTo
<1> QED BY <1>1, <1>4, <1>6, <1>10, <1>11, CommitGood

LEMMA CommitRejectStep ==
  ASSUME ReviewInv, NEW q \in Reqs, CommitSignoffReject(q)
  PROVE  GoodStep
<1> DEFINE i == req[q].row.inst
           k == req[q].row.stage
           old == inst[i].stage
           st == [old EXCEPT ![k] = "rejected_here"]
<1>1. /\ req[q].phase = "inserted" /\ StageIs(i, k, "active")
      /\ inst' = [inst EXCEPT ![i] = WithStages(inst[i], st, "rejected")]
      /\ RecordRow(q) /\ req' = [req EXCEPT ![q] = Idle]
      /\ UNCHANGED <<status, rev, frozen, pdf, events>>
  BY DEF CommitSignoffReject
<1>2. old \in Seq(StageStates) /\ k \in DOMAIN old /\ StoppedAt(old, k, "active")
  BY <1>1, CommitStart
<1>3. Len(old) \in Nat /\ DOMAIN old = 1..Len(old)
  BY <1>2, StageDomain
<1>4. /\ st \in Seq(StageStates) /\ DOMAIN st = DOMAIN old /\ st[k] = "rejected_here"
      /\ \A j \in DOMAIN old : j # k => st[j] = old[j]
  BY <1>2, StageExcept DEF StageStates
<1> HIDE DEF st
<1>5. StoppedAt(st, k, "rejected_here")
  BY <1>2, <1>3, <1>4 DEF StoppedAt
<1>6. StagesFit(q, st, "rejected")
  BY <1>2, <1>4, <1>5 DEF StagesFit
<1>7. CommitsTo(q, st, "rejected", Idle)
  BY <1>1 DEF CommitsTo, ReviewInv, TypeOK
<1> QED BY <1>1, <1>4, <1>6, <1>7, CommitGood, IdleRequest

-----------------------------------------------------------------------------
(* The document operations.                                                *)

(* The document of an instance. *)
LEMMA InstanceDoc ==
  ASSUME TypeOK, NEW i \in Insts, inst[i].status \in InstStates
  PROVE  inst[i] \in Instance /\ inst[i] # NoInst /\ inst[i].doc \in Docs
<1>1. inst[i] \in Instance
  BY NoInstStatus DEF TypeOK, InstStates
<1> QED BY <1>1, InstanceFields

LEMMA SubmitStep ==
  ASSUME ReviewInv, NEW d \in Docs, NEW a \in Actors, NEW r \in Routes, NEW i \in Insts,
         NEW f \in Forms, SubmitRevisionForReview(d, a, r, i, f)
  PROVE  GoodStep
<1> DEFINE first == [k \in 1..Len(RouteStages[r]) |->
                       IF k = 1 THEN "active" ELSE "pending"]
<1>1. TypeOK
  BY DEF ReviewInv
<1>2. /\ TypeOK'
      /\ inst'[i] \in Instance /\ inst'[i].doc = d
      /\ inst'[i].route = r /\ inst'[i].status = "in_progress"
      /\ inst'[i].stage = first /\ Len(inst'[i].stage) = Len(RouteStages[r])
      /\ \A j \in Insts \ {i} : inst'[j] = inst[j]
  BY <1>1, SubmitType
<1>3. /\ inst[i] = NoInst /\ ValidRoute(RouteStages[r]) /\ status[d] = "draft"
      /\ \A j \in Insts : ~(inst[j].status = "in_progress" /\ inst[j].doc = d)
      /\ SetStatus(d, "under_review") /\ UNCHANGED <<signoffs, req>>
  BY DEF SubmitRevisionForReview
<1>4. /\ status'[d] = "under_review" /\ rev'[d] > rev[d]
      /\ \A e \in Docs \ {d} : status'[e] = status[e]
  BY <1>1, <1>3, SetStatusEffect DEF DocStates
<1>5. Len(RouteStages[r]) \in Nat /\ Len(RouteStages[r]) >= 1
  BY <1>3, ConstantsAssumption, LenProperties DEF ValidRoute
<1>6. DOMAIN first = 1..Len(RouteStages[r]) /\ StoppedAt(first, 1, "active")
  BY <1>5 DEF StoppedAt
<1>7. /\ 1 \in DOMAIN first
      /\ \A k \in DOMAIN first : first[k] # "completed"
  BY <1>5
<1> HIDE DEF first
<1>8. OneReview'
  <2>1. ASSUME NEW j \in Insts, inst'[j].status = "in_progress"
        PROVE  /\ status'[inst'[j].doc] = "under_review"
               /\ \A m \in Insts \ {j} :
                    ~(inst'[m].status = "in_progress" /\ inst'[m].doc = inst'[j].doc)
    <3>1. CASE j = i
      BY <1>2, <1>3, <1>4, <3>1
    <3>2. CASE j # i
      <4>1. inst[j].status = "in_progress" /\ inst'[j] = inst[j]
        BY <1>2, <2>1, <3>2
      <4>2. inst[j].doc \in Docs /\ inst[j].doc # d
        BY <1>1, <1>3, <4>1, InstanceDoc DEF InstStates
      <4>3. status[inst[j].doc] = "under_review"
        BY <4>1 DEF ReviewInv, OneReview
      <4>4. status'[inst'[j].doc] = "under_review"
        BY <1>4, <4>1, <4>2, <4>3
      <4>5. ASSUME NEW m \in Insts \ {j}
            PROVE  ~(inst'[m].status = "in_progress" /\ inst'[m].doc = inst'[j].doc)
        BY <1>2, <4>1, <4>2 DEF ReviewInv, OneReview
      <4> QED BY <4>4, <4>5
    <3> QED BY <3>1, <3>2
  <2> QED BY <2>1 DEF OneReview
<1>9. StageShape'
  <2>1. \E k \in DOMAIN first : StoppedAt(first, k, "active")
    BY <1>6, <1>7
  <2>2. \A j \in Insts \ {i} : inst'[j] = inst[j]
    BY <1>2
  <2>3. inst'[i].stage = first /\ inst'[i].status = "in_progress"
    BY <1>2
  <2> QED BY <2>1, <2>2, <2>3 DEF ReviewInv, StageShape
<1>10. \A j \in Insts : RouteOK(j)'
  BY <1>2, <1>3 DEF ReviewInv, RouteOK
<1>11. \A j \in Insts : Kept(j)
  BY <1>2, <1>3 DEF Kept
<1>12. ASSUME NEW j \in Insts, inst'[j] # NoInst, NEW k \in DOMAIN inst'[j].stage,
              inst'[j].stage[k] = "completed"
       PROVE  inst[j] # NoInst /\ inst[j].stage[k] = "completed"
  BY <1>2, <1>7, <1>12
<1>13. SignoffsOK' /\ \A q \in Reqs : RequestOK(q)' /\ InsertedOK(q)'
  BY <1>3, <1>11, <1>12, DocumentStep
<1>14. ReviewInv'
  BY <1>2, <1>8, <1>9, <1>10, <1>13 DEF ReviewInv
<1>15. EndedKept
  BY <1>2, <1>3, NoInstStatus DEF EndedKept, InstStates
<1>16. LegalChange
  BY <1>3, <1>4 DEF LegalChange, TriggerAllows, legalTransitions, Released
<1> QED BY <1>3, <1>14, <1>15, <1>16 DEF GoodStep, SignsOpen

(* Operations on documents that are not under review, which leave all       *)
(* instances as they are.                                                   *)
LEMMA ReleasedDocStep ==
  ASSUME ReviewInv, UNCHANGED <<frozen, inst, signoffs, req, pdf, recorded>>,
         status' \in [Docs -> DocStates], rev' \in [Docs -> Nat],
         events' \in [Docs -> [EventTypes -> Nat]], LegalChange,
         \A d \in Docs : status[d] = "under_review" => status'[d] = status[d]
  PROVE  GoodStep
<1>1. TypeOK /\ TypeOK'
  BY DEF ReviewInv, TypeOK
<1>2. OneReview'
  <2>1. ASSUME NEW i \in Insts, inst'[i].status = "in_progress"
        PROVE  status'[inst'[i].doc] = "under_review"
    <3>1. inst[i].doc \in Docs
      BY <1>1, <2>1, InstanceDoc DEF InstStates
    <3>2. status[inst[i].doc] = "under_review"
      BY <2>1 DEF ReviewInv, OneReview
    <3> QED BY <3>1, <3>2
  <2> QED BY <2>1 DEF ReviewInv, OneReview
<1>3. StageShape' /\ \A i \in Insts : RouteOK(i)'
  BY DEF ReviewInv, StageShape, RouteOK
<1>4. SignoffsOK' /\ \A q \in Reqs : RequestOK(q)' /\ InsertedOK(q)'
  <2>1. \A i \in Insts : Kept(i)
    BY DEF Kept
  <2> QED BY <2>1, DocumentStep
<1>5. ReviewInv'
  BY <1>1, <1>2, <1>3, <1>4 DEF ReviewInv
<1> QED BY <1>5 DEF GoodStep, EndedKept, SignsOpen

LEMMA PublishStep ==
  ASSUME ReviewInv, NEW i \in Insts, PublishApproved(i)
  PROVE  GoodStep
<1> DEFINE d == inst[i].doc
<1>1. TypeOK /\ d \in Docs
  BY InstanceDoc DEF ReviewInv, PublishApproved, InstStates
<1>2. /\ status[d] = "approved" /\ SetStatus(d, "published") /\ Emit(d, "published")
      /\ UNCHANGED <<frozen, inst, signoffs, req, pdf, recorded>>
  BY DEF PublishApproved
<1>3. /\ status' \in [Docs -> DocStates] /\ rev' \in [Docs -> Nat]
      /\ status'[d] = "published" /\ rev'[d] > rev[d]
      /\ \A e \in Docs \ {d} : status'[e] = status[e]
  BY <1>1, <1>2, SetStatusEffect DEF DocStates
<1>4. events' \in [Docs -> [EventTypes -> Nat]]
  BY <1>1, <1>2, EmitType DEF EventTypes
<1>5. LegalChange
  BY <1>2, <1>3 DEF LegalChange, TriggerAllows, legalTransitions, Released
<1> QED BY <1>2, <1>3, <1>4, <1>5, ReleasedDocStep

LEMMA SupersedeStep ==
  ASSUME ReviewInv, NEW new \in Docs, NEW prior \in Docs, SupersedeHandler(new, prior)
  PROVE  GoodStep
<1>1. TypeOK
  BY DEF ReviewInv
<1>2. new # prior
  BY <1>1 DEF SupersedeHandler, PublishSuperseding, TypeOK
<1>3. /\ status[new] = "approved" /\ status[prior] = "published"
      /\ status' = [status EXCEPT ![new] = "published", ![prior] = "superseded"]
      /\ rev' = [rev EXCEPT ![new] = rev[new] + 1, ![prior] = rev[prior] + 1]
      /\ Emit(new, "superseded")
      /\ UNCHANGED <<frozen, inst, signoffs, req, pdf, recorded>>
  BY <1>1, <1>2 DEF SupersedeHandler, PublishSuperseding, TypeOK
<1>4. /\ status' \in [Docs -> DocStates] /\ rev' \in [Docs -> Nat]
      /\ status'[new] = "published" /\ status'[prior] = "superseded"
      /\ rev'[new] > rev[new] /\ rev'[prior] > rev[prior]
      /\ \A e \in Docs \ {new, prior} : status'[e] = status[e]
  <2>1. status \in [Docs -> DocStates] /\ rev \in [Docs -> Nat]
    BY <1>1 DEF TypeOK
  <2>2. "published" \in DocStates /\ "superseded" \in DocStates
    BY DEF DocStates
  <2>3. /\ status' \in [Docs -> DocStates]
        /\ status'[new] = "published" /\ status'[prior] = "superseded"
        /\ \A e \in Docs \ {new, prior} : status'[e] = status[e]
    BY <1>2, <1>3, <2>1, <2>2
  <2>4. rev' \in [Docs -> Nat] /\ rev'[new] > rev[new] /\ rev'[prior] > rev[prior]
    BY <1>2, <1>3, <2>1
  <2> QED BY <2>3, <2>4
<1>5. events' \in [Docs -> [EventTypes -> Nat]]
  BY <1>1, <1>3, EmitType DEF EventTypes
<1>6. LegalChange
  BY <1>3, <1>4 DEF LegalChange, TriggerAllows, legalTransitions, Released
<1> QED BY <1>3, <1>4, <1>5, <1>6, ReleasedDocStep

(* A document that MarkObsolete accepts has no instance in progress, so its *)
(* cascade finds nothing to cancel.                                         *)
LEMMA ObsoleteStep ==
  ASSUME ReviewInv, NEW d \in Docs, MarkObsolete(d)
  PROVE  GoodStep
<1>1. TypeOK
  BY DEF ReviewInv
<1>2. /\ status[d] \in {"published", "superseded"} /\ SetStatus(d, "obsolete")
      /\ Emit(d, "obsoleted") /\ UNCHANGED <<frozen, signoffs, req, pdf, recorded>>
  BY DEF MarkObsolete
<1>3. \A i \in Insts : ~(inst[i].status = "in_progress" /\ inst[i].doc = d)
  BY <1>2 DEF ReviewInv, OneReview
<1>4. inst' = inst
  BY <1>1, <1>3 DEF MarkObsolete, TypeOK
<1>5. /\ status' \in [Docs -> DocStates] /\ rev' \in [Docs -> Nat]
      /\ status'[d] = "obsolete" /\ rev'[d] > rev[d]
      /\ \A e \in Docs \ {d} : status'[e] = status[e]
  BY <1>1, <1>2, SetStatusEffect DEF DocStates
<1>6. events' \in [Docs -> [EventTypes -> Nat]]
  BY <1>1, <1>2, EmitType DEF EventTypes
<1>7. LegalChange
  BY <1>2, <1>5 DEF LegalChange, TriggerAllows, legalTransitions, Released
<1> QED BY <1>2, <1>4, <1>5, <1>6, <1>7, ReleasedDocStep

LEMMA CancelStep ==
  ASSUME ReviewInv, NEW i \in Insts, CancelInstance(i)
  PROVE  GoodStep
<1> DEFINE d == inst[i].doc
           old == inst[i].stage
           st == CancelledStages(old)
           new == WithStages(inst[i], st, "cancelled")
<1>1. /\ inst[i].status = "in_progress" /\ status[d] = "under_review"
      /\ inst' = [inst EXCEPT ![i] = new]
      /\ SetStatus(d, "draft") /\ Emit(d, "cancelled")
      /\ UNCHANGED <<frozen, signoffs, req, pdf, recorded>>
  BY DEF CancelInstance, InstanceIs
<1>2. TypeOK /\ inst[i] \in Instance /\ inst[i] # NoInst /\ d \in Docs
  BY <1>1, InstanceDoc DEF ReviewInv, InstStates
<1>3. old \in Seq(StageStates)
  BY <1>2, InstanceFields
<1>4. /\ st \in Seq(StageStates) /\ DOMAIN st = DOMAIN old
      /\ \A k \in DOMAIN old : st[k] =
           IF old[k] \in {"active", "pending"} THEN "cancelled" ELSE old[k]
  BY <1>3, CancelledShape
<1>5. \A k \in DOMAIN st : st[k] \in {"completed", "cancelled"}
  <2>1. PICK m \in DOMAIN old : StoppedAt(old, m, "active")
    BY <1>1 DEF ReviewInv, StageShape
  <2>2. DOMAIN old = 1..Len(old) /\ Len(old) \in Nat
    BY <1>3, StageDomain
  <2>3. \A k \in DOMAIN old : old[k] \in {"completed", "active", "pending"}
    BY <2>1, <2>2 DEF StoppedAt
  <2> QED BY <1>4, <2>3
<1> HIDE DEF st
<1>6. /\ new \in Instance /\ new # NoInst /\ new.stage = st
      /\ new.status = "cancelled" /\ new.doc = d /\ new.by = inst[i].by
      /\ new.route = inst[i].route
  <2>1. "cancelled" \in InstStates
    BY DEF InstStates
  <2>2. /\ new \in Instance /\ new.stage = st
        /\ new.status = "cancelled" /\ new.doc = d /\ new.by = inst[i].by
        /\ new.route = inst[i].route
    BY <1>2, <1>4, <2>1, WithStagesFields
  <2> QED BY <2>2, InstanceFields
<1>7. Len(st) = Len(old)
  BY <1>3, <1>4, StageDomain
<1> HIDE DEF new
<1>8. /\ inst' \in [Insts -> Instance \cup {NoInst}]
      /\ inst'[i] = new /\ \A j \in Insts \ {i} : inst'[j] = inst[j]
  BY <1>1, <1>2, <1>6 DEF TypeOK
<1>9. /\ status' \in [Docs -> DocStates] /\ rev' \in [Docs -> Nat]
      /\ status'[d] = "draft" /\ rev'[d] > rev[d]
      /\ \A e \in Docs \ {d} : status'[e] = status[e]
  BY <1>1, <1>2, SetStatusEffect DEF DocStates
<1>10. events' \in [Docs -> [EventTypes -> Nat]]
  BY <1>1, <1>2, EmitType DEF EventTypes
<1>11. TypeOK'
  BY <1>1, <1>2, <1>8, <1>9, <1>10 DEF TypeOK
<1>12. OneReview'
  <2>1. ASSUME NEW j \in Insts, inst'[j].status = "in_progress"
        PROVE  /\ status'[inst'[j].doc] = "under_review"
               /\ \A m \in Insts \ {j} :
                    ~(inst'[m].status = "in_progress" /\ inst'[m].doc = inst'[j].doc)
    <3>1. j # i /\ inst'[j] = inst[j] /\ inst[j].status = "in_progress"
      BY <1>6, <1>8, <2>1
    <3>2. inst[j].doc \in Docs
      BY <1>2, <3>1, InstanceDoc DEF InstStates
    <3>3. status[inst[j].doc] = "under_review" /\ inst[j].doc # d
      BY <1>1, <3>1 DEF ReviewInv, OneReview
    <3>4. ASSUME NEW m \in Insts \ {j}
          PROVE  ~(inst'[m].status = "in_progress" /\ inst'[m].doc = inst'[j].doc)
      BY <1>6, <1>8, <3>1 DEF ReviewInv, OneReview
    <3> QED BY <1>9, <3>1, <3>2, <3>3, <3>4
  <2> QED BY <2>1 DEF OneReview
<1>13. StageShape'
  <2>1. inst'[i].status = "cancelled" /\ inst'[i].stage = st
    BY <1>6, <1>8
  <2>2. \A j \in Insts \ {i} : inst'[j] = inst[j]
    BY <1>8
  <2> QED BY <1>5, <2>1, <2>2 DEF ReviewInv, StageShape
<1>14. \A j \in Insts : RouteOK(j)'
  BY <1>2, <1>6, <1>7, <1>8 DEF ReviewInv, RouteOK
<1>15. \A j \in Insts : Kept(j)
  BY <1>4, <1>6, <1>7, <1>8 DEF Kept
<1>16. ASSUME NEW j \in Insts, inst'[j] # NoInst, NEW k \in DOMAIN inst'[j].stage,
              inst'[j].stage[k] = "completed"
       PROVE  inst[j] # NoInst /\ inst[j].stage[k] = "completed"
  BY <1>2, <1>4, <1>6, <1>8, <1>16
<1>17. SignoffsOK' /\ \A q \in Reqs : RequestOK(q)' /\ InsertedOK(q)'
  BY <1>1, <1>15, <1>16, DocumentStep
<1>18. ReviewInv'
  BY <1>11, <1>12, <1>13, <1>14, <1>17 DEF ReviewInv
<1>19. EndedKept
  BY <1>1, <1>8 DEF EndedKept
<1>20. LegalChange
  BY <1>1, <1>9 DEF LegalChange, TriggerAllows, Released
<1> QED BY <1>1, <1>18, <1>19, <1>20 DEF GoodStep, SignsOpen

-----------------------------------------------------------------------------
(* The document-centred signoff loads what the other one names. *)
LEMMA LoadByDocument ==
  ASSUME ReviewInv, NEW q \in Reqs, NEW d \in Docs, SignoffByDocumentHandler(q, d)
  PROVE  SignoffHandler(q)
<1>1. PICK i \in LoadActiveInstanceByDocument(d), a \in Actors, dec \in Decisions, f \in Forms :
        LoadForSignoff(q, i, Active(inst[i].stage), a, dec, f)
  BY DEF SignoffByDocumentHandler
<1>2. i \in Insts /\ inst[i].status # "none"
  BY <1>1 DEF LoadActiveInstanceByDocument
<1>3. inst[i] # NoInst
  BY <1>2, NoInstStatus
<1>4. Active(inst[i].stage) \in DOMAIN inst[i].stage
  BY <1>1 DEF LoadForSignoff
<1> QED BY <1>1, <1>2, <1>3, <1>4 DEF SignoffHandler

(* Every step of the specification. *)
LEMMA NextStep ==
  ASSUME ReviewInv, [Next]_vars
  PROVE  GoodStep
<1>1. CASE UNCHANGED vars
  <2>1. /\ TypeOK' /\ OneReview' /\ StageShape' /\ SignoffsOK'
        /\ \A i \in Insts : RouteOK(i)'
    BY <1>1 DEF vars, ReviewInv, TypeOK, OneReview, StageShape, SignoffsOK, RouteOK
  <2>2. \A q \in Reqs : RequestOK(q)' /\ InsertedOK(q)'
    BY <1>1 DEF vars, ReviewInv, RequestOK, InsertedOK, AlreadySigned, UniqueKeyFree
  <2>3. ReviewInv'
    BY <2>1, <2>2 DEF ReviewInv
  <2> QED BY <1>1, <2>3 DEF vars, GoodStep, EndedKept, SignsOpen, LegalChange
<1>2. ASSUME NEW d \in Docs, NEW a \in Actors, NEW r \in Routes, NEW i \in Insts,
             NEW f \in Forms, SubmitRevisionForReview(d, a, r, i, f)
      PROVE  GoodStep
  BY <1>2, SubmitStep
<1>3. ASSUME NEW q \in Reqs, Signing(q) PROVE GoodStep
  <2>1. SignoffHandler(q) => GoodStep
    BY LoadStep DEF SignoffHandler
  <2>2. ASSUME NEW d \in Docs, SignoffByDocumentHandler(q, d) PROVE GoodStep
    BY <2>2, LoadByDocument, <2>1
  <2> QED BY <1>3, <2>1, <2>2, InsertStep, EndRequestStep, CommitOpenStep,
             CommitApproveStep, CommitRejectStep DEF Signing
<1>4. ASSUME NEW i \in Insts, CancelHandler(i) PROVE GoodStep
  BY <1>4, CancelStep DEF CancelHandler
<1>5. ASSUME NEW d \in Docs, PublishHandler(d) PROVE GoodStep
  BY <1>5, PublishStep DEF PublishHandler, LoadActiveInstanceByDocument
<1>6. ASSUME NEW new \in Docs, NEW prior \in Docs, SupersedeHandler(new, prior)
      PROVE  GoodStep
  BY <1>6, SupersedeStep
<1>7. ASSUME NEW d \in Docs, ObsoleteHandler(d) PROVE GoodStep
  BY <1>7, ObsoleteStep DEF ObsoleteHandler
<1> QED BY <1>1, <1>2, <1>3, <1>4, <1>5, <1>6, <1>7 DEF Next

(* ReviewInv holds in every reachable state. *)
THEOREM ReviewInvariance == Spec => []ReviewInv
<1>1. Init => ReviewInv
  <2> SUFFICES ASSUME Init PROVE ReviewInv
    OBVIOUS
  <2>1. TypeOK
    BY IdleRequest, ConstantsAssumption DEF Init, TypeOK, DocStates
  <2>2. \A i \in Insts : inst[i] = NoInst /\ inst[i].status = "none"
    BY NoInstStatus DEF Init
  <2>3. OneReview /\ StageShape /\ \A i \in Insts : RouteOK(i)
    BY <2>2 DEF OneReview, StageShape, RouteOK
  <2>4. \A q \in Reqs : RequestOK(q) /\ InsertedOK(q)
    BY IdleRequest DEF Init, RequestOK, InsertedOK
  <2>5. SignoffsOK
    BY <2>2 DEF Init, SignoffsOK
  <2> QED BY <2>1, <2>3, <2>4, <2>5 DEF ReviewInv
<1>2. ReviewInv /\ [Next]_vars => ReviewInv'
  BY NextStep DEF GoodStep
<1> QED BY <1>1, <1>2, PTL DEF Spec

(* Documents, instances, signoffs and requests keep their types, whatever    *)
(* requests overlap.                                                         *)
THEOREM TypeCorrect == Spec => []TypeOK
BY ReviewInvariance, PTL DEF ReviewInv

(* A document under review has at most one instance in progress, and an     *)
(* instance in progress a document under review.                            *)
THEOREM OneReviewHolds == Spec => []OneReview
BY ReviewInvariance, PTL DEF ReviewInv

(* Stages are worked off in order, one active at a time.                    *)
THEOREM StagesInOrder == Spec => []StageShape
BY ReviewInvariance, PTL DEF ReviewInv

(* Separation of duties: each stage of an approved instance was approved by *)
(* somebody who is neither its submitter nor the document's creator.        *)
THEOREM FourEyesHolds == Spec => []FourEyes
<1>1. ReviewInv => FourEyes
  <2> SUFFICES ASSUME ReviewInv PROVE FourEyes
    OBVIOUS
  <2>1. ASSUME NEW i \in Insts, inst[i].status = "approved",
               NEW k \in DOMAIN inst[i].stage
        PROVE  \E s \in signoffs :
                 /\ s.inst = i /\ s.stage = k /\ s.decision = "approve"
                 /\ s.actor \notin {inst[i].by, CreatedBy[inst[i].doc]}
    <3>1. inst[i] # NoInst
      BY <2>1, NoInstStatus
    <3>2. inst[i].stage[k] = "completed"
      BY <2>1 DEF ReviewInv, StageShape
    <3> QED BY <3>1, <3>2 DEF ReviewInv, SignoffsOK
  <2>2. \A s, t \in signoffs : s.inst = t.inst /\ s.actor = t.actor => s = t
    BY DEF ReviewInv, SignoffsOK
  <2> QED BY <2>1, <2>2 DEF FourEyes
<1> QED BY <1>1, ReviewInvariance, PTL

(* An instance that has ended never changes again, whatever signoffs were   *)
(* loaded while it was open.                                                *)
THEOREM EndedStays == Spec => EndedStaysEnded
<1>1. ReviewInv /\ [Next]_vars =>
        [\A i \in Insts :
           inst[i].status \in InstStates \ {"in_progress"} => inst'[i] = inst[i]]_vars
  BY NextStep DEF GoodStep, EndedKept
<1> QED BY <1>1, ReviewInvariance, PTL DEF Spec, EndedStaysEnded

(* No signoff is committed into an instance that is not in progress.        *)
THEOREM SignoffsNotLate == Spec => NoLateSignoff
<1>1. ReviewInv /\ [Next]_vars =>
        [\A s \in signoffs' \ signoffs : inst[s.inst].status = "in_progress"]_vars
  BY NextStep DEF GoodStep, SignsOpen
<1> QED BY <1>1, ReviewInvariance, PTL DEF Spec, NoLateSignoff

(* A document's status only takes edges the trigger admits, never leaves    *)
(* approval backwards, and never changes without a new version.             *)
THEOREM StepsLegal == Spec => LegalSteps
<1>1. ReviewInv /\ [Next]_vars =>
        [\A d \in Docs : status'[d] # status[d] =>
           /\ TriggerAllows(status[d], status'[d])
           /\ status[d] \in Released => status'[d] \in Released
           /\ rev'[d] > rev[d]]_vars
  BY NextStep DEF GoodStep, LegalChange
<1> QED BY <1>1, ReviewInvariance, PTL DEF Spec, LegalSteps

-----------------------------------------------------------------------------
(* What a step does.                                                       *)

OnlyInstance(i) == \A j \in Insts \ {i} : inst'[j] = inst[j]

Moves(d, s) == status'[d] = s /\ \A e \in Docs \ {d} : status'[e] = status[e]

Counts(d, t) ==
  /\ events'[d][t] = events[d][t] + 1
  /\ \A u \in EventTypes \ {t} : events'[d][u] = events[d][u]
  /\ \A e \in Docs \ {d} : events'[e] = events[e]

(* A step of a request before its commit, or the dispatch after it. *)
Quiet ==
  /\ UNCHANGED <<status, frozen, inst, signoffs, events, recorded>>
  /\ \A d \in pdf' : d \in pdf \/ \E q \in Reqs : req[q].phase = "dispatch" /\ req[q].doc = d
  /\ \A q \in Reqs : req'[q].phase = "dispatch" => req'[q] = req[q]

Submitted(d, r, i) ==
  /\ inst[i] = NoInst /\ status[d] = "draft"
  /\ inst'[i].status = "in_progress" /\ inst'[i].doc = d /\ inst'[i].by \in Actors
  /\ DOMAIN inst'[i].stage = DOMAIN RouteStages[r] /\ 1 \in DOMAIN RouteStages[r]
  /\ \A k \in DOMAIN inst'[i].stage : inst'[i].stage[k] # "completed"
  /\ OnlyInstance(i) /\ Moves(d, "under_review") /\ Counts(d, "submitted")
  /\ UNCHANGED <<frozen, signoffs, req, pdf, recorded>>

(* The commit of a signoff that leaves its instance i, of document d, in     *)
(* state s; k is the stage signed.                                           *)
Signed(q, i, d, k, s) ==
  /\ req[q].phase = "inserted" /\ i = req[q].row.inst /\ k = req[q].row.stage
  /\ inst[i].status = "in_progress" /\ inst[i].doc = d
  /\ inst'[i].status = s /\ inst'[i].doc = d /\ inst'[i].by = inst[i].by
  /\ StoppedAt(inst[i].stage, k, "active")
  /\ DOMAIN inst'[i].stage = DOMAIN inst[i].stage
  /\ s = "in_progress" =>
       /\ k + 1 \in DOMAIN inst[i].stage
       /\ \A j \in DOMAIN inst[i].stage :
            inst'[i].stage[j] = "completed" <=> inst[i].stage[j] = "completed" \/ j = k
  /\ s = "approved" => k = Len(inst[i].stage)
  /\ OnlyInstance(i) /\ RecordRow(q) /\ UNCHANGED <<pdf, events>>
  /\ \A p \in Reqs \ {q} : req'[p] = req[p]
  /\ IF s = "approved"
     THEN /\ Moves(d, "approved")
          /\ frozen' = [frozen EXCEPT ![d] = TRUE]
          /\ req'[q] = [phase |-> "dispatch", doc |-> d]
     ELSE UNCHANGED <<status, frozen>> /\ req'[q] = Idle

Cancelled(i, d) ==
  /\ inst[i].status = "in_progress" /\ inst[i].doc = d
  /\ inst'[i].status = "cancelled" /\ inst'[i].doc = d
  /\ OnlyInstance(i) /\ Moves(d, "draft") /\ Counts(d, "cancelled")
  /\ UNCHANGED <<frozen, signoffs, req, pdf, recorded>>

OnlyDocuments == UNCHANGED <<frozen, inst, signoffs, req, pdf, recorded>>

Published(d) ==
  /\ status[d] = "approved" /\ Moves(d, "published") /\ Counts(d, "published")
  /\ OnlyDocuments

Superseded(new, prior) ==
  /\ status[new] = "approved" /\ status[prior] = "published"
  /\ status'[new] = "published" /\ status'[prior] = "superseded"
  /\ \A e \in Docs \ {new, prior} : status'[e] = status[e]
  /\ Counts(new, "superseded") /\ OnlyDocuments

Obsoleted(d) ==
  /\ status[d] \in {"published", "superseded"} /\ Moves(d, "obsolete")
  /\ Counts(d, "obsoleted") /\ OnlyDocuments

AnyKind ==
  \/ Quiet
  \/ \E d \in Docs, r \in Routes, i \in Insts : Submitted(d, r, i)
  \/ \E q \in Reqs, i \in Insts, d \in Docs, k \in Nat :
       \E s \in {"in_progress", "approved", "rejected"} : Signed(q, i, d, k, s)
  \/ \E i \in Insts, d \in Docs : Cancelled(i, d)
  \/ \E d \in Docs : Published(d) \/ Obsoleted(d)
  \/ \E new, prior \in Docs : Superseded(new, prior)

(* One event of a document is counted. *)
LEMMA EmitCounts ==
  ASSUME TypeOK, NEW d \in Docs, NEW t \in EventTypes, Emit(d, t)
  PROVE  Counts(d, t)
<1>1. events \in [Docs -> [EventTypes -> Nat]] /\ events' = [events EXCEPT ![d][t] = @ + 1]
  BY DEF TypeOK, Emit
<1>2. /\ events'[d] = [events[d] EXCEPT ![t] = @ + 1] /\ events[d] \in [EventTypes -> Nat]
      /\ \A e \in Docs \ {d} : events'[e] = events[e]
  BY <1>1
<1> QED BY <1>2 DEF Counts

LEMMA SetStatusMoves ==
  ASSUME TypeOK, NEW d \in Docs, NEW s \in DocStates, SetStatus(d, s)
  PROVE  Moves(d, s)
BY SetStatusEffect DEF Moves

(* Request q becomes x, and nothing is committed. *)
QuietTo(q, x) ==
  /\ req' = [req EXCEPT ![q] = x] /\ x.phase # "dispatch"
  /\ UNCHANGED <<status, rev, frozen, inst, signoffs, events, recorded>>
  /\ \/ pdf' = pdf
     \/ req[q].phase = "dispatch" /\ pdf' = pdf \cup {req[q].doc}

LEMMA QuietKind ==
  ASSUME TypeOK, NEW q \in Reqs, NEW x, QuietTo(q, x)
  PROVE  Quiet
<1>1. req'[q] = x /\ \A p \in Reqs \ {q} : req'[p] = req[p]
  BY DEF TypeOK, QuietTo
<1> QED BY <1>1 DEF Quiet, QuietTo

LEMMA LoadKind ==
  ASSUME ReviewInv, NEW q \in Reqs, SignoffHandler(q)
  PROVE  Quiet
<1>1. PICK i \in Insts, a \in Actors, dec \in Decisions, f \in Forms :
        \E k \in DOMAIN inst[i].stage : LoadForSignoff(q, i, k, a, dec, f)
  BY DEF SignoffHandler
<1>2. PICK k \in DOMAIN inst[i].stage : LoadForSignoff(q, i, k, a, dec, f)
  BY <1>1
<1> DEFINE row == [inst |-> i, stage |-> k, actor |-> a, decision |-> dec,
                   hash |-> ContentHash(i, 0, f)]
           x == [phase |-> "loaded", row |-> row, seen |-> inst[i].stage]
<1>3. /\ req' = [req EXCEPT ![q] = x]
      /\ UNCHANGED <<status, rev, frozen, inst, signoffs, pdf, events, recorded>>
  BY <1>2 DEF LoadForSignoff
<1>4. x.phase # "dispatch"
  OBVIOUS
<1> HIDE DEF x
<1>5. TypeOK /\ QuietTo(q, x)
  BY <1>3, <1>4 DEF ReviewInv, QuietTo
<1> QED BY <1>5, QuietKind

LEMMA InsertKind ==
  ASSUME ReviewInv, NEW q \in Reqs, InsertSignoff(q)
  PROVE  Quiet
<1> DEFINE row == req[q].row
           o == EvaluateQuorum(RouteStages[inst[row.inst].route][row.stage],
                  EligibleActorIDs, Votes(row, "approve"), Votes(row, "reject"),
                  EffectiveDenominator(EligibleActorIDs))
           x == [phase |-> "inserted", row |-> row, seen |-> req[q].seen, outcome |-> o]
<1>1. /\ req' = [req EXCEPT ![q] = x]
      /\ UNCHANGED <<status, rev, frozen, inst, signoffs, pdf, events, recorded>>
  BY DEF InsertSignoff
<1> HIDE DEF o
<1>2. x.phase # "dispatch"
  OBVIOUS
<1> HIDE DEF x
<1>3. TypeOK /\ QuietTo(q, x)
  BY <1>1, <1>2 DEF ReviewInv, QuietTo
<1> QED BY <1>3, QuietKind

LEMMA EndRequestKind ==
  ASSUME ReviewInv, NEW q \in Reqs,
         ReplaySignoff(q) \/ AbortSignoff(q) \/ DispatchPDF(q)
  PROVE  Quiet
<1>1. /\ req' = [req EXCEPT ![q] = Idle]
      /\ UNCHANGED <<status, rev, frozen, inst, signoffs, events, recorded>>
      /\ \/ pdf' = pdf
         \/ req[q].phase = "dispatch" /\ pdf' = pdf \cup {req[q].doc}
  BY DEF ReplaySignoff, AbortSignoff, DispatchPDF
<1>2. TypeOK /\ QuietTo(q, Idle)
  BY <1>1, IdleRequest DEF ReviewInv, QuietTo
<1> QED BY <1>2, QuietKind

LEMMA SubmitKind ==
  ASSUME ReviewInv, NEW d \in Docs, NEW a \in Actors, NEW r \in Routes, NEW i \in Insts,
         NEW f \in Forms, SubmitRevisionForReview(d, a, r, i, f)
  PROVE  Submitted(d, r, i)
<1> DEFINE first == [k \in 1..Len(RouteStages[r]) |->
                       IF k = 1 THEN "active" ELSE "pending"]
<1>1. TypeOK
  BY DEF ReviewInv
<1>2. /\ inst'[i] \in Instance /\ inst'[i].doc = d /\ inst'[i].by = a
      /\ inst'[i].status = "in_progress" /\ inst'[i].stage = first
      /\ \A j \in Insts \ {i} : inst'[j] = inst[j]
  BY <1>1, SubmitType
<1>3. /\ inst[i] = NoInst /\ ValidRoute(RouteStages[r]) /\ status[d] = "draft"
      /\ SetStatus(d, "under_review") /\ Emit(d, "submitted")
      /\ UNCHANGED <<frozen, signoffs, req, pdf, recorded>>
  BY DEF SubmitRevisionForReview
<1>4. Moves(d, "under_review") /\ Counts(d, "submitted")
  BY <1>1, <1>3, SetStatusMoves, EmitCounts DEF DocStates, EventTypes
<1>5. /\ Len(RouteStages[r]) \in Nat /\ DOMAIN RouteStages[r] = 1..Len(RouteStages[r])
      /\ Len(RouteStages[r]) >= 1
  BY <1>3, ConstantsAssumption, LenProperties DEF ValidRoute
<1>6. DOMAIN first = DOMAIN RouteStages[r] /\ 1 \in DOMAIN RouteStages[r]
  BY <1>5
<1>7. \A k \in DOMAIN first : first[k] # "completed"
  OBVIOUS
<1> HIDE DEF first
<1> QED BY <1>2, <1>3, <1>4, <1>6, <1>7 DEF Submitted, OnlyInstance

(* The commit of stages st with status s is the kind Signed. *)
LEMMA CommitKind ==
  ASSUME ReviewInv, NEW q \in Reqs, req[q].phase = "inserted",
         StageIs(req[q].row.inst, req[q].row.stage, "active"),
         NEW st \in Seq(StageStates), NEW s \in {"in_progress", "approved", "rejected"},
         NEW x \in Request, CommitsTo(q, st, s, x),
         DOMAIN st = DOMAIN inst[req[q].row.inst].stage,
         s = "in_progress" =>
           /\ req[q].row.stage + 1 \in DOMAIN st
           /\ \A j \in DOMAIN st : st[j] = "completed" <=>
                inst[req[q].row.inst].stage[j] = "completed" \/ j = req[q].row.stage,
         s = "approved" => req[q].row.stage = Len(inst[req[q].row.inst].stage),
         IF s = "approved"
         THEN /\ frozen' = [frozen EXCEPT ![inst[req[q].row.inst].doc] = TRUE]
              /\ x = [phase |-> "dispatch", doc |-> inst[req[q].row.inst].doc]
         ELSE frozen' = frozen /\ x = Idle
  PROVE  AnyKind
<1> DEFINE i == req[q].row.inst
           d == inst[i].doc
           k == req[q].row.stage
<1>1. /\ req[q].row \in Signoff /\ i \in Insts /\ inst[i] \in Instance
      /\ inst[i].status = "in_progress" /\ inst[i].stage \in Seq(StageStates)
      /\ k \in DOMAIN inst[i].stage /\ StoppedAt(inst[i].stage, k, "active")
  BY CommitStart
<1>2. TypeOK /\ d \in Docs /\ s \in InstStates /\ k \in Nat
  <2>1. d \in Docs
    BY <1>1, InstanceFields
  <2>2. k \in Nat
    BY <1>1, SignoffFields
  <2> QED BY <2>1, <2>2 DEF ReviewInv, InstStates
<1>3. s = "approved" => SetStatus(d, "approved")
  BY DEF CommitsTo
<1>4. s # "approved" => UNCHANGED <<status, rev>>
  BY DEF CommitsTo
<1>5. s = "approved" => Moves(d, "approved")
  BY <1>2, <1>3, SetStatusMoves DEF DocStates
<1>6. status' \in [Docs -> DocStates] /\ rev' \in [Docs -> Nat]
  <2>1. s = "approved" => status' \in [Docs -> DocStates] /\ rev' \in [Docs -> Nat]
    BY <1>2, <1>3, SetStatusType DEF DocStates
  <2> QED BY <1>2, <1>4, <2>1 DEF TypeOK
<1>7. Committed(q, st, s, x)
  BY <1>1, <1>2, <1>6, CommitType
<1>8. RecordRow(q) /\ UNCHANGED <<pdf, events>>
  BY DEF CommitsTo
<1>9. Signed(q, i, d, k, s)
  BY <1>1, <1>4, <1>5, <1>7, <1>8 DEF Signed, Committed, OnlyInstance
<1> QED BY <1>1, <1>2, <1>9 DEF AnyKind

LEMMA CommitOpenKind ==
  ASSUME ReviewInv, NEW q \in Reqs, CommitSignoffOpen(q)
  PROVE  AnyKind
<1> DEFINE i == req[q].row.inst
           k == req[q].row.stage
           n == NextPending(req[q].seen, k)
           old == inst[i].stage
           st == [old EXCEPT ![k] = "completed", ![n] = "active"]
<1>1. req[q].phase = "inserted" /\ req[q].outcome = "approved_stage"
  <2>1. req[q].phase = "inserted" /\ req[q].outcome # "rejected_stage"
    BY DEF CommitSignoffOpen
  <2>2. req[q].outcome # "pending"
    BY <2>1 DEF ReviewInv, InsertedOK
  <2>3. req[q].outcome \in {"approved_stage", "rejected_stage", "pending"}
    BY <2>1, RequestFields DEF ReviewInv, TypeOK
  <2> QED BY <2>1, <2>2, <2>3
<1>2. /\ n # 0 /\ StageIs(i, k, "active")
      /\ inst' = [inst EXCEPT ![i] = WithStages(inst[i], st, inst[i].status)]
      /\ RecordRow(q) /\ req' = [req EXCEPT ![q] = Idle]
      /\ UNCHANGED <<status, rev, frozen, pdf, events>>
  BY <1>1 DEF CommitSignoffOpen
<1>3. /\ inst[i].status = "in_progress" /\ old \in Seq(StageStates)
      /\ k \in DOMAIN old /\ StoppedAt(old, k, "active")
      /\ n = k + 1 /\ n \in DOMAIN old
  BY <1>1, <1>2, CommitStart
<1>4. st = Advanced(old, k)
  BY <1>3 DEF Advanced
<1>5. CommitsTo(q, st, "in_progress", Idle)
  BY <1>2, <1>3 DEF CommitsTo, ReviewInv, TypeOK
<1> HIDE DEF st, n, old, k, i
<1>6. /\ st \in Seq(StageStates) /\ DOMAIN st = DOMAIN old
      /\ StoppedAt(st, k + 1, "active")
      /\ \A j \in DOMAIN st : st[j] = "completed" => old[j] = "completed" \/ j = k
  BY <1>3, <1>4, AdvanceShape
<1>7. \A j \in DOMAIN st : st[j] = "completed" <=> old[j] = "completed" \/ j = k
  <2>1. DOMAIN old = 1..Len(old) /\ Len(old) \in Nat
    BY <1>3, StageDomain
  <2>2. \A j \in DOMAIN old : old[j] = "completed" => j < k
    BY <1>3, <2>1 DEF StoppedAt
  <2>3. \A j \in DOMAIN old : j < k + 1 => st[j] = "completed"
    BY <1>6 DEF StoppedAt
  <2>4. \A j \in DOMAIN old : j < k \/ j = k => j < k + 1
    BY <1>3, <2>1
  <2> QED BY <1>6, <2>2, <2>3, <2>4
<1> USE DEF old, k, i
<1> QED BY <1>1, <1>2, <1>3, <1>5, <1>6, <1>7, CommitKind, IdleRequest

LEMMA CommitApproveKind ==
  ASSUME ReviewInv, NEW q \in Reqs, CommitSignoffApprove(q)
  PROVE  AnyKind
<1> DEFINE i == req[q].row.inst
           k == req[q].row.stage
           d == inst[i].doc
           old == inst[i].stage
           st == [old EXCEPT ![k] = "completed"]
           x == [phase |-> "dispatch", doc |-> d]
<1>1. /\ req[q].phase = "inserted" /\ NextPending(req[q].seen, k) = 0
      /\ StageIs(i, k, "active")
      /\ inst' = [inst EXCEPT ![i] = WithStages(inst[i], st, "approved")]
      /\ frozen' = [frozen EXCEPT ![d] = TRUE] /\ ApproveDocument(d)
      /\ RecordRow(q) /\ req' = [req EXCEPT ![q] = x] /\ UNCHANGED <<pdf, events>>
  BY DEF CommitSignoffApprove, Freeze
<1>2. /\ i \in Insts /\ inst[i] \in Instance /\ inst[i].status = "in_progress"
      /\ old \in Seq(StageStates) /\ k \in DOMAIN old
      /\ (k = Len(old) \/ k + 1 = 0)
  BY <1>1, CommitStart
<1>3. k = Len(old)
  BY <1>2, StageDomain
<1>4. st \in Seq(StageStates) /\ DOMAIN st = DOMAIN old
  BY <1>2, StageExcept DEF StageStates
<1>5. status[d] = "under_review" /\ d \in Docs
  BY <1>2, InstanceFields DEF ReviewInv, OneReview
<1>6. SetStatus(d, "approved")
  BY <1>1, <1>5 DEF ApproveDocument
<1>7. frozen' \in [Docs -> BOOLEAN]
  BY <1>1 DEF ReviewInv, TypeOK
<1>8. x \in Request
  BY <1>5 DEF Request
<1>9. CommitsTo(q, st, "approved", x)
  BY <1>1, <1>6, <1>7 DEF CommitsTo
<1> HIDE DEF st
<1> QED BY <1>1, <1>3, <1>4, <1>8, <1>9, CommitKind

LEMMA CommitRejectKind ==
  ASSUME ReviewInv, NEW q \in Reqs, CommitSignoffReject(q)
  PROVE  AnyKind
<1> DEFINE i == req[q].row.inst
           k == req[q].row.stage
           old == inst[i].stage
           st == [old EXCEPT ![k] = "rejected_here"]
<1>1. /\ req[q].phase = "inserted" /\ StageIs(i, k, "active")
      /\ inst' = [inst EXCEPT ![i] = WithStages(inst[i], st, "rejected")]
      /\ RecordRow(q) /\ req' = [req EXCEPT ![q] = Idle]
      /\ UNCHANGED <<status, rev, frozen, pdf, events>>
  BY DEF CommitSignoffReject
<1>2. old \in Seq(StageStates) /\ k \in DOMAIN old
  BY <1>1, CommitStart
<1>3. st \in Seq(StageStates) /\ DOMAIN st = DOMAIN old
  BY <1>2, StageExcept DEF StageStates
<1>4. CommitsTo(q, st, "rejected", Idle)
  BY <1>1 DEF CommitsTo, ReviewInv, TypeOK
<1> HIDE DEF st
<1> QED BY <1>1, <1>3, <1>4, CommitKind, IdleRequest

LEMMA CancelKind ==
  ASSUME ReviewInv, NEW i \in Insts, CancelInstance(i)
  PROVE  AnyKind
<1> DEFINE d == inst[i].doc
           st == CancelledStages(inst[i].stage)
           new == WithStages(inst[i], st, "cancelled")
<1>1. /\ inst[i].status = "in_progress" /\ inst' = [inst EXCEPT ![i] = new]
      /\ SetStatus(d, "draft") /\ Emit(d, "cancelled")
      /\ UNCHANGED <<frozen, signoffs, req, pdf, recorded>>
  BY DEF CancelInstance, InstanceIs
<1>2. TypeOK /\ inst[i] \in Instance /\ d \in Docs
  BY <1>1, InstanceDoc DEF ReviewInv, InstStates
<1>3. st \in Seq(StageStates)
  BY <1>2, InstanceFields, CancelledShape
<1>4. new.status = "cancelled" /\ new.doc = d
  BY <1>2, <1>3, WithStagesFields DEF InstStates
<1> HIDE DEF new
<1>5. inst'[i] = new /\ OnlyInstance(i)
  BY <1>1, <1>2 DEF TypeOK, OnlyInstance
<1>6. Moves(d, "draft") /\ Counts(d, "cancelled")
  BY <1>1, <1>2, SetStatusMoves, EmitCounts DEF DocStates, EventTypes
<1>7. Cancelled(i, d)
  BY <1>1, <1>4, <1>5, <1>6 DEF Cancelled
<1> QED BY <1>2, <1>7 DEF AnyKind

LEMMA PublishKind ==
  ASSUME ReviewInv, NEW i \in Insts, PublishApproved(i)
  PROVE  AnyKind
<1> DEFINE d == inst[i].doc
<1>1. TypeOK /\ d \in Docs
  BY InstanceDoc DEF ReviewInv, PublishApproved, InstStates
<1>2. /\ status[d] = "approved" /\ SetStatus(d, "published") /\ Emit(d, "published")
      /\ UNCHANGED <<frozen, inst, signoffs, req, pdf, recorded>>
  BY DEF PublishApproved
<1>3. Moves(d, "published") /\ Counts(d, "published")
  BY <1>1, <1>2, SetStatusMoves, EmitCounts DEF DocStates, EventTypes
<1>4. Published(d)
  BY <1>2, <1>3 DEF Published, OnlyDocuments
<1> QED BY <1>1, <1>4 DEF AnyKind

LEMMA SupersedeKind ==
  ASSUME ReviewInv, NEW new \in Docs, NEW prior \in Docs, SupersedeHandler(new, prior)
  PROVE  AnyKind
<1>1. TypeOK
  BY DEF ReviewInv
<1>2. new # prior
  BY <1>1 DEF SupersedeHandler, PublishSuperseding, TypeOK
<1>3. /\ status[new] = "approved" /\ status[prior] = "published"
      /\ status' = [status EXCEPT ![new] = "published", ![prior] = "superseded"]
      /\ Emit(new, "superseded")
      /\ UNCHANGED <<frozen, inst, signoffs, req, pdf, recorded>>
  BY <1>1, <1>2 DEF SupersedeHandler, PublishSuperseding, TypeOK
<1>4. Counts(new, "superseded")
  BY <1>1, <1>3, EmitCounts DEF EventTypes
<1>5. /\ status'[new] = "published" /\ status'[prior] = "superseded"
      /\ \A e \in Docs \ {new, prior} : status'[e] = status[e]
  BY <1>1, <1>2, <1>3 DEF TypeOK
<1>6. Superseded(new, prior)
  BY <1>3, <1>4, <1>5 DEF Superseded, OnlyDocuments
<1> QED BY <1>6 DEF AnyKind

LEMMA ObsoleteKind ==
  ASSUME ReviewInv, NEW d \in Docs, MarkObsolete(d)
  PROVE  AnyKind
<1>1. TypeOK
  BY DEF ReviewInv
<1>2. /\ status[d] \in {"published", "superseded"} /\ SetStatus(d, "obsolete")
      /\ Emit(d, "obsoleted") /\ UNCHANGED <<frozen, signoffs, req, pdf, recorded>>
  BY DEF MarkObsolete
<1>3. \A i \in Insts : ~(inst[i].status = "in_progress" /\ inst[i].doc = d)
  BY <1>2 DEF ReviewInv, OneReview
<1>4. inst' = inst
  BY <1>1, <1>3 DEF MarkObsolete, TypeOK
<1>5. Moves(d, "obsolete") /\ Counts(d, "obsoleted")
  BY <1>1, <1>2, SetStatusMoves, EmitCounts DEF DocStates, EventTypes
<1>6. Obsoleted(d)
  BY <1>2, <1>4, <1>5 DEF Obsoleted, OnlyDocuments
<1> QED BY <1>6 DEF AnyKind

(* Every step of the specification is of one of the kinds. *)
LEMMA StepKinds ==
  ASSUME ReviewInv, [Next]_vars
  PROVE  AnyKind
<1>1. CASE UNCHANGED vars
  BY <1>1 DEF vars, AnyKind, Quiet
<1>2. ASSUME NEW d \in Docs, NEW a \in Actors, NEW r \in Routes, NEW i \in Insts,
             NEW f \in Forms, SubmitRevisionForReview(d, a, r, i, f)
      PROVE  AnyKind
  <2>1. Submitted(d, r, i)
    BY <1>2, SubmitKind
  <2> QED BY <2>1 DEF AnyKind
<1>3. ASSUME NEW q \in Reqs, Signing(q) PROVE AnyKind
  <2>1. Quiet => AnyKind
    BY DEF AnyKind
  <2>2. SignoffHandler(q) => Quiet
    BY LoadKind
  <2>3. ASSUME NEW d \in Docs, SignoffByDocumentHandler(q, d) PROVE Quiet
    BY <2>2, <2>3, LoadByDocument
  <2> QED BY <1>3, <2>1, <2>2, <2>3, InsertKind, EndRequestKind, CommitOpenKind,
             CommitApproveKind, CommitRejectKind DEF Signing
<1>4. ASSUME NEW i \in Insts, CancelHandler(i) PROVE AnyKind
  BY <1>4, CancelKind DEF CancelHandler
<1>5. ASSUME NEW d \in Docs, PublishHandler(d) PROVE AnyKind
  BY <1>5, PublishKind DEF PublishHandler, LoadActiveInstanceByDocument
<1>6. ASSUME NEW new \in Docs, NEW prior \in Docs, SupersedeHandler(new, prior)
      PROVE  AnyKind
  BY <1>6, SupersedeKind
<1>7. ASSUME NEW d \in Docs, ObsoleteHandler(d) PROVE AnyKind
  BY <1>7, ObsoleteKind DEF ObsoleteHandler
<1> QED BY <1>1, <1>2, <1>3, <1>4, <1>5, <1>6, <1>7 DEF Next

-----------------------------------------------------------------------------
(* Document and reviews agree.                                             *)

(* A review that was not cancelled. *)
Live(i) == inst[i].status \in {"in_progress", "approved", "rejected"}

(* The document has an approved instance. *)
HasApproved(d) == \E i \in Insts : inst[i].status = "approved" /\ inst[i].doc = d

(* A document has one review that was not cancelled at most, and none while  *)
(* it is a draft; a rejected one holds its document under review.            *)
LiveOK ==
  /\ \A i, j \in Insts : Live(i) /\ Live(j) /\ inst[i].doc = inst[j].doc => i = j
  /\ \A i \in Insts : Live(i) => status[inst[i].doc] # "draft"
  /\ \A i \in Insts : inst[i].status = "rejected" => status[inst[i].doc] = "under_review"

(* An approved instance is what releases and freezes a document; a PDF is    *)
(* asked for, or about to be, for frozen documents only.                     *)
FrozenOK ==
  /\ \A d \in Docs \ LegacyDocs : status[d] \in Released <=> HasApproved(d)
  /\ \A d \in Docs : frozen[d] <=> HasApproved(d)
  /\ \A d \in pdf : frozen[d]
  /\ \A q \in Reqs : req[q].phase = "dispatch" => frozen[req[q].doc]

ChainInv == LiveOK /\ FrozenOK

LEMMA LiveDoc ==
  ASSUME TypeOK, NEW i \in Insts, Live(i)
  PROVE  inst[i] \in Instance /\ inst[i].doc \in Docs
BY InstanceDoc DEF Live, InstStates

LEMMA QuietChain ==
  ASSUME ReviewInv, ChainInv, Quiet
  PROVE  ChainInv'
<1>1. LiveOK'
  BY DEF Quiet, ChainInv, LiveOK, Live
<1>2. FrozenOK'
  BY DEF Quiet, ChainInv, FrozenOK, HasApproved
<1> QED BY <1>1, <1>2 DEF ChainInv

LEMMA SubmittedChain ==
  ASSUME ReviewInv, ChainInv, NEW d \in Docs, NEW r \in Routes, NEW i \in Insts,
         Submitted(d, r, i)
  PROVE  ChainInv'
<1>1. /\ inst[i] = NoInst /\ status[d] = "draft"
      /\ inst'[i].status = "in_progress" /\ inst'[i].doc = d
      /\ \A j \in Insts \ {i} : inst'[j] = inst[j]
      /\ status'[d] = "under_review" /\ \A e \in Docs \ {d} : status'[e] = status[e]
      /\ UNCHANGED <<frozen, req, pdf>>
  BY DEF Submitted, OnlyInstance, Moves
<1>2. inst[i].status = "none"
  BY <1>1, NoInstStatus
<1>3. \A j \in Insts : Live(j) => inst[j].doc \in Docs \ {d}
  BY <1>1, LiveDoc DEF ReviewInv, ChainInv, LiveOK
<1>4. \A j \in Insts \ {i} : Live(j)' <=> Live(j)
  BY <1>1 DEF Live
<1>5. LiveOK'
  <2>1. ASSUME NEW j \in Insts, NEW m \in Insts, Live(j)', Live(m)',
               inst'[j].doc = inst'[m].doc
        PROVE  j = m
    BY <1>1, <1>3, <1>4, <2>1 DEF ChainInv, LiveOK
  <2>2. ASSUME NEW j \in Insts, Live(j)' PROVE status'[inst'[j].doc] # "draft"
    BY <1>1, <1>3, <1>4, <2>2 DEF ChainInv, LiveOK
  <2>3. ASSUME NEW j \in Insts, inst'[j].status = "rejected"
        PROVE  status'[inst'[j].doc] = "under_review"
    <3>1. j # i /\ inst'[j] = inst[j] /\ Live(j)
      BY <1>1, <2>3 DEF Live
    <3> QED BY <1>1, <1>3, <2>3, <3>1 DEF ChainInv, LiveOK
  <2> QED BY <2>1, <2>2, <2>3 DEF LiveOK
<1>6. \A e \in Docs : HasApproved(e)' <=> HasApproved(e)
  BY <1>1, <1>2 DEF HasApproved
<1>7. FrozenOK'
  BY <1>1, <1>6 DEF ChainInv, FrozenOK, Released
<1> QED BY <1>5, <1>7 DEF ChainInv

LEMMA SignedChain ==
  ASSUME ReviewInv, ChainInv, NEW q \in Reqs, NEW i \in Insts, NEW d \in Docs,
         NEW k \in Nat, NEW s \in {"in_progress", "approved", "rejected"},
         Signed(q, i, d, k, s)
  PROVE  ChainInv'
<1>1. /\ inst[i].status = "in_progress" /\ inst[i].doc = d
      /\ inst'[i].status = s /\ inst'[i].doc = d
      /\ \A j \in Insts \ {i} : inst'[j] = inst[j]
      /\ pdf' = pdf /\ \A p \in Reqs \ {q} : req'[p] = req[p]
  BY DEF Signed, OnlyInstance
<1>2. s = "approved" =>
        /\ status'[d] = "approved" /\ \A e \in Docs \ {d} : status'[e] = status[e]
        /\ frozen' = [frozen EXCEPT ![d] = TRUE]
        /\ req'[q] = [phase |-> "dispatch", doc |-> d]
  BY DEF Signed, Moves
<1>3. s # "approved" => UNCHANGED <<status, frozen>> /\ req'[q].phase = "idle"
  BY IdleRequest DEF Signed
<1>4. Live(i) /\ Live(i)' /\ \A j \in Insts : Live(j)' <=> Live(j)
  BY <1>1 DEF Live
<1>5. \A j \in Insts : Live(j) => inst'[j].doc = inst[j].doc /\ inst[j].doc \in Docs
  BY <1>1, LiveDoc DEF ReviewInv
<1>6. status[d] = "under_review"
  BY <1>1 DEF ReviewInv, OneReview
<1>7. \A j \in Insts \ {i} : Live(j) => inst[j].doc # d
  BY <1>1, <1>4 DEF ChainInv, LiveOK
<1>8. \A e \in Docs \ {d} : status'[e] = status[e]
  BY <1>2, <1>3
<1>9. status'[d] = IF s = "approved" THEN "approved" ELSE "under_review"
  BY <1>2, <1>3, <1>6
<1>10. LiveOK'
  <2>1. ASSUME NEW j \in Insts, NEW m \in Insts, Live(j)', Live(m)',
               inst'[j].doc = inst'[m].doc
        PROVE  j = m
    BY <1>4, <1>5, <2>1 DEF ChainInv, LiveOK
  <2>2. ASSUME NEW j \in Insts, Live(j)' PROVE status'[inst'[j].doc] # "draft"
    BY <1>1, <1>4, <1>5, <1>7, <1>8, <1>9, <2>2 DEF ChainInv, LiveOK
  <2>3. ASSUME NEW j \in Insts, inst'[j].status = "rejected"
        PROVE  status'[inst'[j].doc] = "under_review"
    <3>1. CASE j = i
      BY <1>1, <1>9, <2>3, <3>1
    <3>2. CASE j # i
      <4>1. inst'[j] = inst[j] /\ Live(j)
        BY <1>1, <2>3, <3>2 DEF Live
      <4> QED BY <1>5, <1>7, <1>8, <2>3, <3>2, <4>1 DEF ChainInv, LiveOK
    <3> QED BY <3>1, <3>2
  <2> QED BY <2>1, <2>2, <2>3 DEF LiveOK
<1>11. \A e \in Docs \ {d} : HasApproved(e)' <=> HasApproved(e)
  BY <1>1 DEF HasApproved
<1>12. ~HasApproved(d) /\ (HasApproved(d)' <=> s = "approved")
  <2>1. ~HasApproved(d)
    BY <1>1, <1>7 DEF HasApproved, Live
  <2> QED BY <1>1, <2>1 DEF HasApproved
<1>13. frozen'[d] <=> s = "approved"
  BY <1>2, <1>3, <1>12 DEF ReviewInv, TypeOK, ChainInv, FrozenOK
<1>14. \A e \in Docs \ {d} : frozen'[e] = frozen[e]
  BY <1>2, <1>3 DEF ReviewInv, TypeOK
<1>15. FrozenOK'
  <2>1. ASSUME NEW e \in Docs \ LegacyDocs
        PROVE  status'[e] \in Released <=> HasApproved(e)'
    <3>1. CASE e = d
      BY <1>9, <1>12, <3>1 DEF Released
    <3>2. CASE e # d
      BY <1>8, <1>11, <3>2 DEF ChainInv, FrozenOK
    <3> QED BY <3>1, <3>2
  <2>2. ASSUME NEW e \in Docs PROVE frozen'[e] <=> HasApproved(e)'
    <3>1. CASE e = d
      BY <1>12, <1>13, <3>1
    <3>2. CASE e # d
      BY <1>11, <1>14, <3>2 DEF ChainInv, FrozenOK
    <3> QED BY <3>1, <3>2
  <2>3. ASSUME NEW e \in Docs, frozen[e] PROVE frozen'[e]
    BY <1>12, <1>14, <2>3 DEF ChainInv, FrozenOK
  <2>4. pdf \subseteq Docs /\ \A p \in Reqs : req[p].phase = "dispatch" => req[p].doc \in Docs
    BY RequestFields DEF ReviewInv, TypeOK
  <2>5. \A e \in pdf' : frozen'[e]
    BY <1>1, <2>3, <2>4 DEF ChainInv, FrozenOK
  <2>6. ASSUME NEW p \in Reqs, req'[p].phase = "dispatch" PROVE frozen'[req'[p].doc]
    <3>1. CASE p = q
      BY <1>2, <1>3, <1>13, <2>6, <3>1
    <3>2. CASE p # q
      BY <1>1, <2>3, <2>4, <2>6, <3>2 DEF ChainInv, FrozenOK
    <3> QED BY <3>1, <3>2
  <2> QED BY <2>1, <2>2, <2>5, <2>6 DEF FrozenOK
<1> QED BY <1>10, <1>15 DEF ChainInv

LEMMA CancelledChain ==
  ASSUME ReviewInv, ChainInv, NEW i \in Insts, NEW d \in Docs, Cancelled(i, d)
  PROVE  ChainInv'
<1>1. /\ inst[i].status = "in_progress" /\ inst[i].doc = d
      /\ inst'[i].status = "cancelled"
      /\ \A j \in Insts \ {i} : inst'[j] = inst[j]
      /\ status'[d] = "draft" /\ \A e \in Docs \ {d} : status'[e] = status[e]
      /\ UNCHANGED <<frozen, req, pdf>>
  BY DEF Cancelled, OnlyInstance, Moves
<1>2. Live(i) /\ status[d] = "under_review"
  BY <1>1 DEF Live, ReviewInv, OneReview
<1>3. ASSUME NEW j \in Insts, Live(j)'
      PROVE  /\ j # i /\ inst'[j] = inst[j] /\ Live(j)
             /\ inst[j].doc \in Docs \ {d}
  <2>1. j # i
    BY <1>1, <1>3 DEF Live
  <2>2. inst'[j] = inst[j] /\ Live(j)
    BY <1>1, <1>3, <2>1 DEF Live
  <2>3. inst[j].doc \in Docs
    BY <2>2, LiveDoc DEF ReviewInv
  <2> QED BY <1>1, <1>2, <2>1, <2>2, <2>3 DEF ChainInv, LiveOK
<1>4. LiveOK'
  <2>1. \A j \in Insts : inst'[j].status = "rejected" => Live(j)'
    BY DEF Live
  <2> QED BY <1>1, <1>3, <2>1 DEF ChainInv, LiveOK
<1>5. \A e \in Docs : HasApproved(e)' <=> HasApproved(e)
  BY <1>1 DEF HasApproved
<1>6. FrozenOK'
  BY <1>1, <1>2, <1>5 DEF ChainInv, FrozenOK, Released
<1> QED BY <1>4, <1>6 DEF ChainInv

(* Publication and what follows it: released documents stay released. *)
LEMMA DocumentsChain ==
  ASSUME ReviewInv, ChainInv, OnlyDocuments,
         \A d \in Docs : status'[d] # status[d] =>
           status[d] \in Released /\ status'[d] \in Released
  PROVE  ChainInv'
<1>1. UNCHANGED <<frozen, inst, req, pdf>>
  BY DEF OnlyDocuments
<1>2. \A i \in Insts : Live(i)' <=> Live(i)
  BY <1>1 DEF Live
<1>3. LiveOK'
  <2>1. \A i \in Insts : Live(i) => inst[i].doc \in Docs
    BY LiveDoc DEF ReviewInv
  <2>2. ASSUME NEW i \in Insts, Live(i)' PROVE status'[inst'[i].doc] # "draft"
    BY <1>1, <1>2, <2>1, <2>2 DEF ChainInv, LiveOK, Released
  <2>3. ASSUME NEW i \in Insts, inst'[i].status = "rejected"
        PROVE  status'[inst'[i].doc] = "under_review"
    <3>1. Live(i) /\ status[inst[i].doc] = "under_review"
      BY <1>1, <2>3 DEF Live, ChainInv, LiveOK
    <3> QED BY <1>1, <2>1, <3>1 DEF Released
  <2> QED BY <1>1, <1>2, <2>2, <2>3 DEF ChainInv, LiveOK
<1>4. \A e \in Docs : HasApproved(e)' <=> HasApproved(e)
  BY <1>1 DEF HasApproved
<1>5. FrozenOK'
  BY <1>1, <1>4 DEF ChainInv, FrozenOK
<1> QED BY <1>3, <1>5 DEF ChainInv

LEMMA ChainStep ==
  ASSUME ReviewInv, ChainInv, [Next]_vars
  PROVE  ChainInv'
<1>1. AnyKind
  BY StepKinds
<1>2. ASSUME NEW d \in Docs, Published(d) \/ Obsoleted(d) PROVE ChainInv'
  <2>1. /\ OnlyDocuments
        /\ \A e \in Docs : status'[e] # status[e] =>
             status[e] \in Released /\ status'[e] \in Released
    BY <1>2 DEF Published, Obsoleted, Moves, Released
  <2> QED BY <2>1, DocumentsChain
<1>3. ASSUME NEW new \in Docs, NEW prior \in Docs, Superseded(new, prior)
      PROVE  ChainInv'
  <2>1. /\ OnlyDocuments
        /\ \A e \in Docs : status'[e] # status[e] =>
             status[e] \in Released /\ status'[e] \in Released
    BY <1>3 DEF Superseded, Released
  <2> QED BY <2>1, DocumentsChain
<1> QED BY <1>1, <1>2, <1>3, QuietChain, SubmittedChain, SignedChain, CancelledChain
        DEF AnyKind

(* ChainInv holds in every reachable state. *)
THEOREM ChainInvariance == Spec => []ChainInv
<1>1. Init => ChainInv
  <2> SUFFICES ASSUME Init PROVE ChainInv
    OBVIOUS
  <2>1. \A i \in Insts : inst[i].status = "none"
    BY NoInstStatus DEF Init
  <2>2. LiveOK /\ \A d \in Docs : ~HasApproved(d)
    BY <2>1 DEF LiveOK, Live, HasApproved
  <2>3. FrozenOK
    BY <2>2, IdleRequest DEF Init, FrozenOK, Released
  <2> QED BY <2>2, <2>3 DEF ChainInv
<1>2. ReviewInv /\ ChainInv /\ [Next]_vars => ChainInv'
  BY ChainStep
<1> QED BY <1>1, <1>2, ReviewInvariance, PTL DEF Spec

(* A document is released and frozen exactly when a review of it was         *)
(* approved, and PDFs are asked for frozen documents only.                   *)
THEOREM ApprovedChainHolds == Spec => []ApprovedChain
<1>1. ChainInv => ApprovedChain
  BY DEF ChainInv, FrozenOK, HasApproved, ApprovedChain
<1> QED BY <1>1, ChainInvariance, PTL

-----------------------------------------------------------------------------
(* The audit trail counts what happened.                                   *)

(* Submissions and cancellations of a document alternate. *)
Balanced(d) ==
  events[d]["submitted"] = events[d]["cancelled"] + (IF status[d] = "draft" THEN 0 ELSE 1)

Releases(d) == events[d]["published"] + events[d]["superseded"]

(* A document is released once at most, and not before it was approved. *)
ReleasedAtMostOnce(d) ==
  /\ Releases(d) <= 1
  /\ status[d] \in {"draft", "under_review", "approved"} => Releases(d) = 0

RowsOf(i) == {s \in signoffs : s.inst = i}

RowsCounted ==
  /\ IsFiniteSet(signoffs)
  /\ \A i \in Insts : recorded[i] = Cardinality(RowsOf(i))

AuditInv ==
  /\ \A d \in Docs \ LegacyDocs : Balanced(d)
  /\ \A d \in Docs : ReleasedAtMostOnce(d)
  /\ RowsCounted

(* The events of a document whose events and status a step leaves alone. *)
LEMMA SameEvents ==
  ASSUME NEW d, events'[d] = events[d], status'[d] = status[d]
  PROVE  /\ Balanced(d) => Balanced(d)'
         /\ ReleasedAtMostOnce(d) => ReleasedAtMostOnce(d)'
BY DEF Balanced, ReleasedAtMostOnce, Releases

LEMMA EventCounts ==
  ASSUME TypeOK, NEW d \in Docs, NEW t \in EventTypes
  PROVE  events[d][t] \in Nat
BY DEF TypeOK

(* One document moves from status[d] to s and counts event t. *)
LEMMA MovedAudit ==
  ASSUME ReviewInv, AuditInv, NEW d \in Docs, NEW s, NEW t \in EventTypes,
         status'[d] = s, Counts(d, t),
         \/ t = "submitted" /\ status[d] = "draft" /\ s = "under_review"
         \/ t = "cancelled" /\ status[d] = "under_review" /\ s = "draft"
         \/ t = "published" /\ status[d] = "approved" /\ s = "published"
         \/ t = "superseded" /\ status[d] = "approved" /\ s = "published"
         \/ t = "obsoleted" /\ status[d] \in {"published", "superseded"} /\ s = "obsolete"
  PROVE  (d \notin LegacyDocs => Balanced(d)') /\ ReleasedAtMostOnce(d)'
<1> DEFINE n(u) == events[d][u]
<1>1. n("submitted") \in Nat /\ n("cancelled") \in Nat /\ n("published") \in Nat
      /\ n("superseded") \in Nat /\ n("obsoleted") \in Nat
  BY EventCounts DEF ReviewInv, EventTypes
<1>2. /\ events'[d][t] = n(t) + 1
      /\ \A u \in EventTypes \ {t} : events'[d][u] = n(u)
  BY DEF Counts
<1>3. d \notin LegacyDocs =>
        n("submitted") = n("cancelled") + (IF status[d] = "draft" THEN 0 ELSE 1)
  BY DEF AuditInv, Balanced
<1>4. /\ n("published") + n("superseded") <= 1
      /\ status[d] \in {"draft", "under_review", "approved"} =>
           n("published") + n("superseded") = 0
  BY DEF AuditInv, ReleasedAtMostOnce, Releases
<1>5. d \notin LegacyDocs =>
        events'[d]["submitted"] =
          events'[d]["cancelled"] + (IF s = "draft" THEN 0 ELSE 1)
  BY <1>1, <1>2, <1>3 DEF EventTypes
<1>6. /\ events'[d]["published"] + events'[d]["superseded"] <= 1
      /\ s \in {"draft", "under_review", "approved"} =>
           events'[d]["published"] + events'[d]["superseded"] = 0
  <2>1. CASE t \notin {"published", "superseded"}
    <3>1. /\ events'[d]["published"] = n("published")
          /\ events'[d]["superseded"] = n("superseded")
      BY <1>2, <2>1 DEF EventTypes
    <3>2. s \in {"draft", "under_review", "approved"} =>
            status[d] \in {"draft", "under_review", "approved"}
      BY <2>1
    <3> QED BY <1>4, <3>1, <3>2
  <2>2. CASE t \in {"published", "superseded"}
    <3>1. s = "published" /\ n("published") + n("superseded") = 0
      BY <1>4, <2>2
    <3>2. events'[d]["published"] + events'[d]["superseded"] = 1
      BY <1>1, <1>2, <2>2, <3>1 DEF EventTypes
    <3> QED BY <3>1, <3>2
  <2> QED BY <2>1, <2>2
<1> QED BY <1>5, <1>6 DEF Balanced, ReleasedAtMostOnce, Releases

LEMMA RowsKept ==
  ASSUME AuditInv, UNCHANGED <<signoffs, recorded>>
  PROVE  RowsCounted'
BY DEF AuditInv, RowsCounted, RowsOf

(* The commit of a signoff adds a row and counts it. *)
LEMMA RowAdded ==
  ASSUME ReviewInv, AuditInv, NEW q \in Reqs, req[q].phase = "inserted", RecordRow(q)
  PROVE  RowsCounted'
<1>0. PICK row \in Signoff : row = req[q].row
  BY RequestInstance DEF ReviewInv
<1>1. PICK i \in Insts : i = row.inst
  BY <1>0, SignoffFields
<1>2. signoffs' = signoffs \cup {row} /\ recorded' = [recorded EXCEPT ![i] = @ + 1]
  BY <1>0, <1>1 DEF RecordRow
<1>3. row \notin signoffs
  BY <1>0 DEF ReviewInv, InsertedOK, AlreadySigned
<1>4. IsFiniteSet(signoffs) /\ \A j \in Insts : recorded[j] = Cardinality(RowsOf(j))
  BY DEF AuditInv, RowsCounted
<1>5. IsFiniteSet(signoffs')
  BY <1>2, <1>4, FS_AddElement
<1>6. RowsOf(i)' = RowsOf(i) \cup {row} /\ row \notin RowsOf(i)
  <2>1. {t \in signoffs \cup {row} : t.inst = i} = {t \in signoffs : t.inst = i} \cup {row}
    BY <1>1
  <2> QED BY <1>2, <1>3, <2>1 DEF RowsOf
<1>7. IsFiniteSet(RowsOf(i))
  BY <1>4, FS_Subset DEF RowsOf
<1>8. Cardinality(RowsOf(i)') = Cardinality(RowsOf(i)) + 1
  BY <1>6, <1>7, FS_AddElement
<1>9. \A j \in Insts \ {i} : RowsOf(j)' = RowsOf(j)
  BY <1>1, <1>2 DEF RowsOf
<1>10. /\ recorded'[i] = recorded[i] + 1
       /\ \A j \in Insts \ {i} : recorded'[j] = recorded[j]
  BY <1>1, <1>2 DEF ReviewInv, TypeOK
<1>11. ASSUME NEW j \in Insts PROVE recorded'[j] = Cardinality(RowsOf(j)')
  <2>1. CASE j = i
    BY <1>1, <1>4, <1>8, <1>10, <2>1
  <2>2. CASE j # i
    BY <1>4, <1>9, <1>10, <2>2
  <2> QED BY <2>1, <2>2
<1> QED BY <1>5, <1>11 DEF RowsCounted

LEMMA AuditStep ==
  ASSUME ReviewInv, AuditInv, [Next]_vars
  PROVE  AuditInv'
<1>1. AnyKind
  BY StepKinds
<1> DEFINE Others(D) ==
      \A e \in Docs \ D : (e \notin LegacyDocs => Balanced(e)') /\ ReleasedAtMostOnce(e)'
<1>2. ASSUME NEW D, \A e \in Docs \ D : events'[e] = events[e] /\ status'[e] = status[e]
      PROVE  Others(D)
  BY <1>2, SameEvents DEF AuditInv
<1>3. ASSUME NEW d \in Docs, NEW s, NEW t \in EventTypes, Moves(d, s), Counts(d, t),
             UNCHANGED <<signoffs, recorded>>,
             \/ t = "submitted" /\ status[d] = "draft" /\ s = "under_review"
             \/ t = "cancelled" /\ status[d] = "under_review" /\ s = "draft"
             \/ t = "published" /\ status[d] = "approved" /\ s = "published"
             \/ /\ t = "obsoleted" /\ status[d] \in {"published", "superseded"}
                /\ s = "obsolete"
      PROVE  AuditInv'
  <2>1. (d \notin LegacyDocs => Balanced(d)') /\ ReleasedAtMostOnce(d)'
    BY <1>3, MovedAudit DEF Moves
  <2>2. Others({d})
    BY <1>2, <1>3 DEF Moves, Counts
  <2> QED BY <1>3, <2>1, <2>2, RowsKept DEF AuditInv
<1>4. CASE Quiet
  <2>1. Others({})
    BY <1>2, <1>4 DEF Quiet
  <2> QED BY <1>4, <2>1, RowsKept DEF AuditInv, Quiet
<1>5. ASSUME NEW d \in Docs, NEW r \in Routes, NEW i \in Insts, Submitted(d, r, i)
      PROVE  AuditInv'
  BY <1>3, <1>5 DEF Submitted, EventTypes
<1>6. ASSUME NEW i \in Insts, NEW d \in Docs, Cancelled(i, d) PROVE AuditInv'
  <2>1. status[d] = "under_review"
    BY <1>6 DEF Cancelled, ReviewInv, OneReview
  <2> QED BY <1>3, <1>6, <2>1 DEF Cancelled, EventTypes
<1>7. ASSUME NEW d \in Docs, Published(d) \/ Obsoleted(d) PROVE AuditInv'
  BY <1>3, <1>7 DEF Published, Obsoleted, OnlyDocuments, EventTypes
<1>8. ASSUME NEW new \in Docs, NEW prior \in Docs, Superseded(new, prior)
      PROVE  AuditInv'
  <2>1. /\ status[new] = "approved" /\ status'[new] = "published"
        /\ status[prior] = "published" /\ status'[prior] = "superseded"
        /\ \A e \in Docs \ {new, prior} : status'[e] = status[e]
        /\ Counts(new, "superseded") /\ UNCHANGED <<signoffs, recorded>>
    BY <1>8 DEF Superseded, OnlyDocuments
  <2>2. (new \notin LegacyDocs => Balanced(new)') /\ ReleasedAtMostOnce(new)'
    BY <2>1, MovedAudit DEF EventTypes
  <2>3. new # prior /\ events'[prior] = events[prior]
    BY <2>1 DEF Counts
  <2>4. (prior \notin LegacyDocs => Balanced(prior)') /\ ReleasedAtMostOnce(prior)'
    BY <2>1, <2>3 DEF AuditInv, Balanced, ReleasedAtMostOnce, Releases
  <2>5. Others({new, prior})
    BY <1>2, <2>1 DEF Counts
  <2> QED BY <2>1, <2>2, <2>4, <2>5, RowsKept DEF AuditInv
<1>9. ASSUME NEW q \in Reqs, NEW i \in Insts, NEW d \in Docs, NEW k \in Nat,
             NEW s \in {"in_progress", "approved", "rejected"}, Signed(q, i, d, k, s)
      PROVE  AuditInv'
  <2>1. req[q].phase = "inserted" /\ RecordRow(q) /\ events' = events
    BY <1>9 DEF Signed
  <2>2. RowsCounted'
    BY <2>1, RowAdded
  <2>3. status[d] = "under_review"
    <3>1. inst[i].status = "in_progress" /\ inst[i].doc = d
      BY <1>9 DEF Signed
    <3> QED BY <3>1 DEF ReviewInv, OneReview
  <2>4. /\ status'[d] \in {"under_review", "approved"}
        /\ \A e \in Docs \ {d} : status'[e] = status[e]
    BY <1>9, <2>3 DEF Signed, Moves
  <2>5. (d \notin LegacyDocs => Balanced(d)') /\ ReleasedAtMostOnce(d)'
    BY <2>1, <2>3, <2>4 DEF AuditInv, Balanced, ReleasedAtMostOnce, Releases
  <2>6. Others({d})
    BY <1>2, <2>1, <2>4
  <2> QED BY <2>2, <2>5, <2>6 DEF AuditInv
<1> QED BY <1>1, <1>4, <1>5, <1>6, <1>7, <1>8, <1>9 DEF AnyKind

(* The events of a document and of an instance count exactly what happened   *)
(* to it: submissions against cancellations, one release at most, one event  *)
(* per committed signoff.                                                    *)
THEOREM AuditTrailHolds == Spec => []AuditTrail
<1>1. Init => AuditInv
  <2> SUFFICES ASSUME Init PROVE AuditInv
    OBVIOUS
  <2>1. \A d \in Docs : \A t \in EventTypes : events[d][t] = 0
    BY DEF Init
  <2>2. \A d \in Docs : ReleasedAtMostOnce(d)
    BY <2>1 DEF ReleasedAtMostOnce, Releases, EventTypes
  <2>3. \A d \in Docs \ LegacyDocs : Balanced(d)
    BY <2>1 DEF Init, Balanced, EventTypes
  <2>4. RowsCounted
    BY FS_EmptySet DEF Init, RowsCounted, RowsOf
  <2> QED BY <2>2, <2>3, <2>4 DEF AuditInv
<1>2. ReviewInv /\ AuditInv /\ [Next]_vars => AuditInv'
  BY AuditStep
<1>3. AuditInv => AuditTrail
  BY DEF AuditInv, AuditTrail, Balanced, ReleasedAtMostOnce, Releases, RowsCounted, RowsOf
<1> QED BY <1>1, <1>2, <1>3, ReviewInvariance, PTL DEF Spec

-----------------------------------------------------------------------------
(* The workflow implements module Review.  The refinement mapping, as a      *)
(* function of the instances I and the signoffs S of a state:                *)

LiveIn(I, d) == {i \in Insts : I[i].status \notin {"none", "cancelled"} /\ I[i].doc = d}
OpenIn(I, d) == {i \in LiveIn(I, d) : I[i].status = "in_progress"}
PhaseIn(s, I, d) ==
  IF s # "under_review" THEN s ELSE IF OpenIn(I, d) # {} THEN "review" ELSE "rejected"
Unsigned(x) == {k \in DOMAIN x.stage : x.stage[k] # "completed"}
LeftIn(I, d) == UNION {Unsigned(I[i]) : i \in OpenIn(I, d)}
AuthorIn(I, d) == {I[i].by : i \in LiveIn(I, d)}
SignersIn(I, S, d) == {s.actor : s \in {t \in S : t.inst \in LiveIn(I, d)}}

LEMMA Bars ==
  /\ phaseBar = [d \in Docs |-> PhaseIn(status[d], inst, d)]
  /\ leftBar = [d \in Docs |-> LeftIn(inst, d)]
  /\ authorBar = [d \in Docs |-> AuthorIn(inst, d)]
  /\ signersBar = [d \in Docs |-> SignersIn(inst, signoffs, d)]
  /\ phaseBar' = [d \in Docs |-> PhaseIn(status'[d], inst', d)]
  /\ leftBar' = [d \in Docs |-> LeftIn(inst', d)]
  /\ authorBar' = [d \in Docs |-> AuthorIn(inst', d)]
  /\ signersBar' = [d \in Docs |-> SignersIn(inst', signoffs', d)]
BY DEF phaseBar, leftBar, authorBar, signersBar, Reviews, OpenReviews, LiveIn, OpenIn,
       PhaseIn, Unsigned, LeftIn, AuthorIn, SignersIn

(* A document none of whose reviews changes looks the same. *)
LEMMA SameReviews ==
  ASSUME NEW I, NEW J, NEW S, NEW T, NEW d,
         \A j \in Insts : J[j] = I[j] \/ (j \notin LiveIn(I, d) /\ j \notin LiveIn(J, d)),
         \A t : t.inst \in LiveIn(I, d) => (t \in S <=> t \in T)
  PROVE  /\ OpenIn(J, d) = OpenIn(I, d) /\ LeftIn(J, d) = LeftIn(I, d)
         /\ AuthorIn(J, d) = AuthorIn(I, d) /\ SignersIn(J, T, d) = SignersIn(I, S, d)
<1>1. LiveIn(J, d) = LiveIn(I, d) /\ \A j \in LiveIn(I, d) : j \in Insts
  BY DEF LiveIn
<1>2. \A j \in LiveIn(I, d) : J[j] = I[j]
  BY <1>1
<1>3. OpenIn(J, d) = OpenIn(I, d)
  BY <1>1, <1>2 DEF OpenIn
<1>4. \A j \in OpenIn(I, d) : Unsigned(J[j]) = Unsigned(I[j])
  BY <1>2 DEF OpenIn
<1>5. LeftIn(J, d) = LeftIn(I, d)
  BY <1>3, <1>4 DEF LeftIn
<1>6. AuthorIn(J, d) = AuthorIn(I, d)
  BY <1>1, <1>2 DEF AuthorIn
<1>7. {t \in T : t.inst \in LiveIn(J, d)} = {t \in S : t.inst \in LiveIn(I, d)}
  BY <1>1
<1>8. SignersIn(J, T, d) = SignersIn(I, S, d)
  BY <1>7 DEF SignersIn
<1> QED BY <1>3, <1>5, <1>6, <1>8

(* A document with one review, and one with none. *)
OneLiveView(I, d, i) ==
  /\ AuthorIn(I, d) = {I[i].by}
  /\ I[i].status = "in_progress" => OpenIn(I, d) # {} /\ LeftIn(I, d) = Unsigned(I[i])
  /\ I[i].status # "in_progress" => OpenIn(I, d) = {} /\ LeftIn(I, d) = {}

LEMMA OneLiveReview ==
  ASSUME NEW I, NEW d, NEW i \in Insts, LiveIn(I, d) = {i}
  PROVE  OneLiveView(I, d, i)
<1>1. I[i].status = "in_progress" => OpenIn(I, d) = {i}
  BY DEF OpenIn
<1>2. I[i].status # "in_progress" => OpenIn(I, d) = {}
  BY DEF OpenIn
<1>3. AuthorIn(I, d) = {I[i].by}
  BY DEF AuthorIn
<1>4. OpenIn(I, d) = {i} => LeftIn(I, d) = Unsigned(I[i])
  BY DEF LeftIn
<1>5. OpenIn(I, d) = {} => LeftIn(I, d) = {}
  BY DEF LeftIn
<1> QED BY <1>1, <1>2, <1>3, <1>4, <1>5 DEF OneLiveView

SignedBy(S, i) == {s.actor : s \in {t \in S : t.inst = i}}

LEMMA OneLiveSigners ==
  ASSUME NEW I, NEW S, NEW d, NEW i, LiveIn(I, d) = {i}
  PROVE  SignersIn(I, S, d) = SignedBy(S, i)
<1>1. {t \in S : t.inst \in LiveIn(I, d)} = {t \in S : t.inst = i}
  OBVIOUS
<1> QED BY <1>1 DEF SignersIn, SignedBy

LEMMA NoLiveReview ==
  ASSUME NEW I, NEW S, NEW d, LiveIn(I, d) = {}
  PROVE  /\ OpenIn(I, d) = {} /\ LeftIn(I, d) = {}
         /\ AuthorIn(I, d) = {} /\ SignersIn(I, S, d) = {}
<1>1. OpenIn(I, d) = {} /\ AuthorIn(I, d) = {} /\ SignersIn(I, S, d) = {}
  BY DEF OpenIn, AuthorIn, SignersIn
<1> QED BY <1>1 DEF LeftIn

(* The review of a document that has a live one. *)
LEMMA TheReview ==
  ASSUME TypeOK, LiveOK, NEW i \in Insts, Live(i)
  PROVE  LiveIn(inst, inst[i].doc) = {i}
<1>1. \A j \in Insts : inst[j].status \in InstStates \cup {"none"}
  BY InstanceFields, NoInstStatus DEF TypeOK
<1> QED BY <1>1 DEF LiveIn, LiveOK, Live, InstStates

LEMMA NoReview ==
  ASSUME TypeOK, LiveOK, NEW d \in Docs, status[d] = "draft"
  PROVE  LiveIn(inst, d) = {}
<1>1. \A j \in Insts : inst[j].status \in InstStates \cup {"none"}
  BY InstanceFields, NoInstStatus DEF TypeOK
<1> QED BY <1>1 DEF LiveIn, LiveOK, Live, InstStates

(* Document e looks the same before and after a step. *)
SameAt(e) ==
  /\ PhaseIn(status'[e], inst', e) = PhaseIn(status[e], inst, e)
  /\ LeftIn(inst', e) = LeftIn(inst, e) /\ AuthorIn(inst', e) = AuthorIn(inst, e)
  /\ SignersIn(inst', signoffs', e) = SignersIn(inst, signoffs, e)

(* The mapped state changes at d only. *)
LEMMA BarsMove ==
  ASSUME NEW d \in Docs, \A e \in Docs \ {d} : SameAt(e)
  PROVE  /\ phaseBar' = [phaseBar EXCEPT ![d] = PhaseIn(status'[d], inst', d)]
         /\ leftBar' = [leftBar EXCEPT ![d] = LeftIn(inst', d)]
         /\ authorBar' = [authorBar EXCEPT ![d] = AuthorIn(inst', d)]
         /\ signersBar' = [signersBar EXCEPT ![d] = SignersIn(inst', signoffs', d)]
<1>1. phaseBar' = [phaseBar EXCEPT ![d] = PhaseIn(status'[d], inst', d)]
  BY Bars DEF SameAt
<1>2. leftBar' = [leftBar EXCEPT ![d] = LeftIn(inst', d)]
  BY Bars DEF SameAt
<1>3. authorBar' = [authorBar EXCEPT ![d] = AuthorIn(inst', d)]
  BY Bars DEF SameAt
<1>4. signersBar' = [signersBar EXCEPT ![d] = SignersIn(inst', signoffs', d)]
  BY Bars DEF SameAt
<1> QED BY <1>1, <1>2, <1>3, <1>4

LEMMA BarsAt ==
  ASSUME NEW d \in Docs
  PROVE  /\ phaseBar[d] = PhaseIn(status[d], inst, d) /\ leftBar[d] = LeftIn(inst, d)
         /\ authorBar[d] = AuthorIn(inst, d)
         /\ signersBar[d] = SignersIn(inst, signoffs, d)
BY Bars

(* A step that touches instance i, of document d, and its signoffs only. *)
LEMMA ElsewhereSame ==
  ASSUME NEW d \in Docs, NEW i \in Insts, OnlyInstance(i),
         \A e \in Docs \ {d} : i \notin LiveIn(inst, e) /\ i \notin LiveIn(inst', e),
         \A e \in Docs \ {d} : status'[e] = status[e],
         \A t : t.inst # i => (t \in signoffs <=> t \in signoffs')
  PROVE  \A e \in Docs \ {d} : SameAt(e)
<1> SUFFICES ASSUME NEW e \in Docs \ {d} PROVE SameAt(e)
  OBVIOUS
<1>1. \A j \in Insts :
        inst'[j] = inst[j] \/ (j \notin LiveIn(inst, e) /\ j \notin LiveIn(inst', e))
  BY DEF OnlyInstance
<1>2. \A t : t.inst \in LiveIn(inst, e) => (t \in signoffs <=> t \in signoffs')
  OBVIOUS
<1>3. /\ OpenIn(inst', e) = OpenIn(inst, e) /\ LeftIn(inst', e) = LeftIn(inst, e)
      /\ AuthorIn(inst', e) = AuthorIn(inst, e)
      /\ SignersIn(inst', signoffs', e) = SignersIn(inst, signoffs, e)
  BY <1>1, <1>2, SameReviews
<1> QED BY <1>3 DEF SameAt, PhaseIn

LEMMA SubmittedRefines ==
  ASSUME ReviewInv, ReviewInv', ChainInv, ChainInv', NEW d \in Docs, NEW r \in Routes,
         NEW i \in Insts, Submitted(d, r, i)
  PROVE  R!Submit(d)
<1>1. /\ inst[i] = NoInst /\ status[d] = "draft"
      /\ inst'[i].status = "in_progress" /\ inst'[i].doc = d /\ inst'[i].by \in Actors
      /\ DOMAIN inst'[i].stage = DOMAIN RouteStages[r] /\ 1 \in DOMAIN RouteStages[r]
      /\ \A k \in DOMAIN inst'[i].stage : inst'[i].stage[k] # "completed"
      /\ OnlyInstance(i) /\ status'[d] = "under_review" /\ signoffs' = signoffs
      /\ \A e \in Docs \ {d} : status'[e] = status[e]
  BY DEF Submitted, Moves
<1>2. inst[i].status = "none"
  BY <1>1, NoInstStatus
<1>3. \A e \in Docs \ {d} : SameAt(e)
  <2>1. \A e \in Docs \ {d} : i \notin LiveIn(inst, e) /\ i \notin LiveIn(inst', e)
    BY <1>1, <1>2 DEF LiveIn
  <2> QED BY <1>1, <2>1, ElsewhereSame
<1>4. LiveIn(inst, d) = {}
  BY <1>1, NoReview DEF ReviewInv, ChainInv
<1>5. LiveIn(inst', d) = {i}
  <2>1. \A j \in Insts \ {i} : j \notin LiveIn(inst', d)
    BY <1>1, <1>4 DEF LiveIn, OnlyInstance
  <2>2. i \in LiveIn(inst', d)
    BY <1>1 DEF LiveIn
  <2> QED BY <2>1, <2>2 DEF LiveIn
<1>6. SignersIn(inst', signoffs', d) = {}
  <2>1. \A t \in signoffs : t.inst # i
    BY <1>1 DEF ReviewInv, SignoffsOK
  <2>2. SignersIn(inst', signoffs', d) = SignedBy(signoffs, i)
    BY <1>1, <1>5, OneLiveSigners
  <2> QED BY <2>1, <2>2 DEF SignedBy
<1>7. PhaseIn(status'[d], inst', d) = "review" /\ AuthorIn(inst', d) = {inst'[i].by}
      /\ LeftIn(inst', d) = DOMAIN RouteStages[r]
  <2>1. /\ AuthorIn(inst', d) = {inst'[i].by} /\ OpenIn(inst', d) # {}
        /\ LeftIn(inst', d) = Unsigned(inst'[i])
    BY <1>1, <1>5, OneLiveReview DEF OneLiveView
  <2>2. Unsigned(inst'[i]) = DOMAIN RouteStages[r]
    BY <1>1 DEF Unsigned
  <2> QED BY <1>1, <2>1, <2>2 DEF PhaseIn
<1>8. PhaseIn(status[d], inst, d) = "draft" /\ SignersIn(inst, signoffs, d) = {}
  BY <1>1, <1>4, NoLiveReview DEF PhaseIn
<1>9. phaseBar[d] = "draft"
  BY <1>8, BarsAt
<1>10. phaseBar' = [phaseBar EXCEPT ![d] = "review"]
  BY <1>3, <1>7, BarsMove
<1>11. leftBar' = [leftBar EXCEPT ![d] = DOMAIN RouteStages[r]] /\ DOMAIN RouteStages[r] # {}
  BY <1>1, <1>3, <1>7, BarsMove
<1>12. authorBar' = [authorBar EXCEPT ![d] = {inst'[i].by}]
  BY <1>3, <1>7, BarsMove
<1>13. signersBar' = signersBar
  <2>1. signersBar' = [signersBar EXCEPT ![d] = {}]
    BY <1>3, <1>6, BarsMove
  <2>2. signersBar[d] = {} /\ signersBar = [e \in Docs |-> SignersIn(inst, signoffs, e)]
    BY <1>8, Bars, BarsAt
  <2> QED BY <2>1, <2>2
<1> QED BY <1>1, <1>9, <1>10, <1>11, <1>12, <1>13 DEF R!Submit

(* What every commit of a signoff does to its document's view: the actor,    *)
(* who had no part in it, becomes a signer.                                  *)
LEMMA SignedView ==
  ASSUME ReviewInv, ChainInv, NEW q \in Reqs, NEW i \in Insts, NEW d \in Docs,
         NEW k \in Nat, NEW s \in {"in_progress", "approved", "rejected"},
         Signed(q, i, d, k, s)
  PROVE  /\ \A e \in Docs \ {d} : SameAt(e)
         /\ LiveIn(inst, d) = {i} /\ LiveIn(inst', d) = {i}
         /\ phaseBar[d] = "review" /\ leftBar[d] = Unsigned(inst[i])
         /\ authorBar' = authorBar
         /\ \E a \in Actors : /\ R!MaySign(d, a)
                              /\ signersBar' = [signersBar EXCEPT ![d] = @ \cup {a}]
<1>1. /\ req[q].phase = "inserted" /\ i = req[q].row.inst
      /\ inst[i].status = "in_progress" /\ inst[i].doc = d
      /\ inst'[i].status = s /\ inst'[i].doc = d /\ inst'[i].by = inst[i].by
      /\ OnlyInstance(i) /\ signoffs' = signoffs \cup {req[q].row}
  BY DEF Signed, RecordRow
<1>2. \A e \in Docs \ {d} : status'[e] = status[e]
  BY DEF Signed, Moves
<1>3. TypeOK /\ LiveOK /\ Live(i) /\ status[d] = "under_review"
  BY <1>1 DEF ReviewInv, ChainInv, Live, OneReview
<1>4. LiveIn(inst, d) = {i}
  BY <1>1, <1>3, TheReview
<1>5. LiveIn(inst', d) = {i}
  <2>1. \A j \in Insts \ {i} : j \notin LiveIn(inst', d)
    BY <1>1, <1>4 DEF LiveIn, OnlyInstance
  <2>2. i \in LiveIn(inst', d)
    BY <1>1 DEF LiveIn
  <2> QED BY <2>1, <2>2 DEF LiveIn
<1>6. \A e \in Docs \ {d} : SameAt(e)
  <2>1. \A e \in Docs \ {d} : i \notin LiveIn(inst, e) /\ i \notin LiveIn(inst', e)
    BY <1>1 DEF LiveIn
  <2>2. \A t : t.inst # i => (t \in signoffs <=> t \in signoffs')
    BY <1>1
  <2> QED BY <1>1, <1>2, <2>1, <2>2, ElsewhereSame
<1>7. OneLiveView(inst, d, i) /\ OneLiveView(inst', d, i)
  BY <1>4, <1>5, OneLiveReview
<1>8. phaseBar[d] = "review" /\ leftBar[d] = Unsigned(inst[i]) /\ authorBar[d] = {inst[i].by}
  BY <1>1, <1>3, <1>7, BarsAt DEF OneLiveView, PhaseIn
<1>9. authorBar' = authorBar
  <2>1. authorBar' = [authorBar EXCEPT ![d] = AuthorIn(inst', d)]
    BY <1>6, BarsMove
  <2>2. AuthorIn(inst', d) = AuthorIn(inst, d)
    BY <1>1, <1>7 DEF OneLiveView
  <2>3. authorBar = [e \in Docs |-> AuthorIn(inst, e)]
    BY Bars
  <2> QED BY <2>1, <2>2, <2>3
<1>10. PICK row \in Signoff : row = req[q].row
  BY <1>1, RequestInstance DEF ReviewInv
<1>11. row.actor \in Actors /\ row.inst = i
  BY <1>1, <1>10, SignoffFields
<1>12. SignersIn(inst, signoffs, d) = SignedBy(signoffs, i)
  BY <1>4, OneLiveSigners
<1>13. SignersIn(inst', signoffs', d) = SignedBy(signoffs', i)
  BY <1>5, OneLiveSigners
<1>14. SignedBy(signoffs', i) = SignedBy(signoffs, i) \cup {row.actor}
  <2>1. {t \in signoffs \cup {row} : t.inst = i} = {t \in signoffs : t.inst = i} \cup {row}
    BY <1>11
  <2>2. {t \in signoffs' : t.inst = i} = {t \in signoffs : t.inst = i} \cup {row}
    BY <1>1, <1>10, <2>1
  <2> QED BY <2>2 DEF SignedBy
<1>15. signersBar[d] = SignedBy(signoffs, i)
  BY <1>12, BarsAt
<1>16. signersBar' = [signersBar EXCEPT ![d] = @ \cup {row.actor}]
  <2>1. signersBar' = [signersBar EXCEPT ![d] = SignersIn(inst', signoffs', d)]
    BY <1>6, BarsMove
  <2> QED BY <1>13, <1>14, <1>15, <2>1
<1>17. R!MaySign(d, row.actor)
  <2>1. row.actor # inst[i].by
    BY <1>1, <1>10 DEF ReviewInv, RequestOK
  <2>2. row.actor # CreatedBy[d] /\ ~AlreadySigned(row)
    BY <1>1, <1>10 DEF ReviewInv, InsertedOK
  <2>3. row.actor \notin SignedBy(signoffs, i)
    BY <1>11, <2>2 DEF SignedBy, AlreadySigned
  <2> QED BY <1>8, <1>15, <2>1, <2>2, <2>3 DEF R!MaySign
<1> QED BY <1>4, <1>5, <1>6, <1>8, <1>9, <1>11, <1>16, <1>17

(* The commit of an approval signs the lowest stage that was left. *)
LEMMA SignedRefines ==
  ASSUME ReviewInv, ChainInv, NEW q \in Reqs, NEW i \in Insts, NEW d \in Docs,
         NEW k \in Nat, NEW s \in {"in_progress", "approved", "rejected"},
         Signed(q, i, d, k, s)
  PROVE  R!Sign(d) \/ R!Reject(d)
<1>1. /\ \A e \in Docs \ {d} : SameAt(e)
      /\ LiveIn(inst', d) = {i}
      /\ phaseBar[d] = "review" /\ leftBar[d] = Unsigned(inst[i])
      /\ authorBar' = authorBar
      /\ \E a \in Actors : /\ R!MaySign(d, a)
                           /\ signersBar' = [signersBar EXCEPT ![d] = @ \cup {a}]
  BY SignedView
<1>2. OneLiveView(inst', d, i)
  BY <1>1, OneLiveReview
<1>3. /\ phaseBar' = [phaseBar EXCEPT ![d] = PhaseIn(status'[d], inst', d)]
      /\ leftBar' = [leftBar EXCEPT ![d] = LeftIn(inst', d)]
  BY <1>1, BarsMove
<1>4. /\ inst[i].status = "in_progress" /\ inst[i].doc = d /\ inst'[i].status = s
      /\ StoppedAt(inst[i].stage, k, "active")
      /\ DOMAIN inst'[i].stage = DOMAIN inst[i].stage
      /\ req[q].phase = "inserted" /\ i = req[q].row.inst /\ k = req[q].row.stage
  BY DEF Signed
<1>5. status[d] = "under_review"
  BY <1>4 DEF ReviewInv, OneReview
<1>6. /\ inst[i] \in Instance /\ k \in DOMAIN inst[i].stage
  BY <1>4, RequestInstance DEF ReviewInv
<1>7. /\ Len(inst[i].stage) \in Nat /\ DOMAIN inst[i].stage = 1..Len(inst[i].stage)
  BY <1>6, InstanceFields, StageDomain
<1>8. k \in Unsigned(inst[i]) /\ \A j \in Unsigned(inst[i]) : j \in Nat /\ k <= j
  <2>1. inst[i].stage[k] # "completed"
    BY <1>4 DEF StoppedAt
  <2>2. ASSUME NEW j \in DOMAIN inst[i].stage, inst[i].stage[j] # "completed"
        PROVE  j \in Nat /\ k <= j
    <3>1. ~(j < k)
      BY <1>4, <2>2 DEF StoppedAt
    <3>2. j \in Nat
      BY <1>7
    <3> QED BY <3>1, <3>2
  <2> QED BY <1>6, <2>1, <2>2 DEF Unsigned
<1>9. CASE s = "in_progress"
  <2>1. /\ k + 1 \in DOMAIN inst[i].stage
        /\ \A j \in DOMAIN inst[i].stage :
             inst'[i].stage[j] = "completed" <=> inst[i].stage[j] = "completed" \/ j = k
        /\ status' = status
    BY <1>9 DEF Signed
  <2>2. Unsigned(inst'[i]) = Unsigned(inst[i]) \ {k}
    BY <1>4, <2>1 DEF Unsigned
  <2>3. k + 1 \in Unsigned(inst[i]) /\ k + 1 # k
    <3>1. k + 1 > k
      OBVIOUS
    <3>2. inst[i].stage[k + 1] = "pending"
      BY <1>4, <2>1, <3>1 DEF StoppedAt
    <3> QED BY <2>1, <3>1, <3>2 DEF Unsigned
  <2>4. OpenIn(inst', d) # {} /\ LeftIn(inst', d) = Unsigned(inst[i]) \ {k}
    BY <1>2, <1>4, <1>9, <2>2 DEF OneLiveView
  <2>5. PhaseIn(status'[d], inst', d) = "review"
    BY <1>5, <2>1, <2>4 DEF PhaseIn
  <2>6. Unsigned(inst[i]) # {k}
    BY <2>3
  <2>7. /\ leftBar' = [leftBar EXCEPT ![d] = @ \ {k}]
        /\ phaseBar' = [phaseBar EXCEPT ![d] =
                          IF leftBar[d] = {k} THEN "approved" ELSE "review"]
    BY <1>1, <1>3, <2>4, <2>5, <2>6
  <2>8. k \in leftBar[d] /\ \A j \in leftBar[d] : k <= j
    BY <1>1, <1>8
  <2> QED BY <1>1, <2>7, <2>8 DEF R!Sign
<1>10. CASE s = "approved"
  <2>1. k = Len(inst[i].stage) /\ status'[d] = "approved"
    BY <1>10 DEF Signed, Moves
  <2>2. Unsigned(inst[i]) = {k}
    <3>1. \A j \in Unsigned(inst[i]) : j = k
      BY <1>7, <1>8, <2>1 DEF Unsigned
    <3> QED BY <1>8, <3>1
  <2>3. LeftIn(inst', d) = {}
    BY <1>2, <1>4, <1>10 DEF OneLiveView
  <2>4. PhaseIn(status'[d], inst', d) = "approved"
    BY <2>1 DEF PhaseIn
  <2>5. LeftIn(inst', d) = leftBar[d] \ {k} /\ leftBar[d] = {k}
    BY <1>1, <2>2, <2>3
  <2>6. /\ leftBar' = [leftBar EXCEPT ![d] = @ \ {k}]
        /\ phaseBar' = [phaseBar EXCEPT ![d] =
                          IF leftBar[d] = {k} THEN "approved" ELSE "review"]
    BY <1>3, <2>4, <2>5
  <2>7. k \in leftBar[d] /\ \A j \in leftBar[d] : k <= j
    BY <1>1, <1>8
  <2> QED BY <1>1, <2>6, <2>7 DEF R!Sign
<1>11. CASE s = "rejected"
  <2>1. status' = status
    BY <1>11 DEF Signed
  <2>2. OpenIn(inst', d) = {} /\ LeftIn(inst', d) = {}
    BY <1>2, <1>4, <1>11 DEF OneLiveView
  <2>3. PhaseIn(status'[d], inst', d) = "rejected"
    BY <1>5, <2>1, <2>2 DEF PhaseIn
  <2> QED BY <1>1, <1>3, <2>2, <2>3 DEF R!Reject
<1> QED BY <1>9, <1>10, <1>11

LEMMA CancelledRefines ==
  ASSUME ReviewInv, ChainInv, NEW i \in Insts, NEW d \in Docs, Cancelled(i, d)
  PROVE  R!Cancel(d)
<1>1. /\ inst[i].status = "in_progress" /\ inst[i].doc = d
      /\ inst'[i].status = "cancelled" /\ OnlyInstance(i)
      /\ status'[d] = "draft" /\ \A e \in Docs \ {d} : status'[e] = status[e]
      /\ signoffs' = signoffs
  BY DEF Cancelled, Moves
<1>2. TypeOK /\ LiveOK /\ Live(i) /\ status[d] = "under_review"
  BY <1>1 DEF ReviewInv, ChainInv, Live, OneReview
<1>3. LiveIn(inst, d) = {i}
  BY <1>1, <1>2, TheReview
<1>4. LiveIn(inst', d) = {}
  <2>1. \A j \in Insts \ {i} : j \notin LiveIn(inst', d)
    BY <1>1, <1>3 DEF LiveIn, OnlyInstance
  <2>2. i \notin LiveIn(inst', d)
    BY <1>1 DEF LiveIn
  <2> QED BY <2>1, <2>2 DEF LiveIn
<1>5. \A e \in Docs \ {d} : SameAt(e)
  <2>1. \A e \in Docs \ {d} : i \notin LiveIn(inst, e) /\ i \notin LiveIn(inst', e)
    BY <1>1 DEF LiveIn
  <2>2. \A t : t.inst # i => (t \in signoffs <=> t \in signoffs')
    BY <1>1
  <2> QED BY <1>1, <2>1, <2>2, ElsewhereSame
<1>6. OneLiveView(inst, d, i)
  BY <1>3, OneLiveReview
<1>7. phaseBar[d] = "review"
  BY <1>1, <1>2, <1>6, BarsAt DEF OneLiveView, PhaseIn
<1>8. /\ PhaseIn(status'[d], inst', d) = "draft" /\ LeftIn(inst', d) = {}
      /\ AuthorIn(inst', d) = {} /\ SignersIn(inst', signoffs', d) = {}
  BY <1>1, <1>4, NoLiveReview DEF PhaseIn
<1> QED BY <1>5, <1>7, <1>8, BarsMove DEF R!Cancel

(* Only documents move: their reviews look the same. *)
LEMMA DocumentsView ==
  ASSUME UNCHANGED <<inst, signoffs>>
  PROVE  UNCHANGED <<leftBar, authorBar, signersBar>>
BY Bars

(* A document that is not under review has its status as its phase. *)
LEMMA StatusPhase ==
  ASSUME NEW d \in Docs
  PROVE  /\ status[d] # "under_review" => phaseBar[d] = status[d]
         /\ status'[d] # "under_review" => phaseBar'[d] = status'[d]
         /\ inst' = inst /\ status'[d] = status[d] => phaseBar'[d] = phaseBar[d]
BY Bars DEF PhaseIn

LEMMA DocumentsRefine ==
  ASSUME NEW d \in Docs, Published(d) \/ Obsoleted(d)
  PROVE  R!Publish(d) \/ R!Obsolete(d)
<1>1. inst' = inst /\ UNCHANGED <<leftBar, authorBar, signersBar>>
  BY DocumentsView DEF Published, Obsoleted, OnlyDocuments
<1>2. \A e \in Docs \ {d} : phaseBar'[e] = phaseBar[e]
  BY <1>1, StatusPhase DEF Published, Obsoleted, Moves
<1>3. /\ phaseBar = [e \in Docs |-> phaseBar[e]]
      /\ phaseBar' = [e \in Docs |-> phaseBar'[e]]
  BY Bars
<1>4. CASE Published(d)
  <2>1. phaseBar[d] = "approved" /\ phaseBar'[d] = "published"
    BY <1>4, StatusPhase DEF Published, Moves
  <2>2. phaseBar' = [phaseBar EXCEPT ![d] = "published"]
    BY <1>2, <1>3, <2>1
  <2> QED BY <1>1, <2>1, <2>2 DEF R!Publish
<1>5. CASE Obsoleted(d)
  <2>1. phaseBar[d] \in {"published", "superseded"} /\ phaseBar'[d] = "obsolete"
    BY <1>5, StatusPhase DEF Obsoleted, Moves
  <2>2. phaseBar' = [phaseBar EXCEPT ![d] = "obsolete"]
    BY <1>2, <1>3, <2>1
  <2> QED BY <1>1, <2>1, <2>2 DEF R!Obsolete
<1> QED BY <1>4, <1>5

LEMMA SupersededRefines ==
  ASSUME NEW new \in Docs, NEW prior \in Docs, Superseded(new, prior)
  PROVE  R!Supersede(new, prior)
<1>1. inst' = inst /\ UNCHANGED <<leftBar, authorBar, signersBar>>
  BY DocumentsView DEF Superseded, OnlyDocuments
<1>2. \A e \in Docs \ {new, prior} : phaseBar'[e] = phaseBar[e]
  BY <1>1, StatusPhase DEF Superseded
<1>3. /\ phaseBar = [e \in Docs |-> phaseBar[e]]
      /\ phaseBar' = [e \in Docs |-> phaseBar'[e]]
  BY Bars
<1>4. /\ phaseBar[new] = "approved" /\ phaseBar[prior] = "published"
      /\ phaseBar'[new] = "published" /\ phaseBar'[prior] = "superseded"
  BY StatusPhase DEF Superseded
<1>5. phaseBar' = [phaseBar EXCEPT ![new] = "published", ![prior] = "superseded"]
  BY <1>2, <1>3, <1>4
<1> QED BY <1>1, <1>4, <1>5 DEF R!Supersede

(* The approval workflow implements module Review: each commit is one of its *)
(* steps, and loads, inserts, replays, aborts and dispatches cannot be seen. *)
THEOREM ImplementsReviewHolds == Spec => ImplementsReview
<1>1. Init => R!Init
  <2> SUFFICES ASSUME Init PROVE R!Init
    OBVIOUS
  <2>1. \A i \in Insts : inst[i].status = "none"
    BY NoInstStatus DEF Init
  <2>2. \A d \in Docs : LiveIn(inst, d) = {}
    BY <2>1 DEF LiveIn
  <2>3. /\ phaseBar = [d \in Docs |-> PhaseIn(status[d], inst, d)]
        /\ leftBar = [d \in Docs |-> {}] /\ authorBar = [d \in Docs |-> {}]
        /\ signersBar = [d \in Docs |-> {}]
    BY <2>2, Bars, NoLiveReview
  <2>4. phaseBar = [d \in Docs |-> IF d \in LegacyDocs THEN "published" ELSE "draft"]
    BY <2>3 DEF PhaseIn, Init
  <2> QED BY <2>3, <2>4 DEF R!Init
<1>2. ReviewInv /\ ReviewInv' /\ ChainInv /\ ChainInv' /\ [Next]_vars => [R!Next]_(R!vars)
  <2> SUFFICES ASSUME ReviewInv, ReviewInv', ChainInv, ChainInv', [Next]_vars
               PROVE  R!Next \/ UNCHANGED <<phaseBar, leftBar, authorBar, signersBar>>
    BY DEF R!vars
  <2>1. AnyKind
    BY StepKinds
  <2>2. CASE Quiet
    <3>1. UNCHANGED <<leftBar, authorBar, signersBar>>
      BY <2>2, DocumentsView DEF Quiet
    <3>2. phaseBar' = phaseBar
      BY <2>2, Bars DEF Quiet
    <3> QED BY <3>1, <3>2
  <2>3. ASSUME NEW d \in Docs, NEW r \in Routes, NEW i \in Insts, Submitted(d, r, i)
        PROVE  R!Next
    BY <2>3, SubmittedRefines DEF R!Next
  <2>4. ASSUME NEW q \in Reqs, NEW i \in Insts, NEW d \in Docs, NEW k \in Nat,
               NEW s \in {"in_progress", "approved", "rejected"}, Signed(q, i, d, k, s)
        PROVE  R!Next
    BY <2>4, SignedRefines DEF R!Next
  <2>5. ASSUME NEW i \in Insts, NEW d \in Docs, Cancelled(i, d) PROVE R!Next
    BY <2>5, CancelledRefines DEF R!Next
  <2>6. ASSUME NEW d \in Docs, Published(d) \/ Obsoleted(d) PROVE R!Next
    BY <2>6, DocumentsRefine DEF R!Next
  <2>7. ASSUME NEW new \in Docs, NEW prior \in Docs, Superseded(new, prior)
        PROVE  R!Next
    BY <2>7, SupersededRefines DEF R!Next
  <2> QED BY <2>1, <2>2, <2>3, <2>4, <2>5, <2>6, <2>7 DEF AnyKind
<1> QED BY <1>1, <1>2, ReviewInvariance, ChainInvariance, PTL
        DEF Spec, ImplementsReview, R!Spec
=============================================================================
