------------------------------- MODULE Approval -------------------------------
(***************************************************************************)
(* The approval workflow of documents_v2: documents, their approval        *)
(* instances with stages, and signoffs, as the services of                 *)
(* internal/modules/documents_v2/approval/application change them in       *)
(* PostgreSQL.                                                             *)
(*                                                                         *)
(* Submit, cancel, publish, supersede and obsolete re-check every row they *)
(* write in the WHERE clause that writes it, so each is one step.          *)
(* RecordSignoff is not: it reads the instance without a lock, inserts its *)
(* signoff, reads the votes and decides, all at READ COMMITTED, so other   *)
(* transactions commit in between.  It is three steps of a request, with   *)
(* an abort possible before the commit and, after it, the PDF dispatch     *)
(* that a crash or an error may lose.                                      *)
(*                                                                         *)
(* Calls refused by authorization or by a failed guard change nothing and  *)
(* are the stuttering steps.  Scheduling is in module ScheduledPublish.    *)
(***************************************************************************)
EXTENDS ApprovalRules

CONSTANTS
  Docs,         \* documents of one tenant
  LegacyDocs,   \* those migration 0132 remapped from finalized to published
  Actors,       \* users
  CreatedBy,    \* [Docs -> Actors], documents.created_by
  Insts,        \* ids a submission may draw for its approval instance
  Routes,       \* approval routes
  RouteStages,  \* [Routes -> Seq(StageConfig)], approval_route_stages
  Forms,        \* form contents a client may send
  Reqs          \* concurrent RecordSignoff requests

ASSUME ConstantsAssumption ==
  /\ LegacyDocs \subseteq Docs
  /\ IsFiniteSet(Actors) /\ CreatedBy \in [Docs -> Actors]
  /\ RouteStages \in [Routes -> Seq(StageConfig)]

VARIABLES
  status,    \* documents.status
  rev,       \* documents.revision_version
  frozen,    \* documents.values_frozen_at is set
  inst,      \* approval_instances with their approval_stage_instances
  signoffs,  \* approval_signoffs, committed rows
  req,       \* the open RecordSignoff transactions
  pdf,       \* documents a docgen_v2_pdf event was published for
  events,    \* governance_events of a document, counted by type
  recorded   \* signoff_recorded events of an instance

vars == <<status, rev, frozen, inst, signoffs, req, pdf, events, recorded>>

Decisions == {"approve", "reject"}
InstStates == {"in_progress", "approved", "rejected", "cancelled"}
EventTypes == {"submitted", "cancelled", "published", "superseded", "obsoleted"}

(* ComputeContentHash is injective on what it hashes: the hash is its input. *)
ContentHash(id, n, form) == [id |-> id, rev |-> n, form |-> form]

Instance ==
  [status : InstStates, doc : Docs, route : Routes, by : Actors,
   hash : [id : Docs, rev : Nat, form : Forms], stage : Seq(StageStates)]
NoInst == [status |-> "none"]

Signoff ==
  [inst : Insts, stage : Nat, actor : Actors, decision : Decisions,
   hash : [id : Insts, rev : {0}, form : Forms]]

Idle == [phase |-> "idle"]
Request ==
  [phase : {"loaded"}, row : Signoff, seen : Seq(StageStates)]
    \cup [phase : {"inserted"}, row : Signoff, seen : Seq(StageStates),
          outcome : {"approved_stage", "rejected_stage", "pending"}]
    \cup [phase : {"dispatch"}, doc : Docs]
    \cup {Idle}

TypeOK ==
  /\ status \in [Docs -> DocStates]
  /\ rev \in [Docs -> Nat]
  /\ frozen \in [Docs -> BOOLEAN]
  /\ inst \in [Insts -> Instance \cup {NoInst}]
  /\ signoffs \subseteq Signoff
  /\ req \in [Reqs -> Request]
  /\ pdf \in SUBSET Docs
  /\ events \in [Docs -> [EventTypes -> Nat]]
  /\ recorded \in [Insts -> Nat]

Init ==
  /\ status = [d \in Docs |-> IF d \in LegacyDocs THEN "published" ELSE "draft"]
  /\ rev = [d \in Docs |-> 0]
  /\ frozen = [d \in Docs |-> FALSE]
  /\ inst = [i \in Insts |-> NoInst]
  /\ signoffs = {}
  /\ req = [q \in Reqs |-> Idle]
  /\ pdf = {}
  /\ events = [d \in Docs |-> [e \in EventTypes |-> 0]]
  /\ recorded = [i \in Insts |-> 0]

(* The guard and effect of UpdateInstanceStatus and UpdateStageStatus: they *)
(* write a row only while it has the status the caller expects.             *)
InstanceIs(i, s) == inst[i].status = s

(* Mutant: the UPDATE loses its "AND asi.status = $3". *)
StageIs_NoGuard(i, k, s) == TRUE

StageIs(i, k, s) == inst[i].stage[k] = s

(* An instance with new stages and a new status. *)
WithStages(x, stage, s) == [x EXCEPT !.stage = stage, !.status = s]

Emit(d, e) == events' = [events EXCEPT ![d][e] = @ + 1]

(* Mutant: publication writes the status of before migration 0132. *)
SetStatus_Legacy(d, s) ==
  /\ status' = [status EXCEPT ![d] = IF s = "published" THEN "finalized" ELSE s]
  /\ rev' = [rev EXCEPT ![d] = @ + 1]

(* UPDATE documents SET status, revision_version = revision_version + 1. *)
SetStatus(d, s) ==
  /\ status' = [status EXCEPT ![d] = s]
  /\ rev' = [rev EXCEPT ![d] = @ + 1]

-----------------------------------------------------------------------------
(* SubmitRevisionForReview.  ux_approval_instances_active refuses a second  *)
(* in_progress instance of the document.  The idempotency key holds the     *)
(* second of the call; a resubmission is taken to fall in another second.   *)
(* Stage instances snapshot the route with an empty eligible set.           *)
SubmitRevisionForReview(d, a, r, i, f) ==
  /\ inst[i] = NoInst
  /\ ValidRoute(RouteStages[r])
  /\ \A j \in Insts : ~(inst[j].status = "in_progress" /\ inst[j].doc = d)
  /\ status[d] = "draft"
  /\ inst' = [inst EXCEPT ![i] =
       [status |-> "in_progress", doc |-> d, route |-> r, by |-> a,
        hash |-> ContentHash(d, rev[d], f),
        stage |-> [k \in 1..Len(RouteStages[r]) |->
                     IF k = 1 THEN "active" ELSE "pending"]]]
  /\ SetStatus(d, "under_review")
  /\ Emit(d, "submitted")
  /\ UNCHANGED <<frozen, signoffs, req, pdf, recorded>>

EligibleActorIDs == {}

-----------------------------------------------------------------------------
(* RecordSignoff, first step: LoadInstance without a row lock, the terminal *)
(* and stage guards, and CheckSoD against the signoffs of other stages.     *)
LoadForSignoff(q, i, k, a, dec, f) ==
  LET row == [inst |-> i, stage |-> k, actor |-> a, decision |-> dec,
              hash |-> ContentHash(i, 0, f)]
      prior == {s.actor : s \in {t \in signoffs : t.inst = i /\ t.stage # k}}
  IN /\ req[q] = Idle
     /\ InstanceIs(i, "in_progress")
     /\ k \in DOMAIN inst[i].stage
     /\ k = Active(inst[i].stage)
     /\ CheckSoD(inst[i].by, a, prior)
     /\ req' = [req EXCEPT ![q] =
          [phase |-> "loaded", row |-> row, seen |-> inst[i].stage]]
     /\ UNCHANGED <<status, rev, frozen, inst, signoffs, pdf, events, recorded>>

(* InsertSignoff waits while another open transaction holds a row with the  *)
(* same (approval_instance_id, actor_user_id).                              *)
UniqueKeyFree(q) ==
  \A p \in Reqs \ {q} :
    req[p].phase = "inserted" =>
      ~(req[p].row.inst = req[q].row.inst /\ req[p].row.actor = req[q].row.actor)

AlreadySigned(row) ==
  \E s \in signoffs : s.inst = row.inst /\ s.actor = row.actor

(* The votes loadStageSignoffs returns: committed ones and the request's own. *)
Votes(row, dec) ==
  {s.actor : s \in {t \in signoffs \cup {row} :
                      t.inst = row.inst /\ t.stage = row.stage /\ t.decision = dec}}

(* Second step: the insert, admitted by the trigger enforce_signoff_sod,    *)
(* then the votes of the stage are read and the quorum evaluated.           *)
InsertSignoff(q) ==
  LET row == req[q].row
      cfg == RouteStages[inst[row.inst].route][row.stage]
  IN /\ req[q].phase = "loaded"
     /\ UniqueKeyFree(q)
     /\ ~AlreadySigned(row)
     /\ row.actor # CreatedBy[inst[row.inst].doc]
     /\ req' = [req EXCEPT ![q] =
          [phase |-> "inserted", row |-> row, seen |-> req[q].seen,
           outcome |-> EvaluateQuorum(cfg, EligibleActorIDs,
                         Votes(row, "approve"), Votes(row, "reject"),
                         EffectiveDenominator(EligibleActorIDs))]]
     /\ UNCHANGED <<status, rev, frozen, inst, signoffs, pdf, events, recorded>>

(* Mutant: a replayed signoff emits its event again. *)
ReplaySignoff_EmitsAgain(q) ==
  /\ req[q].phase = "loaded"
  /\ UniqueKeyFree(q)
  /\ AlreadySigned(req[q].row)
  /\ recorded' = [recorded EXCEPT ![req[q].row.inst] = @ + 1]
  /\ req' = [req EXCEPT ![q] = Idle]
  /\ UNCHANGED <<status, rev, frozen, inst, signoffs, pdf, events>>

(* ON CONFLICT: a replay of the same decision commits with no effect, any   *)
(* other one is refused; the request ends either way.                       *)
ReplaySignoff(q) ==
  /\ req[q].phase = "loaded"
  /\ UniqueKeyFree(q)
  /\ AlreadySigned(req[q].row)
  /\ req' = [req EXCEPT ![q] = Idle]
  /\ UNCHANGED <<status, rev, frozen, inst, signoffs, pdf, events, recorded>>

(* What every commit of a signoff writes: the row and its event. *)
RecordRow(q) ==
  /\ signoffs' = signoffs \cup {req[q].row}
  /\ recorded' = [recorded EXCEPT ![req[q].row.inst] = @ + 1]

(* Last step, instance stays open: a pending quorum leaves the stages alone, *)
(* an approved stage is completed and the next pending one, found in the     *)
(* stages loaded at the start, is activated.  UpdateStageStatus refuses a    *)
(* stage that is no longer in the expected status.                           *)
CommitSignoffOpen(q) ==
  LET i == req[q].row.inst
      k == req[q].row.stage
      n == NextPending(req[q].seen, k)
      advances == req[q].outcome = "approved_stage"
  IN /\ req[q].phase = "inserted"
     /\ req[q].outcome # "rejected_stage"
     /\ advances => n # 0 /\ StageIs(i, k, "active") /\ StageIs(i, n, "pending")
     /\ inst' = IF advances
                THEN [inst EXCEPT ![i] = WithStages(@,
                        [@.stage EXCEPT ![k] = "completed", ![n] = "active"],
                        @.status)]
                ELSE inst
     /\ RecordRow(q)
     /\ req' = [req EXCEPT ![q] = Idle]
     /\ UNCHANGED <<status, rev, frozen, pdf, events>>

(* Mutant: the approval forgets the document. *)
ApproveDocument_Forgotten(d) == UNCHANGED <<status, rev>>

(* The rows this UPDATE affects are not checked: a document that is not      *)
(* under review would stay as it is.                                         *)
ApproveDocument(d) ==
  IF status[d] = "under_review" THEN SetStatus(d, "approved")
                                ELSE UNCHANGED <<status, rev>>

(* FreezeService.Freeze, idempotent: the values hash, values_frozen_at and   *)
(* the final docx are written in the approval's transaction.  A missing      *)
(* required value or a failed fanout aborts it.                              *)
Freeze(d) == frozen' = [frozen EXCEPT ![d] = TRUE]

(* Last step, last stage approved: the instance is approved, the document    *)
(* frozen and moved to approved.                                             *)
CommitSignoffApprove(q) ==
  LET i == req[q].row.inst
      k == req[q].row.stage
      d == inst[i].doc
  IN /\ req[q].phase = "inserted"
     /\ req[q].outcome = "approved_stage"
     /\ NextPending(req[q].seen, k) = 0
     /\ StageIs(i, k, "active")
     /\ InstanceIs(i, "in_progress")
     /\ inst' = [inst EXCEPT ![i] =
          WithStages(@, [@.stage EXCEPT ![k] = "completed"], "approved")]
     /\ Freeze(d)
     /\ ApproveDocument(d)
     /\ RecordRow(q)
     /\ req' = [req EXCEPT ![q] = [phase |-> "dispatch", doc |-> d]]
     /\ UNCHANGED <<pdf, events>>

(* Last step, stage rejected: stage and instance end; the document is not    *)
(* written.                                                                  *)
CommitSignoffReject(q) ==
  LET i == req[q].row.inst
      k == req[q].row.stage
  IN /\ req[q].phase = "inserted"
     /\ req[q].outcome = "rejected_stage"
     /\ StageIs(i, k, "active")
     /\ InstanceIs(i, "in_progress")
     /\ inst' = [inst EXCEPT ![i] =
          WithStages(@, [@.stage EXCEPT ![k] = "rejected_here"], "rejected")]
     /\ RecordRow(q)
     /\ req' = [req EXCEPT ![q] = Idle]
     /\ UNCHANGED <<status, rev, frozen, pdf, events>>

(* A failed guard, a freeze or database error, or a crash: rollback before   *)
(* the commit, a lost PDF event after it.                                    *)
AbortSignoff(q) ==
  /\ req[q] # Idle
  /\ req' = [req EXCEPT ![q] = Idle]
  /\ UNCHANGED <<status, rev, frozen, inst, signoffs, pdf, events, recorded>>

(* The post-commit Dispatch, whose error is ignored. *)
DispatchPDF(q) ==
  /\ req[q].phase = "dispatch"
  /\ pdf' = pdf \cup {req[q].doc}
  /\ req' = [req EXCEPT ![q] = Idle]
  /\ UNCHANGED <<status, rev, frozen, inst, signoffs, events, recorded>>

-----------------------------------------------------------------------------
(* Mutant: only the active stage is cancelled. *)
CancelledStages_ActiveOnly(stage) ==
  [k \in DOMAIN stage |-> IF stage[k] = "active" THEN "cancelled" ELSE stage[k]]

CancelledStages(stage) ==
  [k \in DOMAIN stage |->
     IF stage[k] \in {"active", "pending"} THEN "cancelled" ELSE stage[k]]

(* Mutant: the document goes back to draft, the instance stays open. *)
CancelInstance_InstanceLeftOpen(i) ==
  /\ InstanceIs(i, "in_progress")
  /\ status[inst[i].doc] = "under_review"
  /\ SetStatus(inst[i].doc, "draft")
  /\ Emit(inst[i].doc, "cancelled")
  /\ UNCHANGED <<inst, frozen, signoffs, req, pdf, recorded>>

(* CancelInstance, by a caller that knows the document's version (If-Match). *)
(* CancelByDocumentHandler and the watchdog pass version 0, which a document *)
(* under review never has: their calls fail and change nothing.              *)
CancelInstance(i) ==
  /\ InstanceIs(i, "in_progress")
  /\ status[inst[i].doc] = "under_review"
  /\ inst' = [inst EXCEPT ![i] =
       WithStages(@, CancelledStages(@.stage), "cancelled")]
  /\ SetStatus(inst[i].doc, "draft")
  /\ Emit(inst[i].doc, "cancelled")
  /\ UNCHANGED <<frozen, signoffs, req, pdf, recorded>>

PublishApproved(i) ==
  /\ inst[i].status = "approved"
  /\ status[inst[i].doc] = "approved"
  /\ SetStatus(inst[i].doc, "published")
  /\ Emit(inst[i].doc, "published")
  /\ UNCHANGED <<frozen, inst, signoffs, req, pdf, recorded>>

(* Mutant: the new document's status is not checked. *)
PublishSuperseding_AnyNew(new, prior, newRev, priorRev) ==
  /\ rev[new] = newRev /\ new # prior
  /\ status[prior] = "published" /\ rev[prior] = priorRev
  /\ status' = [status EXCEPT ![new] = "published", ![prior] = "superseded"]
  /\ rev' = [rev EXCEPT ![new] = @ + 1, ![prior] = @ + 1]
  /\ Emit(new, "superseded")
  /\ UNCHANGED <<frozen, inst, signoffs, req, pdf, recorded>>

(* PublishSuperseding, given the two versions its caller read: the second    *)
(* UPDATE sees what the first one wrote, which matters when new = prior.     *)
PublishSuperseding(new, prior, newRev, priorRev) ==
  LET afterNew == [status EXCEPT ![new] = "published"]
      revAfterNew == [rev EXCEPT ![new] = @ + 1]
  IN /\ status[new] = "approved" /\ rev[new] = newRev
     /\ afterNew[prior] = "published" /\ revAfterNew[prior] = priorRev
     /\ status' = [afterNew EXCEPT ![prior] = "superseded"]
     /\ rev' = [revAfterNew EXCEPT ![prior] = @ + 1]
     /\ Emit(new, "superseded")
     /\ UNCHANGED <<frozen, inst, signoffs, req, pdf, recorded>>

(* SupersedeHandler reads the prior document's version just before the call *)
(* and takes the new one's from If-Match: both are current or the call fails. *)
SupersedeHandler(new, prior) ==
  PublishSuperseding(new, prior, rev[new], rev[prior])

(* MarkObsolete cancels in_progress instances but not their stages. *)
MarkObsolete(d) ==
  /\ status[d] \in {"published", "superseded"}
  /\ SetStatus(d, "obsolete")
  /\ inst' = [i \in Insts |->
       IF inst[i].status = "in_progress" /\ inst[i].doc = d
       THEN WithStages(inst[i], inst[i].stage, "cancelled") ELSE inst[i]]
  /\ Emit(d, "obsoleted")
  /\ UNCHANGED <<frozen, signoffs, req, pdf, recorded>>

-----------------------------------------------------------------------------
(* SignoffHandler, which names instance and stage. *)
SignoffHandler(q) ==
  \E i \in Insts, a \in Actors, dec \in Decisions, f \in Forms :
    /\ inst[i] # NoInst
    /\ \E k \in DOMAIN inst[i].stage : LoadForSignoff(q, i, k, a, dec, f)

(* The instance the document-centred routes act on; a document has no second *)
(* one that is open or approved.                                             *)
LoadActiveInstanceByDocument(d) ==
  {i \in Insts : inst[i].status \in {"in_progress", "approved"} /\ inst[i].doc = d}

(* SignoffByDocumentHandler looks instance and active stage up; when they    *)
(* have changed before RecordSignoff loads them, the call is refused there.  *)
SignoffByDocumentHandler(q, d) ==
  \E i \in LoadActiveInstanceByDocument(d), a \in Actors, dec \in Decisions, f \in Forms :
    LoadForSignoff(q, i, Active(inst[i].stage), a, dec, f)

(* CancelHandler takes the document's version from If-Match: it is current   *)
(* or the call fails.  So do ObsoleteHandler and SubmitHandler.              *)
CancelHandler(i) == CancelInstance(i)

PublishHandler(d) == \E i \in LoadActiveInstanceByDocument(d) : PublishApproved(i)

ObsoleteHandler(d) == MarkObsolete(d)

Signing(q) ==
  \/ SignoffHandler(q)
  \/ \E d \in Docs : SignoffByDocumentHandler(q, d)
  \/ InsertSignoff(q)
  \/ ReplaySignoff(q)
  \/ CommitSignoffOpen(q)
  \/ CommitSignoffApprove(q)
  \/ CommitSignoffReject(q)
  \/ AbortSignoff(q)
  \/ DispatchPDF(q)

Next ==
  \/ \E d \in Docs, a \in Actors, r \in Routes, i \in Insts, f \in Forms :
       SubmitRevisionForReview(d, a, r, i, f)
  \/ \E q \in Reqs : Signing(q)
  \/ \E i \in Insts : CancelHandler(i)
  \/ \E d \in Docs : PublishHandler(d)
  \/ \E new, prior \in Docs : SupersedeHandler(new, prior)
  \/ \E d \in Docs : ObsoleteHandler(d)

Spec == Init /\ [][Next]_vars

-----------------------------------------------------------------------------
(* What a reviewed document relies on.                                      *)

(* An instance in progress belongs to a document under review, and no       *)
(* document has two: submit, the last signoff and cancel change document    *)
(* and instance together, whatever runs between the steps of a signoff.     *)
OneReview ==
  \A i \in Insts : inst[i].status = "in_progress" =>
    /\ status[inst[i].doc] = "under_review"
    /\ \A j \in Insts \ {i} :
         ~(inst[j].status = "in_progress" /\ inst[j].doc = inst[i].doc)

(* Stage k has state v, those before it are completed, those after pending. *)
StoppedAt(st, k, v) ==
  /\ st[k] = v
  /\ \A j \in DOMAIN st : j < k => st[j] = "completed"
  /\ \A j \in DOMAIN st : j > k => st[j] = "pending"

(* Stages are worked off in order, with exactly one active one in an open   *)
(* instance; an approved instance completed them all, a rejected one stopped *)
(* at its first rejection, a cancelled one left nothing to sign.            *)
StageShape ==
  \A i \in Insts :
    LET st == inst[i].stage IN
    /\ inst[i].status = "in_progress" => \E k \in DOMAIN st : StoppedAt(st, k, "active")
    /\ inst[i].status = "rejected" => \E k \in DOMAIN st : StoppedAt(st, k, "rejected_here")
    /\ inst[i].status = "approved" => \A k \in DOMAIN st : st[k] = "completed"
    /\ inst[i].status = "cancelled" =>
         \A k \in DOMAIN st : st[k] \in {"completed", "cancelled"}

(* Separation of duties: every stage of an approved instance was approved by *)
(* somebody who neither submitted nor created the document, and nobody signed *)
(* twice, although RecordSignoff checks this against a stale read.           *)
FourEyes ==
  /\ \A i \in Insts : inst[i].status = "approved" =>
       \A k \in DOMAIN inst[i].stage : \E s \in signoffs :
         /\ s.inst = i /\ s.stage = k /\ s.decision = "approve"
         /\ s.actor \notin {inst[i].by, CreatedBy[inst[i].doc]}
  /\ \A s, t \in signoffs : s.inst = t.inst /\ s.actor = t.actor => s = t

Released == {"approved", "published", "superseded", "obsolete"}

(* Document and reviews agree.  A document that is not from before the       *)
(* workflow is approved, published or beyond exactly when some instance of   *)
(* it was approved, and then its values are frozen; a PDF is only ever asked *)
(* for such a document.  What a rejection does to its document is not part   *)
(* of this: the reject branch of RecordSignoff does not write it.            *)
ApprovedChain ==
  /\ \A d \in Docs \ LegacyDocs :
       (status[d] \in Released) <=>
         \E i \in Insts : inst[i].status = "approved" /\ inst[i].doc = d
  /\ \A d \in Docs : frozen[d] <=>
       \E i \in Insts : inst[i].status = "approved" /\ inst[i].doc = d
  /\ \A d \in pdf : frozen[d]

(* The audit trail matches the rows: a document was submitted once more than *)
(* it was cancelled unless it is in draft, left approval at most once, and   *)
(* every committed signoff has exactly one event.                            *)
AuditTrail ==
  /\ \A d \in Docs \ LegacyDocs :
       events[d]["submitted"] =
         events[d]["cancelled"] + (IF status[d] = "draft" THEN 0 ELSE 1)
  /\ \A d \in Docs : events[d]["published"] + events[d]["superseded"] <= 1
  /\ \A i \in Insts : recorded[i] = Cardinality({s \in signoffs : s.inst = i})

(* Documents only take edges of the Spec 2 graph (or the cancel edge), never *)
(* reopen after approval, and every status change raises the version that    *)
(* optimistic locking compares.                                              *)
LegalSteps ==
  [][\A d \in Docs : status'[d] # status[d] =>
       /\ TriggerAllows(status[d], status'[d])
       /\ status[d] \in Released => status'[d] \in Released
       /\ rev'[d] > rev[d]]_vars

(* An instance that has ended, and its stages, never change again: a signoff *)
(* that loaded it while it was open cannot overwrite a cancel or a decision. *)
EndedStaysEnded ==
  [][\A i \in Insts :
       inst[i].status \in InstStates \ {"in_progress"} => inst'[i] = inst[i]]_vars

(* No signoff is committed into an instance that has ended meanwhile.  This  *)
(* rests on every vote deciding its stage: a pending vote would take no lock *)
(* on the instance and commit after a cancel.                                *)
NoLateSignoff ==
  [][\A s \in signoffs' \ signoffs : inst[s.inst].status = "in_progress"]_vars

=============================================================================
