------------------------------ MODULE Workflow ------------------------------
(***************************************************************************)
(* The legacy document workflow (internal/modules/workflow) on top of the  *)
(* outbox.  A transition is a chain of statements with no transaction and  *)
(* no lock: read the document, write the approval, write the status, write *)
(* the audit record, publish one or two events.  When the audit record     *)
(* fails, the status and the approval are written back, whatever happened  *)
(* to them in between.                                                     *)
(***************************************************************************)
EXTENDS Outbox

CONSTANT Requests       \* requests in flight at a time

VARIABLES approvals,    \* workflow_approvals; the id is also requested_at
          audits,       \* audit_events: the transition each one records
          reqs,         \* requests between two of their statements
          sent          \* requests sent so far

wfVars == <<approvals, audits, reqs, sent>>
vars == <<docs, faults, outboxVars, wfVars>>

Approval == [doc : Docs, requester : Users, reviewer : Users,
             status : {"PENDING", "APPROVED", "REJECTED"},
             by : Users \cup {None}]

\* None stands for NULL: it is no row and no id.
ASSUME WfAssumption == None \notin Approval /\ None \notin Ids

Idle == [pc |-> "idle"]

\* Documents of any status are in the table, which nothing adds to any more;
\* one under review has its pending approval.
WfInit ==
  /\ docs \in [Docs -> Statuses]
  /\ LET old == {d \in Docs : docs[d] = "IN_REVIEW"} IN
     \E req, rev \in Users :
       approvals = [a \in IF old = {} THEN {} ELSE {0} |->
                      [doc |-> CHOOSE d \in old : TRUE, requester |-> req,
                       reviewer |-> rev, status |-> "PENDING", by |-> None]]
  /\ audits = {}
  /\ reqs = [r \in Requests |-> Idle]
  /\ sent = 0
  /\ OutboxInit

canTransition(from, to) ==
  \/ from = "DRAFT" /\ to = "IN_REVIEW"
  \/ from = "IN_REVIEW" /\ to \in {"APPROVED", "DRAFT"}
  \/ from = "APPROVED" /\ to \in {"PUBLISHED", "ARCHIVED"}
  \/ from = "PUBLISHED" /\ to = "ARCHIVED"

Step(r, pc) == reqs' = [reqs EXCEPT ![r].pc = pc]
End(r) == reqs' = [reqs EXCEPT ![r] = Idle]
QuietOutbox == UNCHANGED outboxVars

-----------------------------------------------------------------------------
(* The statements of the approval repository.                              *)

GetLatestByDocumentID(d) ==
  CHOOSE a \in DOMAIN approvals :
    /\ approvals[a].doc = d
    /\ \A b \in DOMAIN approvals : approvals[b].doc = d => b <= a

CreateApproval(a, rec) ==
  approvals' = [b \in DOMAIN approvals \cup {a} |->
                  IF b = a THEN rec ELSE approvals[b]]
UpdateDecision(a, status, by) ==
  approvals' = [approvals EXCEPT ![a].status = status, ![a].by = by]
SaveState(a, rec) == approvals' = [approvals EXCEPT ![a] = rec]
DeleteApproval(a) ==
  approvals' = [b \in DOMAIN approvals \ {a} |-> approvals[b]]

UpdateDocumentStatus(d, s) == docs' = [docs EXCEPT ![d] = s]

-----------------------------------------------------------------------------
(* Transition, statement by statement.                                     *)

\* POST /workflow/documents/{id}/transitions: the document is read, and the
\* rest of the request works with what it read.
handleTransition(r) ==
  /\ reqs[r] = Idle /\ sent < MaxRequests
  /\ \E d \in Docs, to \in Statuses, u \in Users, rv \in Users \cup {None} :
       /\ canTransition(docs[d], to)
       /\ IF to = "IN_REVIEW" THEN rv # None ELSE rv = None
       /\ reqs' = [reqs EXCEPT ![r] =
            [pc |-> IF docs[d] = "DRAFT" THEN "request"
                    ELSE IF docs[d] = "IN_REVIEW" THEN "decide" ELSE "move",
             doc |-> d, from |-> docs[d], to |-> to, actor |-> u,
             reviewer |-> rv, approval |-> None, prev |-> None,
             at |-> sent + 1]]
  /\ sent' = sent + 1
  /\ NoFault /\ QuietOutbox /\ UNCHANGED <<docs, approvals, audits>>

requestApproval(r) ==
  /\ reqs[r].pc = "request"
  /\ CreateApproval(reqs[r].at,
       [doc |-> reqs[r].doc, requester |-> reqs[r].actor,
        reviewer |-> reqs[r].reviewer, status |-> "PENDING", by |-> None])
  /\ reqs' = [reqs EXCEPT ![r].pc = "move", ![r].approval = reqs[r].at]
  /\ NoFault /\ QuietOutbox /\ UNCHANGED <<docs, audits, sent>>

\* The latest approval must be pending and the actor its reviewer.
readApproval(r) ==
  /\ reqs[r].pc = "decide"
  /\ LET d == reqs[r].doc
         none == \A b \in DOMAIN approvals : approvals[b].doc # d
         a == GetLatestByDocumentID(d)
     IN  IF none \/ approvals[a].status # "PENDING"
                 \/ approvals[a].reviewer # reqs[r].actor
         THEN End(r)
         ELSE reqs' = [reqs EXCEPT ![r].pc = "decided", ![r].approval = a,
                                   ![r].prev = approvals[a]]
  /\ NoFault /\ QuietOutbox /\ UNCHANGED <<docs, approvals, audits, sent>>

\* UPDATE ... WHERE id: nothing tells a decision that another one came first.
decideApproval(r) ==
  /\ reqs[r].pc = "decided"
  /\ \/ /\ reqs[r].approval \in DOMAIN approvals
        /\ UpdateDecision(reqs[r].approval,
             IF reqs[r].to = "DRAFT" THEN "REJECTED" ELSE "APPROVED",
             reqs[r].actor)
        /\ Step(r, "move")
     \/ /\ reqs[r].approval \notin DOMAIN approvals
        /\ End(r) /\ UNCHANGED approvals
  /\ NoFault /\ QuietOutbox /\ UNCHANGED <<docs, audits, sent>>

\* A failure here leaves the approval as it is.
moveDocument(r) ==
  /\ reqs[r].pc = "move"
  /\ \/ UpdateDocumentStatus(reqs[r].doc, reqs[r].to)
        /\ Step(r, "audit") /\ NoFault
     \/ Fault /\ End(r) /\ UNCHANGED docs
  /\ QuietOutbox /\ UNCHANGED <<approvals, audits, sent>>

AuditEvent(q) ==
  [doc |-> q.doc, to |-> q.to, approval |-> q.approval,
   reviewer |-> IF q.prev = None THEN q.reviewer ELSE q.prev.reviewer,
   by |-> IF q.prev = None THEN None ELSE q.actor]
recordAudit_Ignored(r) ==
  /\ reqs[r].pc = "audit"
  /\ \/ /\ audits' = audits \cup {AuditEvent(reqs[r])}
        /\ Step(r, "publish") /\ NoFault
     \/ Fault /\ Step(r, "publish") /\ UNCHANGED audits
  /\ QuietOutbox /\ UNCHANGED <<docs, approvals, sent>>
recordAudit(r) ==
  /\ reqs[r].pc = "audit"
  /\ \/ /\ audits' = audits \cup {AuditEvent(reqs[r])}
        /\ Step(r, "publish") /\ NoFault
     \/ Fault /\ Step(r, "undo") /\ UNCHANGED audits
  /\ QuietOutbox /\ UNCHANGED <<docs, approvals, sent>>

\* The compensation: first the status, then the approval.  What failed the
\* audit record, a cancelled context or a lost database, may fail either one
\* too: that is the same fault.
rollbackStatus(r) ==
  /\ reqs[r].pc = "undo"
  /\ UpdateDocumentStatus(reqs[r].doc, reqs[r].from) \/ UNCHANGED docs
  /\ Step(r, "undone")
  /\ NoFault /\ QuietOutbox /\ UNCHANGED <<approvals, audits, sent>>

rollbackApproval(r) ==
  /\ reqs[r].pc = "undone"
  /\ LET a == reqs[r].approval IN
     \/ UNCHANGED approvals
     \/ /\ a # None /\ a \in DOMAIN approvals
        /\ IF reqs[r].prev = None THEN DeleteApproval(a)
           ELSE SaveState(a, reqs[r].prev)
  /\ End(r)
  /\ NoFault /\ QuietOutbox /\ UNCHANGED <<docs, audits, sent>>

\* An error of the publication is ignored.  The event workflow.transitioned,
\* published just before and read by no handler, is left out.
publishTransitionEvents(r) ==
  /\ reqs[r].pc = "publish"
  /\ LET a == reqs[r].approval IN
     \/ /\ IF a = None THEN UNCHANGED outbox
           ELSE IF reqs[r].prev = None
           THEN Publish(RequestedKey(a), reqs[r].reviewer, None)
           ELSE Publish(DecisionedKey(a), reqs[r].prev.requester, None)
        /\ NoFault
     \/ Fault /\ UNCHANGED outbox
  /\ End(r)
  /\ UNCHANGED <<docs, notifs, pdf, dispatched, workers, approvals, audits,
                 sent>>

\* The process ends, or the client's context does, between two statements.
Abandon(r) ==
  /\ reqs[r] # Idle
  /\ Fault /\ End(r)
  /\ QuietOutbox /\ UNCHANGED <<docs, approvals, audits, sent>>

Transition(r) ==
  \/ requestApproval(r) \/ readApproval(r) \/ decideApproval(r)
  \/ moveDocument(r) \/ recordAudit(r)
  \/ rollbackStatus(r) \/ rollbackApproval(r)
  \/ publishTransitionEvents(r)

WfNext ==
  \/ \E r \in Requests : handleTransition(r) \/ Transition(r) \/ Abandon(r)
  \/ OutboxNext /\ UNCHANGED wfVars

Fairness ==
  /\ \A r \in Requests : WF_vars(Transition(r))
  /\ \A w \in Workers : WF_vars(RunOnce(w) /\ UNCHANGED wfVars)
  /\ \A k \in Keys : WF_vars(Lapse(k) /\ UNCHANGED wfVars)

WfSpec == WfInit /\ [][WfNext]_vars /\ Fairness

-----------------------------------------------------------------------------
(* Properties.                                                             *)

WfTypeOK ==
  /\ DOMAIN approvals \subseteq Ids
  /\ \A a \in DOMAIN approvals : approvals[a] \in Approval
  /\ \A r \in Requests : reqs[r] = Idle \/ reqs[r].doc \in Docs

(***************************************************************************)
(* Nobody is told of what did not happen: a notification about an approval *)
(* stands for a transition that has its audit record, and the record of a  *)
(* decision names the assigned reviewer as the one who decided, whatever   *)
(* fails, is written back or is delivered again.                           *)
(***************************************************************************)
Announced ==
  /\ WfTypeOK
  /\ \A n \in notifs : n.key[1] \in {"requested", "decisioned"} =>
       \E x \in audits :
         /\ x.approval = n.key[2]
         /\ IF n.key[1] = "requested" THEN x.to = "IN_REVIEW" /\ x.reviewer = n.to
            ELSE x.to \in {"APPROVED", "DRAFT"} /\ x.by = x.reviewer

Seen(k) == LET u == outbox[k].to
           IN  \E n \in handleNotifications(u, FALSE, u) : n.key = k
PDFFailing == \E w \in Workers : /\ workers[w].pc = "failed"
                                  /\ workers[w].cur.key = NoKey
AllDelivered ==
  \A k \in DOMAIN outbox \ {NoKey} : Seen(k) \/ outbox[k].dead
(***************************************************************************)
(* The workers catch up: every event that reached the outbox reaches its   *)
(* reader's list or is given up as a dead letter, and as the transitions   *)
(* are finitely many a time comes when this is so of all of them.  No      *)
(* claim, crash, late mark, or PDF job that ends the batch an event was    *)
(* claimed in makes the workers forget it, as long as the PDF job stops    *)
(* failing some day.  One that fails for ever ends every batch it is       *)
(* claimed with, and nothing gives it up.                                  *)
(***************************************************************************)
Delivered == <>[]~PDFFailing => []<>AllDelivered

(***************************************************************************)
(* "After signoff, worker generates PDF": every revision whose job was     *)
(* published without an error gets its PDF.                                *)
(***************************************************************************)
PDFWritten == \A v \in Revisions : (v \in dispatched) ~> (v \in pdf)
=============================================================================
