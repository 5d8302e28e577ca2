# MetalDocs in TLA+

A specification of the parts of MetalDocs where correctness depends on the order
of concurrent steps, on what fails between them, or on what was read before and
is used after. TLC checks the modules on small instances; TLAPS proves 37 of
their 40 properties, all but the liveness properties, for every value of the
constants (section 6).

Paths below are relative to the repository; `approval/` is
`internal/modules/documents_v2/approval/`.

## 1. The system

MetalDocs is a document control system: several identical API processes
(`apps/api`) and workers (`apps/worker`) over one PostgreSQL database and an
object store. All shared state is in the database. Services open READ COMMITTED
transactions, and many have none; what protects them is the `WHERE` clause of
each `UPDATE`, unique indexes and triggers, rarely a row lock. So the hard
behaviour is what happens *between* the statements of one operation and when a
process stops there.

| Component | State | Operations | What is hard | What makes it correct |
|---|---|---|---|---|
| Approval workflow (`approval/application`, `approval/repository`, `approval/http`) | `documents.status`, `revision_version`, `approval_instances`, `approval_stage_instances`, `approval_signoffs`, `governance_events` | submit, signoff, cancel, publish, supersede, obsolete | a signoff decides on an unlocked read; two signoffs, or a signoff and a cancel, race; PDF dispatch after commit | one open review per document, stages in order, four eyes, ended instances stay as they are, audit trail equals rows |
| Approval rules (`approval/domain`) | none | state graph, route validation, quorum, stage advance, separation of duties | boundary values of the quorum | used through the workflow |
| Route administration (`route_admin_service.go`, `route_admin_handler.go`) | `approval_routes`, `approval_route_stages` | create, update, deactivate, list | a submission copies a route while an administrator changes it | a used route is immutable, copies and listings are of one version |
| Job leases (`internal/modules/jobs/scheduler`, migrations 0148, 0149) | `job_leases`, jobs in flight of each process | acquire, heartbeat, release, drain, forced release, reaper | expiry under a running job, crash, restart with the same leader id | fencing epochs unique and monotonic, stale runs harmless, jobs go on |
| Scheduled publication (`scheduler_service.go`, `effective_date_publisher`) | `documents.status`, rows read by a batch | schedule, fetch due rows, publish a row | two batches over the same rows, crash within a batch | published once with one event; due documents get published |
| Editing (`documents_v2/repository`, `documents_v2/application/service.go`, `documents_v2/jobs`) | `editor_sessions`, `active_session_id`, `document_revisions`, `autosave_pending_uploads`, `document_checkpoints` | acquire, heartbeat, release, force release, presign, commit, checkpoint, restore, two sweepers | takeover between read and insert; status checked before a long upload check; sweeps and replays | one writer, pointer = writer, uploads match revisions, only the writer moves the head, at most one late save |
| Fill-in, snapshot, freeze, view, reconstruction (`documents_v2/application`, `render`) | `document_placeholder_values`, snapshot columns, `values_hash`, final docx and PDF keys, the object `frozen.docx` | create, fill in, freeze, write PDF, view, reconstruct | values read and written outside the approval transaction, without a test of the status; creation in three transactions; a rendering written after its caller gave up | approval, hashes and key come together and never change; the object is complete |
| Templates (`templates_v2`) | templates, versions, approval configuration, objects | create, next version, autosave, schema, submit, review, approve, archive, configure | whole rows written back from stale reads, no transactions | signed off by the right people, no holes in the numbers, sound schemas |
| Accounts, sessions, roles (`auth`, `iam`) | `auth_identities`, `auth_sessions`, `iam_user_roles`, role cache | login, logout, passwords, administration, middlewares, bootstrap | counters computed from stale rows, cache filled after its invalidation, crash of the bootstrap | bounded staleness of roles, locks earned, an administrator after a bootstrap |
| Catalogue: taxonomy, registry, memberships, document creation (`taxonomy`, `registry`, `iam`, `documents_v2`) | profiles, areas, controlled documents, counters, memberships, documents | create, update, archive, number, change status, grant, revoke, create and duplicate a document, backfill | numbering in a transaction that needs a second connection, look-up and insert apart, backfill stopped anywhere, codes that clash | numbers without gaps, unique codes, one membership, published templates only, old documents linked |
| Outbox, worker, notifications, legacy workflow (`platform/messaging`, `platform/worker`, `notifications`, `workflow`) | `outbox_events`, `notifications`, `workflow_approvals`, `metaldocs.documents` | transition, publish, claim, handle, mark, dead-letter, remind, read | at-least-once delivery, claims that run out, compensation of half-done transitions | handled before marked, notified once, delivered in the end |
| Audit, search, rate limits, export, configuration, docgen, frontend | | | | not modelled, section 7 |

How they meet. The approving signoff calls `FreezeService.Freeze` in its own
transaction and dispatches the PDF event after it; the worker writes the PDF.
Submission copies a route and, like cancellation, changes `documents.status`,
which autosave reads. The publisher job runs under a lease and writes the same
`documents` rows as `PublishApproved`. A document is created under a controlled
document, from the published version of its profile's template. Every state
change of a document writes a `governance_events` row in its transaction.

## 2. Modules

| Module | Models | Extends |
|---|---|---|
| `ApprovalRules` | `approval/domain`: pure operators | |
| `Approval` | the approval services over the database | `ApprovalRules` |
| `Review` | what the workflow promises, abstractly | |
| `ApprovalRefinement` | `Approval` implements `Review` | `Approval`, instance of `Review` |
| `ApprovalProofs` | theorems about reviews, documents against reviews, audit trail, the refinement | `ApprovalRefinement` |
| `RouteAdmin` | routes and the submissions that copy them | `ApprovalRules` |
| `RouteAdminProofs` | theorems about routes | `RouteAdmin` |
| `JobLease` | lease functions and the scheduler | |
| `ScheduledPublish` | schedule and publisher job, composed with the leases | `JobLease` |
| `EditorSession` | sessions, autosave, checkpoints, sweepers | |
| `LeaseProofs` | theorems about leases, the publisher on top of them, and editing | `ScheduledPublish`, `EditorSession` |
| `FillIn` | one document from creation to its frozen rendering | |
| `FillInProofs` | theorems about freezing | `FillIn` |
| `TemplateLifecycle` | one template and its versions | |
| `TemplateLifecycleProofs` | theorems about templates and the search for cycles | `TemplateLifecycle` |
| `Identity` | accounts, sessions, roles, role cache | |
| `IdentityProofs` | theorems about accounts and roles | `Identity` |
| `Catalogue` | taxonomy, registry, memberships, document creation | |
| `CatalogueProofs` | theorems about numbers, documents and the backfill | `Catalogue` |
| `Outbox` | outbox, workers, notifications, PDF job | |
| `Workflow` | legacy workflow, composed with the outbox | `Outbox` |
| `WorkflowProofs` | theorems about outbox, workers and workflow | `Workflow` |
| `MC...` | instances for TLC | the module of that name |

Operators whose name ends in a suffix after an underscore (`SetStatus_Legacy`)
are plausible wrong versions of the operator before the underscore. They are not
part of the specification; for each property there is one under which TLC finds
the property violated.

A chain of statements without a transaction is modelled alike everywhere: a
request is a record of what it has read and where it is, each statement is a
step, an error or a crash ends the request between any two of them, and a
guarded `UPDATE` or `INSERT` is one step with its `WHERE` clause, index or
trigger as a condition. A refused call changes nothing and is a stuttering step.
One tenant throughout.

### Approval

One transaction is one step when it re-checks every row it writes in the
statement that writes it: submit, cancel, publish, supersede, obsolete. Another
transaction cannot then change the outcome between its statements, it can only
make it fail, and a failed call changes nothing. `RecordSignoff` is different:
`LoadInstance` takes no lock, and stage, prior signers and votes are read by
separate statements. It is split into

1. `LoadForSignoff`: read the instance, check status, stage and separation of
   duties; remember the stages seen (`req[q].seen`). The handlers name the
   instance or find it by document;
2. `InsertSignoff` or `ReplaySignoff`: the unique key `(instance, actor)`, the
   trigger against the document's creator, then the votes and the quorum;
3. `CommitSignoffOpen`, `CommitSignoffApprove` or `CommitSignoffReject`: the
   guarded updates, the event, the commit. Approval freezes and approves the
   document in the same transaction;
4. `DispatchPDF` after the commit, or nothing.

`AbortSignoff` covers every error and crash in between. The row a request has
inserted is not in `signoffs` before the commit, so other requests do not see
it; `UniqueKeyFree` is the wait for an uncommitted row with the same key.

Abstractions: `ComputeContentHash` is injective, so a hash is the record of its
inputs; route stages are `[quorum, m]`; the comparison with a version the client
sends is left out where any client may send the current one; authorization can
only refuse a call. Eligible actor sets are empty because `InsertStageInstances`
is always given an empty set. A resubmission within the same second, which the
idempotency key refuses, is not modelled. Documents start as drafts, or published
for those that migration 0132 remapped.

### Review and ApprovalRefinement

`Review` says what a reader of the product would: a document is submitted by an
author; somebody who has had no part in it votes (`Vote`), which leaves the stage
open, or signs a stage off; the last signature approves; a vote against rejects
(`Reject`), and a rejected document may be reworked and submitted again
(`Rework`); a cancel drops review and signatures; and approved documents are
published, superseded, obsoleted. This is the documented workflow. The code takes
neither `Vote` nor `Rework` (section 5): the refinement says that it does nothing
else than the documented workflow, not that it does all of it. There are no
instances, requests or transactions in it. The mapping reads the phase from the
document's status and its open instance (`phaseBar`; a document under review
without one counts as rejected, although its row does not say so), the stages left
from that instance, author and signers from the instances that were not cancelled.
Loading, inserting, aborting and dispatching are stuttering steps; a signoff takes
effect in its commit.

### RouteAdmin

`approval_routes` and `approval_route_stages` are `route` and `stages`; `lock` is
the `FOR UPDATE` row lock of an administrator's transaction, `adm` the open
transactions, `sub` the submissions, `insts` what they committed, `list` an open
listing. `InsertInstance` holds the route's row `FOR KEY SHARE` through the
foreign key, so it and `lockRouteForUpdate` wait for each other: this, not the
trigger of migration 0145 alone, keeps a used route unchanged. `If-Match` is
parsed and ignored, the idempotency key only has to be there, and the
authorization area "tenant" accepts any area. The roles are those of migration
0142a with what 0158 added for `doc.submit`.

### JobLease

`lease[j].left` is `expires_at - now()`; `Tick` lowers it for all jobs at once.
SQL functions are single steps: they run under the lock of the lease row. A
failed heartbeat or release is a step that changes nothing, a process may exit
in any phase, and it starts again under the same leader id. `RunLeaseReaper`
ends its run without deleting a lease: its event insert names a tenant id that
is not a UUID and a column that does not exist, so its transaction rolls back.
Backpressure may skip any tick, so a tick without effect is a stuttering step
and the counters behind it are not modelled.

### ScheduledPublish

`FetchDue` reads the rows and ends its transaction; each `PublishRow` is a
transaction of its own; `SkipRow` is a row that fails, or that another runner
has published. Only the publisher's lease is of interest, so the other lease
rows stay empty. `SchedulePublish` is refused in every state (section 5), so
the documents in `Scheduled` start in status `scheduled`: such rows come from
outside the API, and the job is specified for them.

### EditorSession

One document. A revision is named by its content hash, which is unique per
document. "lapsed" means active with `expires_at` in the past: only the sweeper
turns that into an ended session, until then commits and heartbeats of the
holder still succeed. Two operations are split: `AcquireSession` between
reading the head and inserting the session, `CommitAutosave` between its checks
and `CommitUpload`. The handlers admit the creator and administrators
(`authorizeDocumentScope`). `BeginAcquire` reads the live session and the head in
one step where the code has two SELECTs; the insert that follows is refused by the
index whatever the first one said. Submit and cancel are the effects of module
`Approval` on the status.

### FillIn

One document. `CreateDocument` is three writes with failures in between;
`PutPlaceholderValue` validates in one step and upserts in another, in any
status; the deciding signoff is `FreezeBegin`, `FreezeResolve` (values upserted
on a second connection, so they stay after `FreezeRollback`), `FreezeRender` (the
call of the fan-out route), `FreezeRendered` (the route has written its result to
`frozen.docx`, the one object of the document, and answers) and `FreezeCommit`.
`object` is what lies under that key and `final` the content whose key and hash
the database has. When the transaction rolls back during the call (timeout,
cancelled request, crash), the route may still finish: its rendering is in
`abandoned`, and `LateRendering` writes it at any later time, also over the
approved one. The PDF job converts the object as it finds it. A reconstruction
sends no `resolved_values` (a JSON null), which `BodySchema` refuses. A hash is
the function hashed, a rendering the record of body, values and named values, a
text a set of words. Votes are those of one stage; the quorum is in `Approval`.
Following `main.go`, there is no seeder of default rows, no draft resolver and no
reader of users, and `METALDOCS_FANOUT_URL` is taken to be set (without it
approval does not freeze at all). The resolvers `doc_code` and `doc_title` always
fail, so a template that uses them cannot be approved ("unreadable" in the
model). The approvers resolver does not see the signoff that is being decided and
does see approvers of cancelled reviews. The PDF webhook is not registered by the
server; the worker's job writes the PDF.

### TemplateLifecycle

One template. A request has read the template and the version and then has a
list of statements left to do (`req[r].todo`); `UpdateTemplate` and
`UpdateVersion` write the whole row it built, `CreateVersion` meets the unique
index. `Upload` puts any content under a presigned URL until it expires. The
server passes neither an authorization function nor a resolver registry, so
neither is there. `DetectVisibilityCycle` follows the code's walk along
`visibleIf`, a recursive function of the ids on the stack whose value is the set
of ids from which the walk succeeds; `Acyclic`, against which it is checked, is
the definition (every non-empty set of placeholders has one that does not depend
on the set).

### Identity

A login reads the account, compares, writes the counters computed from what it
read, inserts a session. A request resolves session, account and roles one after
the other, or, with the legacy header, takes the roles from the cache or loads
and stores them; its handler then acts with them. `BootstrapLocalAdmin` inserts
the account and assigns the role in two steps; each start may also have it
disabled, the default outside the local environment, and then serves without
looking at administrators (boot "unchecked"). `Tick` and `Crash` come anywhere;
a crash drops requests and cache. `held`, `wrong` and `demoted` are history for
the properties. As in the code: `UnlockUser` changes nothing in the PostgreSQL
repository, `PATCH isActive=false` revokes no session and `ResolveSession` does
not look at it, and password change with a stale must-change flag asks for no
current password.

### Catalogue

`createProfile`, `updateProfile`, `createArea`, `updateArea` build the row from
the request; archiving and the default template write back a row read before.
An automatic creation holds a connection from `BeginTx` on, takes the counter's
row lock in `NextAndIncrement`, needs a second connection in `CheckAutoCode` and
commits document and counter together, looking a taken code up through the pool.
A manual code is free text and may equal an automatic one or one of the backfill.
Memberships: closing one violates the CHECK of migration 0136 unless `revoked_by`
is given, which `CloseActive` does not do. A document is created through profile
default, look-up of the version, insert, storage key and snapshot, each a step.
The backfill files old documents one transaction each and may be stopped; the code
it gives is eight digits of the document's id, so `Prefix` need not be injective,
and its upsert takes a row with that code as it is. Of the template's lifecycle
(module `TemplateLifecycle`) there is what document creation can see: a version is
published, made obsolete by a later one, or written back to draft by a stale
`UpdateVersion`; `released` remembers the versions that were ever published.

### Outbox and Workflow

`outbox` is a function from idempotency keys; an insert of a key that exists is
dropped. Time is abstract: `due` says that `next_attempt_at` is past, `Lapse`
lets it pass, so a claim may run out under its worker. A worker claims a batch,
handles each event, marks it, and ends its pass with the reminders; an error ends
the pass. `markFailure` decides from the count read at the claim. The PDF event
has neither id nor key, so `MarkFailed` refuses it and the pass ends. The job of
a revision in `Flaky` may fail any number of times. The model assumes a
configured PDF runner (without one the worker marks the event unhandled).
`Workflow` adds the transition of a legacy document: approval, status, audit
record, events, without a transaction, and the compensation that writes back what
was read, either half of which may fail. `workflow.transitioned` events have no
reader and are left out. Nothing creates legacy documents any more, so they start
in any status.

## 3. Runs

| Run | Bounds | Distinct states |
|---|---|---|
| `approval` | 3 documents (1 legacy), 3 users, 2 routes (any_1_of then all_of; m_of_n with M = 2), 2 instances, 2 requests | 215,000 |
| `lease` | 2 processes, 2 jobs, TTL 1, epochs up to 3 | 263,000 |
| `sched` | 2 processes, 2 scheduled documents and 1 approved, epochs up to 3 | 276,000 |
| `editor` | 3 users (creator, administrator, other), 3 sessions, 3 contents, 2 uploads, 2 commits in flight, 1 checkpoint | 1.7 million |
| `fillin` | 3 templates, 2 fill-in requests, 2 approvers, 2 reviews, 1 abandoned rendering | 1.6 million |
| `templates` | 3 users, 2 versions, 2 requests in flight, 7 in all, 3 schemas | 1.2 million |
| `identity` | 2 accounts, 2 passwords, 1 session, 2 requests in flight, 3 in all, 2 ticks, 1 crash | 2.4 million |
| `catalogue` | 2 profiles, 2 areas, 3 controlled documents, 1 version, 2 old documents of one prefix, 2 requests in flight, 4 in all | 1.9 million |
| `workflow` | 1 document, 1 transition, 1 revision whose PDF job may fail without limit, 2 workers, 1 other fault | 790,000 |
| `routes` | 3 users, 2 routes, 5 stage lists, 2 administrators' transactions, 2 submissions, versions up to 3 | 793,000 |
| `catalogue_pool` | as `catalogue`, pool of 2 connections, 2 requests | violation, section 5 |
| `workflow_pdf` | 1 worker, 2 revisions, no faults | violation, section 5 |

Why the bounds are enough for the interesting cases. Two requests are a race, and
a third adds no new pair; two instances allow a review after a cancelled one, or
one of each of two drafts; three users are the submitter and two signers, one of
whom may be the creator. Epoch 3 allows a takeover and a takeover of the taker; a
lease of one unit still has the states fresh, at its limit and expired. Two due
rows allow a crash between them. Two commits in flight allow a save of a session
that was taken over. Two reviews allow approvals left over from a cancelled one,
and one abandoned rendering (`MaxAbandoned`) of the first may be written over the
second's. Seven template requests reach a second version through review and
approval with a stale write on the way. Two ticks are one cache, lock or session
lifetime and the moment after it. Two old documents whose ids share their prefix
and manual codes that look like theirs are the clashes the backfill can meet. One
workflow fault together with a claim that runs out reaches the dead letters (two
attempts), and a failing PDF job, which costs no fault, ends batches again and
again; two transitions of one document together with two workers are beyond the
bound. Deadlock is not checked where the system may stop for good or where a
bound on requests stops it (`approval`, `templates`, `identity`, `catalogue`,
`workflow`, `routes`); the other runs check it.

Fairness. `LeaseFairness`, `SchedFairness`: time passes; a job function returns,
as each handles one bounded batch with database timeouts; a stopped process is
started again by its supervisor; a tick of some process eventually takes a free
lease, since tickers run for ever in every process that is up. For publication,
a row that comes up in run after run eventually succeeds (strong fairness of
publishing one document): errors are taken to be transient. The processes may
stop at any time, so `JobKeepsRunning` assumes that one of them stays up from
some point on and `DuePublished` that all do. `Workflow`: a request goes on with
its next statement, a worker with its pass (a ticker starts one after the other)
and claims run out; failures and crashes are never forced. That the PDF job
succeeds is not assumed: `Delivered` has it as its premise. `Catalogue`: a request
whose next statement can run goes on; waiting for a lock or a connection is not
being able to.

## 4. Properties

The type invariants of `Approval` and `JobLease` are checked by themselves; in
the other modules the type invariant (`SchedTypeOK`, `EditorTypeOK`,
`FillInTypeOK`, `TplTypeOK`, `IdTypeOK`, `CatTypeOK`, `OutboxTypeOK`, `WfTypeOK`,
`RouteTypeOK`) is the first conjunct of one of the invariants below, where it
belongs in an inductive invariant.

Approval. `OneReview`: an open instance belongs to a document under review and is
alone. `StageShape`: stages in order, one active in an open instance, a rejected
one stopped at its rejection. `FourEyes`: every stage of an approved instance has
an approval by somebody who neither submitted nor created the document, and
nobody signs twice. `ApprovedChain`: approved documents have an approved instance
and frozen values, and the other way round (of the document of a rejected
instance it says nothing, section 5). `AuditTrail`: events match rows.
`LegalSteps`, `EndedStaysEnded`, `NoLateSignoff`: what a step may never do.
`ImplementsReview`: the refinement of the documented workflow, votes below the
quorum and rework included. `NoLateSignoff` holds for a fragile reason: with an
empty eligible set every vote decides its stage, so every signoff updates the
stage under a guard that a cancel falsifies. Once stages have eligible actors, a
vote that leaves the quorum pending would commit into a cancelled instance; the
mutant of that property is such a quorum rule.

Routes. `RouteFrozen`: once an instance refers to it a route never changes.
`SnapshotWhole`: stages copied by a submission or shown by a listing are those of
one version, not older than the one recorded with them (it may be newer: row and
stages are read by two statements).

Leases. `FencingUnique`: no two runs of a job have one epoch. `EpochMonotonic`:
no step but the reaper's lowers an epoch; the reaper is left out because its
intended effect, a deleted row, starts the epochs again (section 5).
`TakenOnlyExpired`: a live lease is not taken over. `StaleRunHarmless`: neither
the heartbeat and release of a run that lost its lease nor the forced release of
a drain touch the new holder's row. `JobKeepsRunning`. Scheduled publication.
`PublishedOnce`, `DuePublished`.

Editing. `PointerIsWriter`: the document points at the active session, exactly.
`UploadsMatchRevisions`: every revision but the first has its consumed upload
and no consumed upload lacks its revision. `HeadMovedByWriter`: history is
append-only and only the active session moves the head. `OneLateSave`: the
content of a document that has left draft changes at most once, by a save whose
check came before the submission.

Fill-in. `FrozenWhole`: approved, hashed and rendered are one; the rendering holds
the values hashed with no required one missing, even when creation was cut short;
what lies under the key, and what a viewer is shown, is that rendering or one of
an abandoned call, of the right template and complete in either case.
`ApproversSigned`: everyone named as an approver approved. `FrozenOnce`: hashes
and key never change, and only a call abandoned before the approval can write the
object again; a reconstruction cannot, because its request is refused (the mutant
repairs the request and nothing else).

Templates. `SignedOff`: reviewed and published versions were signed by holders of
the roles recorded in them, different people, although any row may be written
stale. `Contiguous`: version numbers have no holes and the template refers to
versions that exist. `SchemasSound`: stored schemas are acyclic, by definition
and not by the algorithm.

Identity. `AdmittedHeld`: roles a request acts with were its user's at most one
cache lifetime before it began. `LockEarned`: locked accounts saw enough wrong
passwords (an upper bound; counts that parallel attempts lose are section 5).
`AdminAfterBoot`: a server that came up with its bootstrap enabled has an
administrator, wherever an earlier start crashed and however it was configured.

Catalogue. `Numbered`: automatic numbers have no gaps and no duplicates, codes are
unique, a user has one open membership per area. `FromPublished`: documents come
from versions that were published, whatever stale writes make of the version
later. `BackfillWhole`: a backfill stopped anywhere and run again leaves no row of
its own that no old document is linked to, a linked document hangs on the row with
its code, and two of them share one exactly if they share the prefix.

Outbox. `PublishedHandled`: events are marked after they were handled and given
up after the last attempt only. `OneNotification`: no second notification, and
none comes back unread. `Delivered`: if the PDF job does not fail for ever, every
event reaches its reader or the dead letters, whatever batches were cut short
before. `Announced`, with the workflow: nobody is told of what did not happen.

## 5. Where the code departs from what the repository says

Two departures are runs that TLC ends with a counterexample; `PROJECT.json`
quotes the statement and the line:

1. `NumberingEnds` (`catalogue_pool`): an automatic creation holds a connection
   and asks for a second one; as many of them as the pool has connections wait
   for ever. The taxonomy design asks for 100 concurrent creations; the pool has
   25 connections.
2. `PDFWritten` (`workflow_pdf`): the PDF event has an empty idempotency key, so
   every one after the first is dropped as a duplicate.

Met while modelling, and part of the modules:

- approval, rejection: the reject branch (`decision_service.go:284`) does not
  write the document. It stays under review without an open instance, and nothing
  moves it on. The design
  (`docs/superpowers/specs/2026-04-21-foundation-doc-approval-state-machine-design.md`)
  says "document → 'rejected', locked_at=NULL" (:578), "Author explicit
  transition 'rejected' → 'draft'" (:640-643) and "Reject at stage 2 → doc →
  rejected; rework" (:871);
  `frontend/apps/web/e2e/flows/reject_flow.spec.ts:136,151`,
  `edit_lock.spec.ts:179` and `quorum_m_of_n.spec.ts:140` expect rejection, a
  released edit lock and a draft. No property certifies the dead end:
  `ApprovedChain` leaves the document of a rejected instance open, and `Review`
  has the documented path;
- approval, quorum: the design says "quorum not yet met: stage stays 'active'"
  (:591). In the code the eligible set is always empty and the denominator 1, so
  every vote decides its stage, and the first approval of an m_of_n stage with M of
  2 or more rejects the instance. `Review` allows the documented vote;
- approval, other: a signoff's content hash never equals its instance's; the
  document-centred cancel and the watchdog pass version 0 and always fail;
- scheduled publication: `SchedulePublish` is refused for every document (its
  handler passes the document's id as the instance's, the column
  `effective_date` does not exist, the version compared is 0); nothing asserts
  the lease epoch when a row is published (each is still published once);
- leases: the reaper never deletes one, because its event insert fails and its
  transaction rolls back.
  `internal/modules/jobs/scheduler/integration_test.go:400-440` (`TestProbe10`)
  expects the stale lease deleted, and `reviews/phase-8-opus.md:113,154`
  (MIN-003) remarks that the deletion bypasses the monotonic epoch.
  `EpochMonotonic` therefore says nothing of the reaper's step, and repairing the
  reaper needs another argument for the epochs;
- editing: a session acquired during a commit writes beside the head; one save
  may land after the submission (`OneLateSave`); a restore changes nothing;
- fill-in: values can be written after the approval, while
  `2026-04-21-foundation-placeholder-fill-in-design.md:175` calls them immutable
  then (hashes and key stay, `FrozenOnce`); every rendering of a revision is
  written to the same object (`apps/docgen-v2/src/routes/fanout.ts:24-26,49-71`),
  so a call whose signoff gave up may replace the approved document after a later
  approval while `content_hash` stays (`FrozenWhole` bounds what it can be); a
  reconstruction is always refused: its `resolved_values` is null
  (`resolver_readers.go:132-138`), which the route answers with 400 (`fanout.ts:18`);
  were it accepted, it would overwrite that object too, with a rendering by id and
  without named values;
- templates: two versions can be published at once, while
  `2026-04-20-templates-v2-wysiwyg-design.md:234` allows one; a stale
  `UpdateVersion` makes a draft of a published version, a stale `UpdateTemplate`
  undoes an archive or takes `latest_version` back, after which every next
  version fails; a mismatching commit deletes the object that was saved; an empty
  reviewer role makes a submitted version undecidable;
- identity: outside the local environment the bootstrap is disabled by default
  (`platform/authn/config.go:86`, `auth/application/service.go:56-58`), and a
  server then serves without an administrator; parallel failed logins count once;
  one more failure after a lock has run out locks again; a login in flight
  survives a password reset; the last administrator can be demoted; the legacy
  header passes the must-change check;
- catalogue: `PATCH` of a profile and `PUT` of an area un-archive them and check
  neither template nor parent; a manual code equal to the next automatic one
  stops the profile's numbering for good; old documents whose ids share eight
  digits, or whose code a user entered by hand, are filed under one controlled
  document (`registry/application/migration.go:59`, `service.go:108`; the design
  calls the code "MIG-<uuid-prefix>",
  `2026-04-21-foundation-taxonomy-rbac-design.md:401`); closing a membership
  always fails; creation with an override template always fails; a crash leaves
  documents without storage key or snapshot; an advisory lock of the backfill may
  leak;
- outbox: a failing PDF event is never given up: `MarkFailed` refuses its empty
  id (`consumer.go:136`) and the error ends the pass (`worker/service.go:62-63`).
  Events claimed with it lapse with it and are claimed with it again, so a job
  that fails for ever may keep them from being delivered or given up; without the
  premise of `Delivered` TLC shows this. Marks do not check who holds the claim;
  `UpdateDecision` and the compensation overwrite each other's decisions;
- routes: the design lets an administrator edit a route in use ("Route edit
  mid-review", approval design :766); migration 0145 and
  `TestProbeG_RouteInUseBlocksUpdate`
  (`internal/modules/iam/integration_test.go:242`) have superseded it, and
  `RouteFrozen` follows them; of two administrators the later wins; a submission
  does not look at `active`; a deactivated route still blocks its profile.

## 6. Proofs

The theorems hold for any documents, users, routes of any length, number of
requests, processes, workers, jobs and durations, from the named assumptions on
the constants. Beyond the types of the parameters these say: finitely many users
(`ConstantsAssumption`), documents (`OutboxAssumption`) and requests in flight
(`IdentityAssumption`), because the models count them; finite schemas, the empty
one without placeholders (`TemplateAssumption`); a connection pool that is
not empty, and `unassigned` as a possible code of a profile and of an area
(`CatalogueAssumption`); and that the value
which stands for NULL is no row, id or placeholder (`EditorAssumption`,
`FillInAssumption`, `WfAssumption`, `RouteAssumption`, `TemplateAssumption`,
`CatalogueAssumption`). TLC evaluates them in
every run. No action property and no invariant is assumed anywhere.

The safety properties are seldom inductive, always for the same reason: a request
carries what it has read past the steps of others. Each invariant therefore says
of every such record what was so when it was read and what is still so now. Each
proof has a lemma per action; facts that every step keeps (history grows, rows are
not deleted, epochs do not fall) are lemmas of their own.

`ApprovalProofs`. `FourEyes`, `StageShape`, `NoLateSignoff` are not inductive:
what a request read must be related to what is there when it commits.
`ReviewInv` adds `RouteOK` (instances have a valid route and as many stages),
`RequestOK` (an open signoff is for a stage of its instance, was loaded while
nothing after that stage had begun, and is not the submitter's), `InsertedOK`
(an inserted signoff is not the creator's and not the actor's second, and it has
decided its stage, in favour only on some approval) and
`SignoffsOK` (committed signoffs are independent, one per actor and instance,
and every completed stage has an approval). The argument for a commit: its guard
says that its stage is still active; then, by `StageShape`, the instance is open
and the next stage in the stages loaded earlier is also the next one now, so
advancing keeps the shape; and `QuorumDecides` gives that no vote leaves a stage
undecided, so no signoff commits without that guard. The action properties
follow from the same invariant. Theorems: `TypeCorrect`, `OneReviewHolds`,
`StagesInOrder`, `FourEyesHolds`, `EndedStays`, `SignoffsNotLate`, `StepsLegal`.

The second half of `ApprovalProofs` is about documents against their reviews.
Every step of `Approval` is first reduced, under `ReviewInv`, to one of a few
kinds (submitted, signed, cancelled, published, superseded, obsoleted, quiet);
three results are read off the kinds. `ChainInv` adds that a document has at most
one review that was not cancelled, none while it is a draft, and that with a
rejected one it is under review: without it a second approval could not be
excluded. (This is what the code does, and part of the argument only; section 5
says what should be.) `ApprovedChainHolds` follows. `AuditTrailHolds` counts
events: `AuditInv` adds that a document has no release event before it is
released, and that an instance has as many signoff events as rows, finitely many.
`ImplementsReviewHolds` is the refinement: `phaseBar` and the other mapped
variables are computed before and after each kind of step, and the step is a step
of `Review` or changes none of them.

`LeaseProofs`, on leases. `LeaseTypeOK /\ FencingUnique` is inductive because
`FencingUnique` says that no run is ahead of its row and that a run at the row's
epoch is the leader's: a takeover raises the epoch past all runs, and a process
that finds its own lease alive has no run of that job. Theorems:
`LeaseTypeCorrect`, `FencingHolds`, `EpochsMonotonic`, `TakeoverOnlyExpired`,
`StaleRunsHarmless`, which covers the forced release too: it is guarded by leader
and epoch like the others. `ImplementsLease` shows that the publisher job
composed with the leases is a behaviour of `JobLease`, step by step, so all of
these hold of it; `PublishedOnceHolds` then rests on the guard of the `UPDATE`
alone: a document is published with its event and only from another status,
whichever runs still hold a row of it, so neither leases nor epochs are needed
for it.

`LeaseProofs`, on editing. `EditorInv` adds `KnownRevisions` (what is read,
acknowledged, checkpointed or built upon is a revision) and `NothingFits` (after
a save that came too late, no open upload has the base its session has
acknowledged), which is why there is no second one. Theorems:
`PointerNamesWriter`, `RevisionsHaveUploads`, `WriterMovesHead`,
`AtMostOneLateSave`.

`RouteAdminProofs`. `RouteInv` has the lock protocol (`LockOK`: while an
administrator holds a route's row no submission holds it `FOR KEY SHARE`, and
once the trigger has let the `UPDATE` through nothing refers to the route until
the commit) and what submissions and listings have read (a list of that version
or a later one). Theorems: `SnapshotsAreWhole`, `RoutesFrozenInUse`.

`FillInProofs`. `FillInInv` follows the deciding transaction: the required values
were there when it began, those resolved so far name only people who approved,
and a value a user put into a computed placeholder is still to be resolved
(`Resolving`, `Rendered`); every rendering under way, abandoned or stored is of
this template and complete; and a request for reconstruction never passes
`BodySchema`, which is why nothing but an abandoned call writes the object after
the approval. Theorems: `FrozenDocumentsWhole`, `NamedHaveApproved`,
`FreezeHappensOnce`.

`TemplateLifecycleProofs` has two parts. The first is about the search for
cycles. `ValidSchemasSound`: whatever `ValidatePlaceholders` accepts is acyclic,
refers to no unknown id and has no name twice, for every finite schema. The
library's induction theorems cannot be used with the installed provers, so the
proof avoids them. That the recursive function has a value at all is shown by
giving one (`SolutionExists`: the ids from which some acyclic set that is closed
along `visibleIf` and avoids the stack can be found). That a walk which never
leaves a finite set cannot succeed (`NoEndlessWalk`) takes, of the stacks for
which it would, one with the fewest ids left (`WFMin`): its successor has fewer.
The second part is the lifecycle. `SignedOff`, `SchemasSound` and `Contiguous`
are not inductive, because requests write whole rows that they built from what
they read. `TplInv` says of every row that a request has built and not yet
written what it says of the stored ones (`RowOK`), and of every list of statements
that each may be done once those before it are (`StmtOK`): the version that a
template row counts exists or is inserted earlier in the list. Versions are never
deleted, so this survives the steps of others; and a failing statement drops the
rest of its list only. Theorems: `PublishedSignedOff`, `StoredSchemasSound`,
`VersionsContiguous`, `ValidSchemasSound`.

`CatalogueProofs`. `CatInv` says what every table holds and, of a request between
two statements, that the rows whose keys it carries are still there; no step
deletes a row, so each action only has to establish this for its own request.
`NumbersGapless` needs `LockOK`: the number that a request carries is the
counter's, and one request per profile at most carries one, because
`NextAndIncrement` waits for the row lock. An insert then adds exactly the next
number and the commit moves the counter with it; a rollback does neither.
`BackfillLinksOnce` rests on the backfill's insert and its link being one
transaction, on profile and code naming at most one row, and on rows keeping both.
Open memberships stay unique because none is ever closed (section 2).
`MadeFromPublished` follows the version from look-up to insert: it was published
when it was looked up, and what was published once stays in `released`, though the
version itself may be a draft again when the document is inserted.
Theorems: `NumbersGapless`, `MadeFromPublished`, `BackfillLinksOnce`.

`IdentityProofs`. `IdInv` dates what is carried: roles loaded for the cache were
held at some moment since the lookup began, so an entry that lives for `CacheTTL`
from that beginning is never older than that when it is used, whatever was
invalidated in between. `CountOK` says that the wrong passwords counted and those
still being compared are together at most the requests sent, which bounds the
counters; a login's copy of a counter is at most the wrong passwords so far.
Roles are taken away only by an administrator's request, so a bootstrap that found
or assigned an administrator is undone by a demotion only (`demoted`).
Theorems: `AdmittedRolesHeld`, `LocksEarned`, `AdminSurvivesBoot`.

`WorkflowProofs`. `WfInv` says of a worker that its claims are of rows claimed at
least as often since, and that what it is about to mark as published is done; of a
request that it publishes only what it has recorded and that a decision it carries
is its reviewer's. That rows, notifications and records only grow (`Grows`) keeps
both true under the steps of others. Theorems: `PublishedWasHandled`,
`ToldWasRecorded`, `NotifiedOnce`.

Model-checked only:

- liveness (`JobKeepsRunning`, `DuePublished`, `Delivered`): temporal reasoning
  from fairness and `ENABLED` are out of this prover's reach. The
  two properties that the code violates (section 5) are refuted by TLC.

## 7. Not modelled, and the plan

Every safety property that a run checks has a theorem. What could be proved next:
that `Workflow` is a behaviour of `Outbox` alone, as is done for
`ScheduledPublish` and `JobLease`; that the stages a submission copies in
`RouteAdmin` are what `Approval` takes for granted of `RouteStages`; and that the
advancing and quorum operators of `ApprovalRules` agree with an independent
definition for routes of any length.

To be modelled: the export service with its cache and rate limiter; two racing
legacy transitions on a smaller worker; the frontend's autosave loop against
`EditorSession`.

Left out: comments and renaming (independent rows without a rule of their own);
the legacy finalize and archive calls, refused by the transition trigger since
migrations 0142 and 0144; approval queries and the inbox, which is always empty
because eligible actors are; `AuthorizationService`, the `area_membership`
package, the cut-over check, the PDF webhook and `SetParent`, which the running
server does not reach; the watchdog, which changes nothing, and the idempotency
janitor, one `DELETE`; audit and search (append-only writes, queries);
configuration, storage and bootstrap (wiring and I/O); how docgen renders and
converts (its fan-out route and the object it writes are in `FillIn`); the web
frontend; the editing half of the documents module from
before documents_v2. Lock waits are modelled where a property depends on them
(`RouteAdmin`, `Catalogue`, the unique key of a signoff); the deadlocks PostgreSQL
resolves by aborting one side are not, an aborted transaction is. The drift
policies and `SkipStage` are not reached by any service.
