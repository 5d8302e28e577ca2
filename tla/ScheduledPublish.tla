--------------------------- MODULE ScheduledPublish ---------------------------
(***************************************************************************)
(* Scheduled publication: SchedulePublish and the job                      *)
(* effective_date_publisher, whose RunDuePublishes reads the due rows in   *)
(* one transaction and publishes each in a transaction of its own, under   *)
(* the lease of module JobLease.  Leases of other jobs are other rows and  *)
(* are left out.                                                           *)
(*                                                                         *)
(* A document is approved or, at the start, already scheduled: rows that   *)
(* only a direct SQL statement can produce, since SchedulePublish fails.   *)
(***************************************************************************)
EXTENDS JobLease

CONSTANTS
  Docs,       \* documents
  Scheduled,  \* those that start in status scheduled with a due date
  Publisher   \* the job that runs RunDuePublishes

ASSUME PublishAssumption == Scheduled \subseteq Docs /\ Publisher \in Jobs \ {Reaper}

VARIABLES
  docStatus,  \* documents.status
  rev,        \* documents.revision_version
  batch,      \* rows of the running RunDuePublishes, per process
  published,  \* number of document_published events per document
  refused     \* documents SchedulePublish was called for, and failed

pubVars == <<docStatus, rev, batch, published, refused>>
schedVars == <<lease, run, proc, docStatus, rev, batch, published, refused>>

Row == [doc : Docs, rev : Nat]
Batch == [fetched : BOOLEAN, rows : SUBSET Row]
NotFetched == [fetched |-> FALSE, rows |-> {}]

SchedTypeOK ==
  /\ LeaseTypeOK
  /\ docStatus \in [Docs -> {"approved", "scheduled", "published"}]
  /\ rev \in [Docs -> Nat]
  /\ batch \in [Leaders -> Batch]
  /\ published \in [Docs -> Nat]
  /\ refused \in SUBSET Docs

(* Submission and approval have each raised the version once. *)
SchedInit ==
  /\ LeaseInit
  /\ docStatus = [d \in Docs |-> IF d \in Scheduled THEN "scheduled" ELSE "approved"]
  /\ rev = [d \in Docs |-> 2]
  /\ batch = [l \in Leaders |-> NotFetched]
  /\ published = [d \in Docs |-> 0]
  /\ refused = {}

-----------------------------------------------------------------------------
(* Columns of documents this module's statements name (migration 0131). *)
Columns == {"status", "revision_version", "effective_from"}

(* The UPDATE of SchedulePublish.  LoadInstance leaves RevisionVersion at 0. *)
ScheduleSet == {"status", "effective_date", "revision_version"}
InstanceRevisionVersion == 0
ScheduleSucceeds(id, d) ==
  /\ id \notin Docs
  /\ ScheduleSet \subseteq Columns
  /\ docStatus[d] = "approved" /\ rev[d] = InstanceRevisionVersion

(* SchedulePublish of the approval instance id of an approved document d,    *)
(* with a future date, by a caller that is allowed to.                       *)
SchedulePublish(id, d) ==
  /\ docStatus[d] = "approved"
  /\ IF ScheduleSucceeds(id, d)
     THEN /\ docStatus' = [docStatus EXCEPT ![d] = "scheduled"]
          /\ rev' = [rev EXCEPT ![d] = @ + 1]
          /\ UNCHANGED refused
     ELSE refused' = refused \cup {d} /\ UNCHANGED <<docStatus, rev>>
  /\ UNCHANGED <<leaseVars, batch, published>>

(* SchedulePublishHandler gives the document's id for that of the instance. *)
SchedulePublishHandler(d) == SchedulePublish(d, d)

(* PublishApproved of module Approval, the only way out for such a document. *)
PublishApproved(d) ==
  /\ docStatus[d] = "approved"
  /\ docStatus' = [docStatus EXCEPT ![d] = "published"]
  /\ rev' = [rev EXCEPT ![d] = @ + 1]
  /\ published' = [published EXCEPT ![d] = @ + 1]
  /\ UNCHANGED <<leaseVars, batch, refused>>

-----------------------------------------------------------------------------
(* ListScheduledDue: its row locks end with the fetch transaction.  With the *)
(* job's context cancelled the query fails and there is nothing to do.       *)
FetchDue(l) ==
  /\ Running(l, Publisher)
  /\ ~batch[l].fetched
  /\ batch' = [batch EXCEPT ![l] = [fetched |-> TRUE, rows |->
       IF run[l][Publisher].cancelled THEN {}
       ELSE {[doc |-> d, rev |-> rev[d]] : d \in {e \in Docs : docStatus[e] = "scheduled"}}]]
  /\ UNCHANGED <<leaseVars, docStatus, rev, published, refused>>

(* Mutant: updateScheduledDocSQL without its status and version. *)
RowCurrent_Unchecked(r) == TRUE

(* Mutant: the version compared is one that was never read. *)
RowCurrent_VersionUnset(r) == docStatus[r.doc] = "scheduled" /\ rev[r.doc] = 0

(* The WHERE clause of updateScheduledDocSQL. *)
RowCurrent(r) == docStatus[r.doc] = "scheduled" /\ rev[r.doc] = r.rev

Rows(l) == batch[l].rows

DropRow(l, r) == batch' = [batch EXCEPT ![l].rows = @ \ {r}]

(* processRow that updates its document and emits the event.  It does not    *)
(* look at the lease: the epoch is only logged.                              *)
PublishRow(l, r) ==
  /\ Running(l, Publisher) /\ r \in Rows(l)
  /\ ~run[l][Publisher].cancelled
  /\ RowCurrent(r)
  /\ docStatus' = [docStatus EXCEPT ![r.doc] = "published"]
  /\ rev' = [rev EXCEPT ![r.doc] = @ + 1]
  /\ published' = [published EXCEPT ![r.doc] = @ + 1]
  /\ DropRow(l, r)
  /\ UNCHANGED <<leaseVars, refused>>

(* processRow that changes nothing: another runner was faster, the statement *)
(* failed, or the context is cancelled.  The loop goes on with the next row. *)
SkipRow(l, r) ==
  /\ Running(l, Publisher) /\ r \in Rows(l)
  /\ DropRow(l, r)
  /\ UNCHANGED <<leaseVars, docStatus, rev, published, refused>>

(* RunDuePublishes returns after its last row (or a failed fetch). *)
FinishPublisher(l) ==
  /\ batch[l].fetched /\ Rows(l) = {}
  /\ FinishJob(l, Publisher)
  /\ batch' = [batch EXCEPT ![l] = NotFetched]
  /\ UNCHANGED <<docStatus, rev, published, refused>>

(* The process exits or crashes, in the middle of a batch or not. *)
ExitPublisher(l) ==
  /\ Exit(l)
  /\ batch' = [batch EXCEPT ![l] = NotFetched]
  /\ UNCHANGED <<docStatus, rev, published, refused>>

LeaseStep ==
  \/ \E l \in Leaders : Loop(l, Publisher) \/ BeginDrain(l) \/ CancelInFlight(l)
                          \/ StartProcess(l)
  \/ \E l \in Leaders, S \in SUBSET {Publisher} : ForceRelease(l, S)
  \/ Tick

SchedNext ==
  \/ LeaseStep /\ UNCHANGED pubVars
  \/ \E l \in Leaders : FetchDue(l) \/ FinishPublisher(l) \/ ExitPublisher(l)
  \/ \E l \in Leaders : \E r \in Rows(l) : PublishRow(l, r) \/ SkipRow(l, r)
  \/ \E d \in Docs : SchedulePublishHandler(d) \/ PublishApproved(d)

SchedSpec == SchedInit /\ [][SchedNext]_schedVars

(* Processes tick, batches are worked off, and an error that makes a row     *)
(* fail is transient: a row that is due in run after run is published.       *)
SchedFairness ==
  /\ WF_schedVars(Tick /\ UNCHANGED pubVars)
  /\ WF_schedVars((\E l \in Leaders : AcquireLease(l, Publisher)) /\ UNCHANGED pubVars)
  /\ \A l \in Leaders :
       /\ WF_schedVars(FetchDue(l))
       /\ WF_schedVars(FinishPublisher(l))
       /\ WF_schedVars(\E r \in Rows(l) : SkipRow(l, r))
  /\ \A d \in Docs :
       SF_schedVars(\E l \in Leaders : \E r \in Rows(l) : r.doc = d /\ PublishRow(l, r))

FairSchedSpec == SchedSpec /\ SchedFairness

-----------------------------------------------------------------------------
(* A document is published at most once and its event is written exactly     *)
(* then, although two processes may hold the same row at once: a holder that *)
(* missed its heartbeats and its successor.                                  *)
PublishedOnce ==
  /\ SchedTypeOK
  /\ \A d \in Docs : published[d] = IF docStatus[d] = "published" THEN 1 ELSE 0

(* Once no process stops any more, every due document is published, whatever *)
(* leases were lost and batches abandoned before (until the bound on epochs  *)
(* is reached).                                                              *)
DuePublished ==
  <>[](\A l \in Leaders : proc[l] = "up") =>
    \A d \in Scheduled :
      <>(docStatus[d] = "published" \/ lease[Publisher].epoch = MaxEpoch)
=============================================================================
