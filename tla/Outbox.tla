------------------------------- MODULE Outbox -------------------------------
(***************************************************************************)
(* The transactional outbox, the workers that drain it, and what they do:  *)
(* in-app notifications and the PDF of an approved revision.  Several      *)
(* workers poll the table; a claim is a lease that ends by itself, so an   *)
(* event may be handled twice, and a worker may mark an event long after   *)
(* another one took it over.  Time is abstract: "due" says that            *)
(* next_attempt_at is NULL or past, and Lapse lets it pass.  occurred_at   *)
(* is written with the precision of a second by several hosts, so a batch  *)
(* is handled in any order.                                                *)
(***************************************************************************)
EXTENDS Integers, FiniteSets, FiniteSetsExt

CONSTANTS Workers,      \* worker processes
          Users,
          Docs,         \* documents of the legacy table metaldocs.documents
          Owner,        \* their owners
          Expiring,     \* those whose expiry falls in the reminder window
          Revisions,    \* documents_v2 revisions that get approved
          Flaky,        \* those whose conversion may fail again and again
          Batch,        \* METALDOCS_WORKER_BATCH_SIZE
          MaxAttempts,  \* METALDOCS_WORKER_MAX_ATTEMPTS
          Limit,        \* page size of the notification list
          MaxRequests,  \* bound: transitions requested, approval ids
          MaxFaults,    \* bound: other failures, of statements and processes
          None

ASSUME OutboxAssumption ==
  /\ IsFiniteSet(Docs)
  /\ Owner \in [Docs -> Users] /\ Expiring \subseteq Docs
  /\ Flaky \subseteq Revisions
  /\ Batch \in Nat \ {0} /\ MaxAttempts \in Nat \ {0} /\ Limit \in Nat \ {0}
  /\ MaxRequests \in Nat /\ MaxFaults \in Nat
  /\ None \notin Users \cup Revisions

VARIABLES
  docs,        \* metaldocs.documents.status
  outbox,      \* outbox_events, by idempotency key
  notifs,      \* notifications
  pdf,         \* revisions whose final_pdf_s3_key is set
  dispatched,  \* revisions whose PDF job was published without an error
  workers,     \* what each worker holds in memory
  faults       \* failures so far, conversions of Flaky left out

outboxVars == <<outbox, notifs, pdf, dispatched, workers>>

Statuses == {"DRAFT", "IN_REVIEW", "APPROVED", "PUBLISHED", "ARCHIVED"}
NoKey == <<"", 0>>
Ids == 0..MaxRequests   \* 0: an approval from before
RequestedKey(a) == <<"requested", a>>
DecisionedKey(a) == <<"decisioned", a>>
ReminderKey(d) == <<"reminder", d>>
Keys == {NoKey} \cup {RequestedKey(a) : a \in Ids}
          \cup {DecisionedKey(a) : a \in Ids}
Asleep == [pc |-> "idle", todo |-> {}, cur |-> None]

OutboxInit ==
  /\ outbox = [k \in {} |-> None]
  /\ notifs = {}
  /\ pdf = {} /\ dispatched = {}
  /\ workers = [w \in Workers |-> Asleep]
  /\ faults = 0

Fault == faults < MaxFaults /\ faults' = faults + 1
NoFault == UNCHANGED faults

-----------------------------------------------------------------------------
(* Publishing.                                                             *)

Publish(key, to, rev) ==
  outbox' = [k \in DOMAIN outbox \cup {key} |->
               IF k \in DOMAIN outbox THEN outbox[k]
               ELSE [pub |-> FALSE, dead |-> FALSE, due |-> TRUE,
                     tries |-> 0, to |-> to, rev |-> rev]]

\* After the approval of a revision commits: the job is published once, and
\* an error is only logged.  The event has neither an id nor a key.
Dispatch(v) ==
  /\ v \notin dispatched
  /\ Publish(NoKey, None, v)
  /\ dispatched' = dispatched \cup {v}
  /\ NoFault /\ UNCHANGED <<docs, notifs, pdf, workers>>

-----------------------------------------------------------------------------
(* Claiming and marking.                                                   *)

Claimable == {k \in DOMAIN outbox : /\ ~outbox[k].pub
                                    /\ ~outbox[k].dead
                                    /\ outbox[k].due}
Go(w, pc, todo, cur) ==
  workers' = [workers EXCEPT ![w] = [pc |-> pc, todo |-> todo, cur |-> cur]]
Abort(w) == Go(w, "idle", {}, None)

ClaimUnpublished(w) ==
  /\ workers[w].pc = "idle"
  /\ \E S \in SUBSET Claimable :
       /\ Cardinality(S) = Min({Batch, Cardinality(Claimable)})
       /\ outbox' = [k \in DOMAIN outbox |->
                       IF k \in S
                       THEN [outbox[k] EXCEPT !.due = FALSE,
                               !.tries = Min({@ + 1, MaxAttempts})]
                       ELSE outbox[k]]
       /\ Go(w, "batch", {[key |-> k, tries |-> outbox'[k].tries] : k \in S},
             None)
  /\ NoFault /\ UNCHANGED <<docs, notifs, pdf, dispatched>>

\* next_attempt_at passes: the claim lease, or the back-off of a failure.
Lapse(k) ==
  /\ k \in DOMAIN outbox
  /\ ~outbox[k].pub /\ ~outbox[k].due
  /\ outbox' = [outbox EXCEPT ![k].due = TRUE]
  /\ NoFault /\ UNCHANGED <<docs, notifs, pdf, dispatched, workers>>

MarkPublished(w) ==
  /\ workers[w].pc = "ok"
  /\ \/ /\ outbox' = [outbox EXCEPT ![workers[w].cur.key].pub = TRUE,
                                    ![workers[w].cur.key].due = TRUE]
        /\ Go(w, "batch", workers[w].todo, None)
        /\ NoFault
     \/ Fault /\ Abort(w) /\ UNCHANGED outbox
  /\ UNCHANGED <<docs, notifs, pdf, dispatched>>

MarkFailed(key, dead) ==
  outbox' = [outbox EXCEPT ![key].pub = FALSE, ![key].dead = dead,
                           ![key].due = dead]

\* The job of a PDF has no event id: MarkFailed refuses it, and the error
\* ends the batch.
markFailure(w) ==
  /\ workers[w].pc = "failed"
  /\ LET c == workers[w].cur IN
     \/ /\ c.key # NoKey
        /\ MarkFailed(c.key, c.tries >= MaxAttempts)
        /\ Go(w, "batch", workers[w].todo, None)
        /\ NoFault
     \/ /\ c.key = NoKey
        /\ Abort(w) /\ NoFault /\ UNCHANGED outbox
     \/ Fault /\ Abort(w) /\ UNCHANGED outbox
  /\ UNCHANGED <<docs, notifs, pdf, dispatched>>

-----------------------------------------------------------------------------
(* Notifications.                                                          *)

NewNotif(key, to) ==
  [id |-> Cardinality(notifs) + 1, key |-> key, to |-> to, read |-> FALSE]

\* INSERT ... ON CONFLICT (idempotency_key) DO NOTHING.
Create_NoIndex(key, to) == notifs' = notifs \cup {NewNotif(key, to)}
Create(key, to) ==
  notifs' = IF \E n \in notifs : n.key = key THEN notifs
            ELSE notifs \cup {NewNotif(key, to)}

MarkRead(n, u) ==
  /\ n.to = u
  /\ notifs' = (notifs \ {n}) \cup {[n EXCEPT !.read = TRUE]}

\* POST /notifications/{id}/read
handleNotificationRoute(u) ==
  /\ \E n \in notifs : MarkRead(n, u)
  /\ NoFault /\ UNCHANGED <<docs, outbox, pdf, dispatched, workers>>

\* The newest Limit notifications of a user.
List(u) ==
  LET mine == {n \in notifs : n.to = u}
  IN  {n \in mine : Cardinality({m \in mine : m.id > n.id}) < Limit}

\* GET /notifications: one's own, an administrator's anyone's.
handleNotifications(u, admin, who) ==
  IF who = u \/ admin THEN List(who) ELSE {}

ListDocumentsForReviewReminder ==
  {d \in Expiring : docs[d] \in {"APPROVED", "PUBLISHED"}}

Reminders(S) ==
  LET new == {d \in S : \A n \in notifs : n.key # ReminderKey(d)}
  IN  {{[id |-> Cardinality(notifs) + f[d], key |-> ReminderKey(d),
         to |-> Owner[d], read |-> FALSE] : d \in new} :
       f \in {g \in [new -> 1..Cardinality(new)] :
                \A d, e \in new : d # e => g[d] # g[e]}}

\* One insert per document; the first that fails ends the run.
EmitReviewReminders(w) ==
  /\ workers[w].pc = "batch" /\ workers[w].todo = {}
  /\ LET due == ListDocumentsForReviewReminder IN
     \/ /\ \E N \in Reminders(due) : notifs' = notifs \cup N
        /\ NoFault
     \/ /\ Fault
        /\ \E S \in SUBSET due : /\ S # due
                                 /\ \E N \in Reminders(S) : notifs' = notifs \cup N
  /\ Abort(w)
  /\ UNCHANGED <<docs, outbox, pdf, dispatched>>

-----------------------------------------------------------------------------
(* The worker.                                                             *)

Handled_Swallowed(w, c, ok) == Go(w, "ok", workers[w].todo \ {c}, c)
Handled(w, c, ok) ==
  Go(w, IF ok THEN "ok" ELSE "failed", workers[w].todo \ {c}, c)

Notify(w, c) ==
  \/ /\ IF outbox[c.key].to = None THEN UNCHANGED notifs
        ELSE Create(c.key, outbox[c.key].to)
     /\ Handled(w, c, TRUE) /\ NoFault
  \/ Fault /\ Handled(w, c, FALSE) /\ UNCHANGED notifs
handleApprovalRequested(w, c) == c.key[1] = "requested" /\ Notify(w, c)
handleApprovalDecisioned(w, c) == c.key[1] = "decisioned" /\ Notify(w, c)
HandleEvent(w, c) ==
  /\ handleApprovalRequested(w, c) \/ handleApprovalDecisioned(w, c)
  /\ UNCHANGED pdf

\* ConvertPDF, then WritePDF; one of the two may fail, and may fail again
\* however often the job is claimed.
HandlePDF(w, c) ==
  /\ c.key = NoKey
  /\ \/ /\ pdf' = pdf \cup {outbox[c.key].rev}
        /\ Handled(w, c, TRUE) /\ NoFault
     \/ /\ IF outbox[c.key].rev \in Flaky THEN NoFault ELSE Fault
        /\ Handled(w, c, FALSE) /\ UNCHANGED pdf
  /\ UNCHANGED notifs

HandleOne_MarkFirst(w) ==
  /\ workers[w].pc = "batch"
  /\ \E c \in workers[w].todo :
       /\ outbox' = [outbox EXCEPT ![c.key].pub = TRUE]
       /\ HandlePDF(w, c) \/ HandleEvent(w, c)
  /\ UNCHANGED <<docs, dispatched>>
HandleOne(w) ==
  /\ workers[w].pc = "batch"
  /\ \E c \in workers[w].todo : HandlePDF(w, c) \/ HandleEvent(w, c)
  /\ UNCHANGED <<docs, outbox, dispatched>>

\* One pass of the worker's loop; an error of a pass is logged, and the next
\* tick starts another one.
RunOnce(w) ==
  \/ ClaimUnpublished(w)
  \/ HandleOne(w)
  \/ MarkPublished(w)
  \/ markFailure(w)
  \/ EmitReviewReminders(w)

Crash(w) ==
  /\ workers[w] # Asleep
  /\ Fault /\ Abort(w)
  /\ UNCHANGED <<docs, outbox, notifs, pdf, dispatched>>

OutboxNext ==
  \/ \E w \in Workers : RunOnce(w) \/ Crash(w)
  \/ \E k \in Keys : Lapse(k)
  \/ \E v \in Revisions : Dispatch(v)
  \/ \E u \in Users : handleNotificationRoute(u)

-----------------------------------------------------------------------------
(* Properties.                                                             *)

OutboxTypeOK ==
  /\ docs \in [Docs -> Statuses]
  /\ DOMAIN outbox \subseteq Keys
  /\ \A k \in DOMAIN outbox :
       outbox[k] \in [pub : BOOLEAN, dead : BOOLEAN, due : BOOLEAN,
                      tries : 0..MaxAttempts, to : Users \cup {None},
                      rev : Revisions \cup {None}]
  /\ \A n \in notifs :
       n \in [id : Nat, key : Keys \cup {ReminderKey(d) : d \in Docs},
              to : Users, read : BOOLEAN]
  /\ pdf \subseteq dispatched /\ dispatched \subseteq Revisions
  /\ \A w \in Workers :
       /\ workers[w].pc \in {"idle", "batch", "ok", "failed"}
       /\ \A c \in workers[w].todo : c.key \in DOMAIN outbox
  /\ faults \in 0..MaxFaults

(***************************************************************************)
(* At-least-once: an event that is marked published was handled.  Its      *)
(* notification exists, or its PDF is written, whichever worker marked it, *)
(* however late, after any crash and any redelivery, and one that is given *)
(* up was claimed MaxAttempts times, although each worker decides from the *)
(* count it read when it claimed the event                                 *)
(* (worker/service.go RunOnce, outbox/postgres/consumer.go).               *)
(***************************************************************************)
PublishedHandled ==
  /\ OutboxTypeOK
  /\ \A k \in DOMAIN outbox :
       /\ outbox[k].pub =>
            /\ outbox[k].to # None => \E n \in notifs : n.key = k
            /\ outbox[k].rev # None => outbox[k].rev \in pdf
       /\ outbox[k].dead => outbox[k].tries = MaxAttempts

(***************************************************************************)
(* Exactly-once for the reader: a redelivered event, or a reminder         *)
(* computed again by every pass of every worker, never adds a second       *)
(* notification and never brings one that was read back as unread          *)
(* (notifications/infrastructure/postgres/repository.go).                  *)
(***************************************************************************)
OneNotification ==
  [][/\ \A n \in notifs : n.read => n \in notifs'
     /\ \A m, n \in notifs' : m.key = n.key => m = n]_notifs
=============================================================================
