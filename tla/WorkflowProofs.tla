--------------------------- MODULE WorkflowProofs ---------------------------
(***************************************************************************)
(* Theorems about the legacy workflow, the outbox it publishes to and the  *)
(* workers that drain it: an event marked as published was handled, nobody *)
(* gets a second notification, and every notification has its audit        *)
(* record, for any number of requests, workers, attempts and faults.  The  *)
(* invariant relates what a worker carries between two statements (the     *)
(* claims of its batch, the event it has just handled) and what a request  *)
(* carries (the approval it read) to the rows.                             *)
(***************************************************************************)
EXTENDS Workflow, FiniteSetTheorems, WellFoundedInduction, TLAPS

Claim == [key : Keys, tries : 0..MaxAttempts]
Row == [pub : BOOLEAN, dead : BOOLEAN, due : BOOLEAN,
        tries : 0..MaxAttempts, to : Users \cup {None},
        rev : Revisions \cup {None}]
Notif == [id : Nat, key : Keys \cup {ReminderKey(d) : d \in Docs},
          to : Users, read : BOOLEAN]
Worker == [pc : {"idle", "batch", "ok", "failed"}, todo : SUBSET Claim,
           cur : Claim \cup {None}]
Request == [pc : {"request", "decide", "decided", "move", "audit", "undo",
                  "undone", "publish"},
            doc : Docs, from : Statuses, to : Statuses, actor : Users,
            reviewer : Users \cup {None}, approval : Ids \cup {None},
            prev : Approval \cup {None}, at : Ids]

-----------------------------------------------------------------------------
(* The inductive invariant.                                                *)

\* What the event of a row was for is there.
Done(k) ==
  /\ outbox[k].to # None => \E n \in notifs : n.key = k
  /\ outbox[k].rev # None => outbox[k].rev \in pdf

\* The transition that an event or a notification reports was recorded.
Told(key, to) ==
  key[1] \in {"requested", "decisioned"} =>
    \E x \in audits :
      /\ x.approval = key[2]
      /\ IF key[1] = "requested" THEN x.to = "IN_REVIEW" /\ x.reviewer = to
         ELSE x.to \in {"APPROVED", "DRAFT"} /\ x.by = x.reviewer

\* A row has its type, is published only when it was handled and dead only
\* after the last attempt; only the job of a PDF has a revision.
RowOK(k) ==
  /\ outbox[k] \in Row
  /\ outbox[k].pub => Done(k)
  /\ outbox[k].dead => outbox[k].tries = MaxAttempts
  /\ k = NoKey => outbox[k].to = None /\ outbox[k].rev \in dispatched
  /\ k # NoKey => outbox[k].rev = None
  /\ Told(k, outbox[k].to)
RowsOK ==
  /\ DOMAIN outbox \subseteq Keys
  /\ \A k \in DOMAIN outbox : RowOK(k)

NotifOK(n) == n \in Notif /\ Told(n.key, n.to)
NotifsOK ==
  /\ IsFiniteSet(notifs)
  /\ \A n \in notifs : NotifOK(n)
  /\ \A m, n \in notifs : m.key = n.key => m = n

\* A claim is of a row, which has been claimed at least as often since.
ClaimOK(c) == c.key \in DOMAIN outbox /\ c.tries <= outbox[c.key].tries

\* A worker that is about to mark an event as published has handled it.
WorkerOK(x) ==
  /\ x \in Worker
  /\ \A c \in x.todo : ClaimOK(c)
  /\ x.pc \in {"ok", "failed"} => x.cur \in Claim /\ ClaimOK(x.cur)
  /\ x.pc = "ok" => Done(x.cur.key)
WorkersOK ==
  /\ workers \in [Workers -> Worker]
  /\ \A w \in Workers : WorkerOK(workers[w])

CountersOK ==
  /\ docs \in [Docs -> Statuses] /\ faults \in 0..MaxFaults
  /\ pdf \subseteq dispatched /\ dispatched \subseteq Revisions

\* A request knows which approval it creates or decides, decides only as the
\* reviewer, and publishes only what it has recorded.
RequestOK(q) ==
  /\ q.pc = "request" => q.to = "IN_REVIEW" /\ q.reviewer \in Users /\ q.prev = None
  /\ q.pc = "decide" => q.to \in {"APPROVED", "DRAFT"}
  /\ q.prev # None => /\ q.approval # None /\ q.to \in {"APPROVED", "DRAFT"}
                      /\ q.prev.reviewer = q.actor
  /\ q.approval # None /\ q.prev = None =>
       q.to = "IN_REVIEW" /\ q.reviewer \in Users
  /\ q.pc = "publish" => AuditEvent(q) \in audits
ReqOK(q) == q = Idle \/ (q \in Request /\ RequestOK(q))
ReqsOK == /\ reqs \in [Requests -> {Idle} \cup Request]
          /\ \A r \in Requests : ReqOK(reqs[r])

ApprovalsOK ==
  /\ DOMAIN approvals \subseteq Ids
  /\ \A a \in DOMAIN approvals : approvals[a] \in Approval
  /\ sent \in 0..MaxRequests

OutboxInv == CountersOK /\ RowsOK /\ NotifsOK /\ WorkersOK
WfInv == OutboxInv /\ ReqsOK /\ ApprovalsOK

-----------------------------------------------------------------------------
(* Every step only adds: rows keep whom and what they are for and are not  *)
(* claimed less often, notifications stay, read ones as they are, and so   *)
(* do PDFs, jobs and audit records.                                        *)
RowsGrow ==
  /\ DOMAIN outbox \subseteq DOMAIN outbox'
  /\ \A k \in DOMAIN outbox :
       /\ outbox'[k].to = outbox[k].to /\ outbox'[k].rev = outbox[k].rev
       /\ outbox[k].tries <= outbox'[k].tries
NotifsGrow ==
  /\ \A n \in notifs : \E m \in notifs' : m.key = n.key
  /\ \A n \in notifs : n.read => n \in notifs'
Grows ==
  /\ RowsGrow /\ NotifsGrow
  /\ pdf \subseteq pdf' /\ dispatched \subseteq dispatched' /\ audits \subseteq audits'

(* What an event was for stays there.                                      *)
LEMMA DoneKept ==
  ASSUME NEW k \in DOMAIN outbox, Grows, Done(k)
  PROVE  Done(k)'
BY DEF Grows, RowsGrow, NotifsGrow, Done

(* What was recorded stays recorded.                                       *)
LEMMA ToldKept ==
  ASSUME NEW k, NEW u, audits \subseteq audits', Told(k, u)
  PROVE  Told(k, u)'
BY DEF Told

(* The tries of two rows can be compared.                                  *)
LEMMA TriesType ==
  ASSUME NEW k \in DOMAIN outbox, RowsOK
  PROVE  outbox[k].tries \in Int /\ 0 <= outbox[k].tries /\ outbox[k].tries <= MaxAttempts
BY OutboxAssumption DEF RowsOK, RowOK, Row

(* A worker that does nothing still has good claims.                       *)
LEMMA ClaimKept ==
  ASSUME NEW c \in Claim, ClaimOK(c), Grows, RowsOK, RowsOK'
  PROVE  ClaimOK(c)'
<1>1. c.key \in DOMAIN outbox /\ c.key \in DOMAIN outbox'
  BY DEF ClaimOK, Grows, RowsGrow
<1>2. outbox[c.key].tries \in Int /\ outbox'[c.key].tries \in Int
  BY <1>1, OutboxAssumption DEF RowsOK, RowOK, Row
<1>3. c.tries \in Int
  BY OutboxAssumption DEF Claim
<1>4. c.tries <= outbox[c.key].tries /\ outbox[c.key].tries <= outbox'[c.key].tries
  BY <1>1 DEF ClaimOK, Grows, RowsGrow
<1> QED
  BY <1>1, <1>2, <1>3, <1>4 DEF ClaimOK

LEMMA WorkerKept ==
  ASSUME NEW x, WorkerOK(x), Grows, RowsOK, RowsOK'
  PROVE  WorkerOK(x)'
<1>1. x \in Worker
  BY DEF WorkerOK
<1>2. \A c \in x.todo : ClaimOK(c)'
  <2> TAKE c \in x.todo
  <2>1. c \in Claim
    BY <1>1 DEF Worker
  <2> QED
    BY <2>1, ClaimKept DEF WorkerOK
<1>3. ASSUME x.pc \in {"ok", "failed"} PROVE x.cur \in Claim /\ ClaimOK(x.cur)'
  BY <1>3, ClaimKept DEF WorkerOK
<1>4. ASSUME x.pc = "ok" PROVE Done(x.cur.key)'
  <2>1. Done(x.cur.key) /\ x.cur.key \in DOMAIN outbox
    BY <1>4 DEF WorkerOK, ClaimOK
  <2> QED
    BY <2>1, DoneKept
<1> QED
  BY <1>1, <1>2, <1>3, <1>4 DEF WorkerOK

(* The workers after a step in which one of them moves on.                 *)
LEMMA WorkersStep ==
  ASSUME WorkersOK, RowsOK, RowsOK', Grows, NEW w \in Workers, NEW y,
         workers' = [workers EXCEPT ![w] = y], WorkerOK(y)'
  PROVE  WorkersOK'
<1>1. y \in Worker
  BY DEF WorkerOK
<1>2. workers' \in [Workers -> Worker]
  BY <1>1 DEF WorkersOK
<1>3. ASSUME NEW v \in Workers PROVE WorkerOK(workers[v])'
  <2>1. CASE v = w
    <3>1. workers'[v] = y
      BY <2>1 DEF WorkersOK
    <3> QED
      BY <3>1
  <2>2. CASE v # w
    <3>1. PICK x : x = workers[v]
      OBVIOUS
    <3>2. workers'[v] = x
      BY <2>2, <3>1 DEF WorkersOK
    <3>3. WorkerOK(x)
      BY <3>1 DEF WorkersOK
    <3>4. WorkerOK(x)'
      BY <3>3, WorkerKept
    <3> QED
      BY <3>2, <3>4
  <2> QED
    BY <2>1, <2>2
<1> QED
  BY <1>2, <1>3 DEF WorkersOK

LEMMA WorkersKept ==
  ASSUME WorkersOK, RowsOK, RowsOK', Grows, UNCHANGED workers
  PROVE  WorkersOK'
<1>1. workers' \in [Workers -> Worker]
  BY DEF WorkersOK
<1>2. ASSUME NEW v \in Workers PROVE WorkerOK(workers[v])'
  <2>1. PICK x : x = workers[v]
    OBVIOUS
  <2>2. WorkerOK(x)
    BY <2>1 DEF WorkersOK
  <2>3. WorkerOK(x)'
    BY <2>2, WorkerKept
  <2> QED
    BY <2>1, <2>3
<1> QED
  BY <1>1, <1>2 DEF WorkersOK

(* Rows, when none is written.                                             *)
LEMMA RowsKept ==
  ASSUME RowsOK, Grows, UNCHANGED outbox
  PROVE  RowsOK'
<1>1. ASSUME NEW k \in DOMAIN outbox PROVE RowOK(k)'
  <2>1. RowOK(k)
    BY DEF RowsOK
  <2>2. outbox[k].pub => Done(k)'
    BY <2>1, DoneKept DEF RowOK
  <2>3. PICK u : u = outbox[k].to
    OBVIOUS
  <2>4. Told(k, u)'
    BY <2>1, <2>3, ToldKept DEF RowOK, Grows
  <2> QED
    BY <2>1, <2>2, <2>3, <2>4 DEF RowOK, Grows
<1> QED
  BY <1>1 DEF RowsOK

(* Notifications, when none is written.                                    *)
LEMMA NotifsKept ==
  ASSUME NotifsOK, audits \subseteq audits', UNCHANGED notifs
  PROVE  NotifsOK'
<1>1. ASSUME NEW n \in notifs PROVE NotifOK(n)'
  BY ToldKept DEF NotifsOK, NotifOK
<1> QED
  BY <1>1 DEF NotifsOK

-----------------------------------------------------------------------------
(* One lemma per action of the outbox and the workers.                     *)

GoodStep == OutboxInv' /\ Grows

NoneKeys == None \notin Users /\ None \notin Revisions

LEMMA NoneNowhere == NoneKeys
BY OutboxAssumption DEF NoneKeys

(* A published row is new, or the row that was there under that key.       *)
LEMMA PublishRows ==
  ASSUME RowsOK, NEW key \in Keys, NEW u \in Users \cup {None},
         NEW v \in Revisions \cup {None}, Publish(key, u, v),
         NotifsGrow, UNCHANGED <<pdf, audits>>, dispatched \subseteq dispatched',
         key = NoKey => u = None /\ v \in dispatched',
         key # NoKey => v = None,
         Told(key, u)
  PROVE  RowsOK' /\ Grows
<1> DEFINE new == [pub |-> FALSE, dead |-> FALSE, due |-> TRUE,
                   tries |-> 0, to |-> u, rev |-> v]
<1>1. /\ DOMAIN outbox' = DOMAIN outbox \cup {key}
      /\ \A k \in DOMAIN outbox : outbox'[k] = outbox[k]
      /\ key \notin DOMAIN outbox => outbox'[key] = new
  BY DEF Publish
<1>2. RowsGrow
  BY <1>1, TriesType DEF RowsGrow
<1>3. Grows
  BY <1>2 DEF Grows
<1>4. ASSUME NEW k \in DOMAIN outbox PROVE RowOK(k)'
  <2>1. RowOK(k)
    BY DEF RowsOK
  <2>2. outbox[k].pub => Done(k)'
    BY <2>1, <1>3, DoneKept DEF RowOK
  <2>3. PICK t : t = outbox[k].to
    OBVIOUS
  <2>4. Told(k, t)'
    BY <2>1, <2>3, ToldKept DEF RowOK
  <2>5. outbox'[k] = outbox[k]
    BY <1>1
  <2> QED
    BY <2>1, <2>2, <2>3, <2>4, <2>5 DEF RowOK
<1>5. ASSUME key \notin DOMAIN outbox PROVE RowOK(key)'
  <2>1. new \in Row
    BY OutboxAssumption DEF Row
  <2>2. Told(key, u)'
    BY ToldKept
  <2>3. outbox'[key] = new
    BY <1>1, <1>5
  <2> QED
    BY <2>1, <2>2, <2>3 DEF RowOK
<1> QED
  BY <1>1, <1>3, <1>4, <1>5 DEF RowsOK

LEMMA DispatchStep ==
  ASSUME OutboxInv, NEW v \in Revisions, Dispatch(v), UNCHANGED audits
  PROVE  GoodStep
<1>1. Told(NoKey, None)
  BY DEF Told, NoKey
<1>2. NotifsGrow
  BY DEF NotifsGrow, Dispatch
<1>3. RowsOK' /\ Grows
  <2>1. NoKey \in Keys
    BY DEF Keys
  <2>2. dispatched \subseteq dispatched' /\ v \in dispatched'
    BY DEF Dispatch
  <2>3. Publish(NoKey, None, v) /\ UNCHANGED <<pdf, audits>>
    BY DEF Dispatch
  <2>4. RowsOK
    BY DEF OutboxInv
  <2> QED
    BY <1>1, <1>2, <2>1, <2>2, <2>3, <2>4, PublishRows
<1>4. NotifsOK'
  BY NotifsKept DEF Dispatch, OutboxInv
<1>5. WorkersOK'
  BY <1>3, WorkersKept DEF Dispatch, OutboxInv
<1>6. CountersOK'
  BY DEF Dispatch, OutboxInv, CountersOK, NoFault
<1> QED
  BY <1>3, <1>4, <1>5, <1>6 DEF GoodStep, OutboxInv

(* Rows that are written without being handled.                            *)
LEMMA RowsWritten ==
  ASSUME RowsOK, UNCHANGED <<notifs, pdf, dispatched, audits>>,
         DOMAIN outbox' = DOMAIN outbox,
         \A k \in DOMAIN outbox :
           /\ outbox'[k] \in Row
           /\ outbox'[k].to = outbox[k].to /\ outbox'[k].rev = outbox[k].rev
           /\ outbox[k].tries <= outbox'[k].tries
           /\ outbox'[k].pub => outbox[k].pub \/ Done(k)
           /\ outbox'[k].dead => outbox'[k].tries = MaxAttempts
  PROVE  RowsOK' /\ Grows
<1>1. Grows
  BY DEF Grows, RowsGrow, NotifsGrow
<1>2. ASSUME NEW k \in DOMAIN outbox PROVE RowOK(k)'
  <2>1. RowOK(k)
    BY DEF RowsOK
  <2>2. outbox'[k].pub => Done(k)'
    BY <2>1, <1>1, DoneKept DEF RowOK
  <2>3. PICK t : t = outbox[k].to
    OBVIOUS
  <2>4. Told(k, t)'
    BY <2>1, <2>3, ToldKept DEF RowOK
  <2>5. Told(k, outbox[k].to)'
    BY <2>3, <2>4
  <2> QED
    BY <2>1, <2>2, <2>5 DEF RowOK
<1> QED
  BY <1>1, <1>2 DEF RowsOK

LEMMA MinOfTwo ==
  ASSUME NEW a \in Int, NEW b \in Int
  PROVE  Min({a, b}) = IF a <= b THEN a ELSE b
BY DEF Min

(* A worker that puts down what it held, or goes back to its batch.        *)
LEMMA AsleepOK ==
  ASSUME NEW y, y = [pc |-> "idle", todo |-> {}, cur |-> None]
  PROVE  WorkerOK(y)'
BY DEF WorkerOK, Worker

LEMMA BackToBatch ==
  ASSUME NEW x, WorkerOK(x), Grows, RowsOK, RowsOK', NEW y,
         y = [pc |-> "batch", todo |-> x.todo, cur |-> None]
  PROVE  WorkerOK(y)'
<1>1. WorkerOK(x)'
  BY WorkerKept
<1> QED
  BY <1>1 DEF WorkerOK, Worker

LEMMA AbortStep ==
  ASSUME OutboxInv, NEW w \in Workers, Abort(w), RowsOK', Grows
  PROVE  WorkersOK'
<1>1. PICK y : y = [pc |-> "idle", todo |-> {}, cur |-> None]
  OBVIOUS
<1>2. WorkerOK(y)'
  BY <1>1, AsleepOK
<1>3. workers' = [workers EXCEPT ![w] = y]
  BY <1>1 DEF Abort, Go
<1> QED
  BY <1>2, <1>3, WorkersStep DEF OutboxInv

LEMMA BackStep ==
  ASSUME OutboxInv, NEW w \in Workers, Go(w, "batch", workers[w].todo, None),
         RowsOK', Grows
  PROVE  WorkersOK'
<1>1. PICK x : x = workers[w]
  OBVIOUS
<1>2. PICK y : y = [pc |-> "batch", todo |-> x.todo, cur |-> None]
  OBVIOUS
<1>3. WorkerOK(x)
  BY <1>1 DEF OutboxInv, WorkersOK
<1>4. WorkerOK(y)'
  BY <1>2, <1>3, BackToBatch DEF OutboxInv
<1>5. workers' = [workers EXCEPT ![w] = y]
  BY <1>1, <1>2 DEF Go
<1> QED
  BY <1>4, <1>5, WorkersStep DEF OutboxInv

LEMMA ClaimStep ==
  ASSUME OutboxInv, NEW w \in Workers, ClaimUnpublished(w), UNCHANGED audits
  PROVE  GoodStep
<1>1. PICK S \in SUBSET Claimable :
        /\ outbox' = [k \in DOMAIN outbox |->
                       IF k \in S
                       THEN [outbox[k] EXCEPT !.due = FALSE,
                               !.tries = Min({@ + 1, MaxAttempts})]
                       ELSE outbox[k]]
        /\ Go(w, "batch", {[key |-> k, tries |-> outbox'[k].tries] : k \in S}, None)
  BY DEF ClaimUnpublished
<1>2. UNCHANGED <<docs, notifs, pdf, dispatched, faults>>
  BY DEF ClaimUnpublished, NoFault
<1>3. RowsOK
  BY DEF OutboxInv
<1>4. DOMAIN outbox' = DOMAIN outbox
  BY <1>1
<1>5. ASSUME NEW k \in DOMAIN outbox
      PROVE  /\ outbox'[k] \in Row
             /\ outbox'[k].to = outbox[k].to /\ outbox'[k].rev = outbox[k].rev
             /\ outbox[k].tries <= outbox'[k].tries
             /\ outbox'[k].pub => outbox[k].pub
             /\ outbox'[k].dead => outbox'[k].tries = MaxAttempts
  <2>1. RowOK(k) /\ outbox[k] \in Row
    BY <1>3 DEF RowsOK, RowOK
  <2>2. outbox[k].tries \in Int /\ 0 <= outbox[k].tries /\ outbox[k].tries <= MaxAttempts
    BY <1>3, TriesType
  <2>3. CASE k \notin S
    <3>1. outbox'[k] = outbox[k]
      BY <1>1, <2>3
    <3> QED
      BY <3>1, <2>1, <2>2 DEF RowOK
  <2>4. CASE k \in S
    <3> DEFINE m == Min({outbox[k].tries + 1, MaxAttempts})
    <3>1. outbox'[k] = [outbox[k] EXCEPT !.due = FALSE, !.tries = m]
      BY <1>1, <2>4
    <3>2. MaxAttempts \in Int /\ outbox[k].tries + 1 \in Int
      BY <2>2, OutboxAssumption
    <3>3. m = IF outbox[k].tries + 1 <= MaxAttempts THEN outbox[k].tries + 1
              ELSE MaxAttempts
      BY <3>2, MinOfTwo
    <3>4. m \in 0..MaxAttempts /\ outbox[k].tries <= m
      BY <3>3, <3>2, <2>2
    <3>5. ~outbox[k].dead
      BY <2>4 DEF Claimable
    <3> HIDE DEF m
    <3> QED
      BY <3>1, <3>4, <3>5, <2>1 DEF Row
  <2> QED
    BY <2>3, <2>4
<1>6. RowsOK' /\ Grows
  BY <1>2, <1>3, <1>4, <1>5, RowsWritten
<1>7. WorkersOK'
  <2>1. PICK T : T = {[key |-> k, tries |-> outbox'[k].tries] : k \in S}
    OBVIOUS
  <2>2. PICK y : y = [pc |-> "batch", todo |-> T, cur |-> None]
    OBVIOUS
  <2>3. workers' = [workers EXCEPT ![w] = y]
    BY <1>1, <2>1, <2>2 DEF Go
  <2>4. ASSUME NEW c \in T PROVE c \in Claim /\ ClaimOK(c)'
    <3>1. PICK k \in S : c = [key |-> k, tries |-> outbox'[k].tries]
      BY <2>1
    <3>2. k \in DOMAIN outbox' /\ k \in Keys
      BY <1>3, <1>4 DEF Claimable, RowsOK
    <3>3. outbox'[k].tries \in 0..MaxAttempts
      BY <3>2, <1>4, <1>5 DEF Row
    <3> QED
      BY <3>1, <3>2, <3>3, OutboxAssumption DEF Claim, ClaimOK
  <2>5. WorkerOK(y)'
    BY <2>2, <2>4 DEF WorkerOK, Worker
  <2> QED
    BY <1>6, <2>3, <2>5, WorkersStep DEF OutboxInv
<1>8. NotifsOK'
  BY <1>2, NotifsKept DEF OutboxInv
<1>9. CountersOK'
  BY <1>2 DEF OutboxInv, CountersOK
<1> QED
  BY <1>6, <1>7, <1>8, <1>9 DEF GoodStep, OutboxInv

LEMMA LapseStep ==
  ASSUME OutboxInv, NEW k \in Keys, Lapse(k), UNCHANGED audits
  PROVE  GoodStep
<1>1. /\ k \in DOMAIN outbox
      /\ outbox' = [outbox EXCEPT ![k].due = TRUE]
      /\ UNCHANGED <<docs, notifs, pdf, dispatched, workers, faults>>
  BY DEF Lapse, NoFault
<1>2. RowsOK
  BY DEF OutboxInv
<1>3. DOMAIN outbox' = DOMAIN outbox
  BY <1>1
<1>4. ASSUME NEW j \in DOMAIN outbox
      PROVE  /\ outbox'[j] \in Row
             /\ outbox'[j].to = outbox[j].to /\ outbox'[j].rev = outbox[j].rev
             /\ outbox'[j].tries = outbox[j].tries
             /\ outbox'[j].pub = outbox[j].pub
             /\ outbox'[j].dead = outbox[j].dead
  <2>1. outbox[j] \in Row
    BY <1>2 DEF RowsOK, RowOK
  <2>2. CASE j = k
    <3>1. outbox'[j] = [outbox[j] EXCEPT !.due = TRUE]
      BY <1>1, <2>2
    <3> QED
      BY <2>1, <3>1 DEF Row
  <2>3. CASE j # k
    <3>1. outbox'[j] = outbox[j]
      BY <1>1, <2>3
    <3> QED
      BY <2>1, <3>1
  <2> QED
    BY <2>2, <2>3
<1>5. RowsOK' /\ Grows
  <2>1. ASSUME NEW j \in DOMAIN outbox
        PROVE  /\ outbox[j].tries <= outbox'[j].tries
               /\ outbox'[j].dead => outbox'[j].tries = MaxAttempts
    BY <1>2, <1>4, TriesType DEF RowsOK, RowOK
  <2> QED
    BY <1>1, <1>2, <1>3, <1>4, <2>1, RowsWritten
<1>6. WorkersOK' /\ NotifsOK'
  BY <1>1, <1>5, WorkersKept, NotifsKept DEF OutboxInv
<1>7. CountersOK'
  BY <1>1 DEF OutboxInv, CountersOK
<1> QED
  BY <1>5, <1>6, <1>7 DEF GoodStep, OutboxInv

(* A statement that fails, or a crash: the worker gives up its batch.      *)
LEMMA GiveUp ==
  ASSUME OutboxInv, NEW w \in Workers, Abort(w), Fault \/ NoFault,
         UNCHANGED <<docs, outbox, notifs, pdf, dispatched, audits>>
  PROVE  GoodStep
<1>1. RowsGrow
  BY TriesType DEF OutboxInv, RowsGrow
<1>2. NotifsGrow
  BY DEF NotifsGrow
<1>3. Grows
  BY <1>1, <1>2 DEF Grows
<1>4. RowsOK'
  BY <1>3, RowsKept DEF OutboxInv
<1>5. WorkersOK'
  BY <1>3, <1>4, AbortStep
<1>6. NotifsOK'
  BY NotifsKept DEF OutboxInv
<1>7. CountersOK'
  BY OutboxAssumption DEF OutboxInv, CountersOK, Fault, NoFault
<1> QED
  BY <1>3, <1>4, <1>5, <1>6, <1>7 DEF GoodStep, OutboxInv

(* A mark of one row, after which the worker goes back to its batch.       *)
LEMMA MarkStep ==
  ASSUME OutboxInv, NEW w \in Workers, NEW k \in DOMAIN outbox,
         NEW pub \in BOOLEAN, NEW dead \in BOOLEAN, NEW due \in BOOLEAN,
         outbox' = [outbox EXCEPT ![k].pub = pub, ![k].dead = dead, ![k].due = due],
         pub => Done(k),
         dead => outbox[k].tries = MaxAttempts,
         Go(w, "batch", workers[w].todo, None), NoFault,
         UNCHANGED <<docs, notifs, pdf, dispatched, audits>>
  PROVE  GoodStep
<1>2. RowsOK
  BY DEF OutboxInv
<1>3. DOMAIN outbox' = DOMAIN outbox
  OBVIOUS
<1>4. ASSUME NEW j \in DOMAIN outbox
      PROVE  /\ outbox'[j] \in Row
             /\ outbox'[j].to = outbox[j].to /\ outbox'[j].rev = outbox[j].rev
             /\ outbox'[j].tries = outbox[j].tries
             /\ outbox'[j].pub => outbox[j].pub \/ Done(j)
             /\ outbox'[j].dead => outbox[j].tries = MaxAttempts
  <2>1. outbox[j] \in Row /\ RowOK(j)
    BY <1>2 DEF RowsOK, RowOK
  <2>2. CASE j = k
    <3>1. outbox'[j] = [outbox[j] EXCEPT !.pub = pub, !.dead = dead, !.due = due]
      BY <2>2
    <3> QED
      BY <2>1, <2>2, <3>1 DEF Row
  <2>3. CASE j # k
    <3>1. outbox'[j] = outbox[j]
      BY <2>3
    <3> QED
      BY <2>1, <3>1 DEF RowOK
  <2> QED
    BY <2>2, <2>3
<1>5. RowsOK' /\ Grows
  <2>1. ASSUME NEW j \in DOMAIN outbox
        PROVE  /\ outbox[j].tries <= outbox'[j].tries
               /\ outbox'[j].dead => outbox'[j].tries = MaxAttempts
    BY <1>2, <1>4, TriesType
  <2> QED
    BY <1>2, <1>3, <1>4, <2>1, RowsWritten
<1>6. WorkersOK'
  BY <1>5, BackStep
<1>7. NotifsOK'
  BY NotifsKept DEF OutboxInv
<1>8. CountersOK'
  BY DEF OutboxInv, CountersOK, NoFault
<1> QED
  BY <1>5, <1>6, <1>7, <1>8 DEF GoodStep, OutboxInv

LEMMA MarkPublishedStep ==
  ASSUME OutboxInv, NEW w \in Workers, MarkPublished(w), UNCHANGED audits
  PROVE  GoodStep
<1>1. UNCHANGED <<docs, notifs, pdf, dispatched>> /\ workers[w].pc = "ok"
  BY DEF MarkPublished
<1>2. CASE /\ outbox' = [outbox EXCEPT ![workers[w].cur.key].pub = TRUE,
                                       ![workers[w].cur.key].due = TRUE]
           /\ Go(w, "batch", workers[w].todo, None)
           /\ NoFault
  <2>1. PICK k : k = workers[w].cur.key
    OBVIOUS
  <2>2. k \in DOMAIN outbox /\ Done(k)
    BY <1>1, <2>1 DEF OutboxInv, WorkersOK, WorkerOK, ClaimOK
  <2>3. PICK dead : dead = outbox[k].dead
    OBVIOUS
  <2>4. outbox[k] \in Row /\ RowOK(k)
    BY <2>2 DEF OutboxInv, RowsOK, RowOK
  <2>5. dead \in BOOLEAN /\ (dead => outbox[k].tries = MaxAttempts)
    BY <2>3, <2>4 DEF RowOK, Row
  <2>6. outbox' = [outbox EXCEPT ![k].pub = TRUE, ![k].dead = dead, ![k].due = TRUE]
    <3>1. [outbox[k] EXCEPT !.pub = TRUE, !.due = TRUE]
            = [outbox[k] EXCEPT !.pub = TRUE, !.dead = dead, !.due = TRUE]
      BY <2>3, <2>4 DEF Row
    <3>2. outbox' = [outbox EXCEPT ![k] = [outbox[k] EXCEPT !.pub = TRUE, !.due = TRUE]]
      BY <1>2, <2>1
    <3> QED
      BY <3>1, <3>2
  <2> QED
    BY <1>1, <1>2, <2>2, <2>5, <2>6, MarkStep
<1>3. CASE Fault /\ Abort(w) /\ UNCHANGED outbox
  BY <1>1, <1>3, GiveUp
<1> QED
  BY <1>2, <1>3 DEF MarkPublished

LEMMA MarkFailureStep ==
  ASSUME OutboxInv, NEW w \in Workers, markFailure(w), UNCHANGED audits
  PROVE  GoodStep
<1>1. UNCHANGED <<docs, notifs, pdf, dispatched>> /\ workers[w].pc = "failed"
  BY DEF markFailure
<1>2. PICK c : c = workers[w].cur
  OBVIOUS
<1>3. CASE /\ MarkFailed(c.key, c.tries >= MaxAttempts)
           /\ Go(w, "batch", workers[w].todo, None)
           /\ NoFault
  <2>1. PICK k : k = c.key
    OBVIOUS
  <2>2. c \in Claim /\ ClaimOK(c)
    BY <1>1, <1>2 DEF OutboxInv, WorkersOK, WorkerOK
  <2>3. PICK dead \in BOOLEAN : dead = (c.tries >= MaxAttempts)
    <3>1. (c.tries >= MaxAttempts) \in BOOLEAN
      OBVIOUS
    <3> QED
      BY <3>1, Zenon
  <2>4. k \in DOMAIN outbox
    BY <2>1, <2>2 DEF ClaimOK
  <2>5. dead => outbox[k].tries = MaxAttempts
    <3>1. outbox[k].tries \in Int /\ outbox[k].tries <= MaxAttempts
      BY <2>4, TriesType DEF OutboxInv
    <3>2. c.tries \in Int /\ c.tries <= outbox[k].tries
      BY <2>1, <2>2, OutboxAssumption DEF Claim, ClaimOK
    <3>3. MaxAttempts \in Int
      BY OutboxAssumption
    <3>4. c.tries >= MaxAttempts => outbox[k].tries = MaxAttempts
      BY <3>1, <3>2, <3>3
    <3> QED
      BY <2>3, <3>4, Zenon
  <2>6. outbox' = [outbox EXCEPT ![k].pub = FALSE, ![k].dead = dead, ![k].due = dead]
    BY <1>3, <2>1, <2>3 DEF MarkFailed
  <2> QED
    BY <1>1, <1>3, <2>4, <2>5, <2>6, MarkStep
<1>4. CASE (Fault \/ NoFault) /\ Abort(w) /\ UNCHANGED outbox
  BY <1>1, <1>4, GiveUp
<1> QED
  BY <1>2, <1>3, <1>4 DEF markFailure

(* The unique index: an insert adds at most one notification per key.      *)
LEMMA CreateNotifs ==
  ASSUME NotifsOK, NEW key \in Keys, NEW u \in Users, Told(key, u), Create(key, u),
         UNCHANGED audits
  PROVE  NotifsOK' /\ NotifsGrow /\ \E n \in notifs' : n.key = key
<1>1. CASE \E n \in notifs : n.key = key
  <2>1. notifs' = notifs
    BY <1>1 DEF Create
  <2>2. NotifsOK'
    BY <2>1, NotifsKept
  <2> QED
    BY <1>1, <2>1, <2>2 DEF NotifsGrow
<1>2. CASE ~ \E n \in notifs : n.key = key
  <2>1. PICK new : new = NewNotif(key, u)
    OBVIOUS
  <2>2. notifs' = notifs \cup {new}
    BY <1>2, <2>1 DEF Create
  <2>3. Cardinality(notifs) \in Nat
    BY FS_CardinalityType DEF NotifsOK
  <2>4. new \in Notif /\ new.key = key /\ new.to = u
    BY <2>1, <2>3 DEF NewNotif, Notif
  <2>5. IsFiniteSet(notifs')
    BY <2>2, FS_AddElement DEF NotifsOK
  <2>6. NotifOK(new)'
    BY <2>4, ToldKept DEF NotifOK
  <2>7. ASSUME NEW n \in notifs PROVE NotifOK(n)'
    BY ToldKept DEF NotifsOK, NotifOK
  <2>8. \A m, n \in notifs' : m.key = n.key => m = n
    BY <1>2, <2>2, <2>4 DEF NotifsOK
  <2>9. NotifsOK'
    BY <2>2, <2>5, <2>6, <2>7, <2>8 DEF NotifsOK
  <2> QED
    BY <2>2, <2>4, <2>9 DEF NotifsGrow
<1> QED
  BY <1>1, <1>2

(* The reminders of one pass: one per document that had none.              *)
LEMMA ReminderNotifs ==
  ASSUME NotifsOK, NEW S \in SUBSET Expiring, NEW N \in Reminders(S),
         notifs' = notifs \cup N, UNCHANGED audits
  PROVE  NotifsOK' /\ NotifsGrow
<1> DEFINE new == {d \in S : \A n \in notifs : n.key # ReminderKey(d)}
<1>1. PICK f \in [new -> 1..Cardinality(new)] :
        N = {[id |-> Cardinality(notifs) + f[d], key |-> ReminderKey(d),
              to |-> Owner[d], read |-> FALSE] : d \in new}
  BY DEF Reminders
<1> DEFINE g == [d \in new |-> [id |-> Cardinality(notifs) + f[d],
                                key |-> ReminderKey(d), to |-> Owner[d],
                                read |-> FALSE]]
<1>2. Cardinality(notifs) \in Nat
  BY FS_CardinalityType DEF NotifsOK
<1>3. new \subseteq Docs
  BY OutboxAssumption
<1>4. N = {g[d] : d \in new}
  BY <1>1
<1>5. IsFiniteSet(N) /\ Cardinality(new) \in Nat
  <2>1. IsFiniteSet(new)
    BY <1>3, FS_Subset, OutboxAssumption
  <2>2. g \in Surjection(new, N)
    <3>1. g \in [new -> N]
      BY <1>4
    <3> QED
      BY <1>4, <3>1 DEF Surjection
  <2> HIDE DEF g, new
  <2> QED
    BY <2>1, <2>2, FS_Surjection, FS_CardinalityType
<1>6. ASSUME NEW d \in new
      PROVE  g[d] \in Notif /\ g[d].key = ReminderKey(d)
  <2>1. f[d] \in Nat
    <3> HIDE DEF new
    <3> QED
      BY <1>1, <1>5
  <2>2. Cardinality(notifs) + f[d] \in Nat
    BY <1>2, <2>1
  <2>3. Owner[d] \in Users /\ d \in Docs
    BY <1>3, OutboxAssumption
  <2> QED
    BY <2>2, <2>3 DEF Notif
<1>7. ASSUME NEW n \in N
      PROVE  /\ NotifOK(n)'
             /\ \A m \in notifs : m.key # n.key
             /\ \A m \in N : m.key = n.key => m = n
  <2>1. PICK d \in new : n = g[d]
    BY <1>4
  <2>2. n.key = ReminderKey(d) /\ n \in Notif
    BY <2>1, <1>6
  <2>3. Told(n.key, n.to)'
    BY <2>2 DEF Told, ReminderKey
  <2>4. \A m \in notifs : m.key # n.key
    BY <2>2
  <2>5. ASSUME NEW m \in N, m.key = n.key PROVE m = n
    <3>1. PICK e \in new : m = g[e]
      BY <1>4
    <3>2. m.key = ReminderKey(e)
      BY <3>1, <1>6
    <3>3. e = d
      BY <3>2, <2>2, <2>5 DEF ReminderKey
    <3> QED
      BY <3>1, <3>3, <2>1
  <2> QED
    BY <2>2, <2>3, <2>4, <2>5 DEF NotifOK
<1>8. ASSUME NEW n \in notifs PROVE NotifOK(n)'
  BY ToldKept DEF NotifsOK, NotifOK
<1>9. IsFiniteSet(notifs')
  BY <1>5, FS_Union DEF NotifsOK
<1>10. \A m, n \in notifs' : m.key = n.key => m = n
  BY <1>7 DEF NotifsOK
<1> QED
  BY <1>7, <1>8, <1>9, <1>10 DEF NotifsOK, NotifsGrow

LEMMA ReadStep ==
  ASSUME OutboxInv, NEW u \in Users, handleNotificationRoute(u), UNCHANGED audits
  PROVE  GoodStep
<1>1. PICK n \in notifs :
        notifs' = (notifs \ {n}) \cup {[n EXCEPT !.read = TRUE]}
  BY DEF handleNotificationRoute, MarkRead
<1>2. UNCHANGED <<docs, outbox, pdf, dispatched, workers, faults>>
  BY DEF handleNotificationRoute, NoFault
<1>3. NotifsOK /\ n \in Notif /\ NotifOK(n)
  BY DEF OutboxInv, NotifsOK, NotifOK
<1>4. PICK m : m = [n EXCEPT !.read = TRUE]
  OBVIOUS
<1>5. m \in Notif /\ m.key = n.key /\ m.to = n.to /\ (n.read => m = n)
  BY <1>3, <1>4 DEF Notif
<1>6. notifs' = (notifs \ {n}) \cup {m}
  BY <1>1, <1>4
<1>7. NotifsGrow
  BY <1>5, <1>6 DEF NotifsGrow
<1>8. NotifsOK'
  <2>1. IsFiniteSet(notifs')
    BY <1>3, <1>6, FS_AddElement, FS_RemoveElement DEF NotifsOK
  <2>2. NotifOK(m)'
    BY <1>3, <1>5, ToldKept DEF NotifOK
  <2>3. ASSUME NEW p \in notifs PROVE NotifOK(p)'
    BY <1>3, ToldKept DEF NotifsOK, NotifOK
  <2>4. \A p, q \in notifs' : p.key = q.key => p = q
    BY <1>3, <1>5, <1>6 DEF NotifsOK
  <2> QED
    BY <1>6, <2>1, <2>2, <2>3, <2>4 DEF NotifsOK
<1>9. RowsGrow
  BY <1>2, TriesType DEF OutboxInv, RowsGrow
<1>10. Grows
  BY <1>2, <1>7, <1>9 DEF Grows
<1>11. RowsOK'
  BY <1>2, <1>10, RowsKept DEF OutboxInv
<1>12. WorkersOK'
  BY <1>2, <1>10, <1>11, WorkersKept DEF OutboxInv
<1>13. CountersOK'
  BY <1>2 DEF OutboxInv, CountersOK
<1> QED
  BY <1>8, <1>10, <1>11, <1>12, <1>13 DEF GoodStep, OutboxInv

LEMMA ReminderStep ==
  ASSUME OutboxInv, NEW w \in Workers, EmitReviewReminders(w), UNCHANGED audits
  PROVE  GoodStep
<1>1. UNCHANGED <<docs, outbox, pdf, dispatched>> /\ Abort(w) /\ (Fault \/ NoFault)
  BY DEF EmitReviewReminders
<1>2. PICK S \in SUBSET Expiring : \E N \in Reminders(S) : notifs' = notifs \cup N
  BY DEF EmitReviewReminders, ListDocumentsForReviewReminder
<1>3. NotifsOK' /\ NotifsGrow
  BY <1>2, ReminderNotifs DEF OutboxInv
<1>4. RowsGrow
  BY <1>1, TriesType DEF OutboxInv, RowsGrow
<1>5. Grows
  BY <1>1, <1>3, <1>4 DEF Grows
<1>6. RowsOK'
  BY <1>1, <1>5, RowsKept DEF OutboxInv
<1>7. WorkersOK'
  BY <1>1, <1>5, <1>6, AbortStep
<1>8. CountersOK'
  BY <1>1, OutboxAssumption DEF OutboxInv, CountersOK, Fault, NoFault
<1> QED
  BY <1>3, <1>5, <1>6, <1>7, <1>8 DEF GoodStep, OutboxInv

(* An event handled: the worker will mark it as published only if what it  *)
(* was for is there.                                                       *)
LEMMA HandledStep ==
  ASSUME OutboxInv, NEW w \in Workers, NEW c \in workers[w].todo,
         NEW ok \in BOOLEAN, Handled(w, c, ok), ok => Done(c.key)',
         UNCHANGED <<docs, outbox, dispatched, audits>>, Fault \/ NoFault,
         NotifsOK', NotifsGrow, pdf \subseteq pdf', pdf' \subseteq dispatched
  PROVE  GoodStep
<1>1. RowsGrow
  BY TriesType DEF OutboxInv, RowsGrow
<1>2. Grows
  BY <1>1 DEF Grows
<1>3. RowsOK'
  BY <1>2, RowsKept DEF OutboxInv
<1>4. PICK x : x = workers[w]
  OBVIOUS
<1>5. WorkerOK(x) /\ c \in x.todo
  BY <1>4 DEF OutboxInv, WorkersOK
<1>6. PICK pc : pc = IF ok THEN "ok" ELSE "failed"
  OBVIOUS
<1>7. PICK y : y = [pc |-> pc, todo |-> x.todo \ {c}, cur |-> c]
  OBVIOUS
<1>8. workers' = [workers EXCEPT ![w] = y]
  BY <1>4, <1>6, <1>7 DEF Handled, Go
<1>9. WorkerOK(x)'
  BY <1>2, <1>3, <1>5, WorkerKept DEF OutboxInv
<1>10. WorkerOK(y)'
  <2>1. c \in Claim /\ ClaimOK(c)' /\ x.todo \in SUBSET Claim
    BY <1>5, <1>9 DEF WorkerOK, Worker
  <2>2. \A e \in x.todo : ClaimOK(e)'
    BY <1>9 DEF WorkerOK
  <2>3. pc \in {"ok", "failed"} /\ (pc = "ok" => ok)
    BY <1>6
  <2>4. pc = "ok" => Done(c.key)'
    BY <2>3
  <2>5. y \in Worker
    BY <1>7, <2>1, <2>3 DEF Worker
  <2> QED
    BY <1>7, <2>1, <2>2, <2>4, <2>5 DEF WorkerOK
<1>11. WorkersOK'
  BY <1>2, <1>3, <1>8, <1>10, WorkersStep DEF OutboxInv
<1>12. CountersOK'
  BY OutboxAssumption DEF OutboxInv, CountersOK, Fault, NoFault
<1> QED
  BY <1>2, <1>3, <1>11, <1>12 DEF GoodStep, OutboxInv

LEMMA NotifyStep ==
  ASSUME OutboxInv, NEW w \in Workers, NEW c \in workers[w].todo, Notify(w, c),
         c.key[1] \in {"requested", "decisioned"},
         UNCHANGED <<docs, outbox, dispatched, pdf, audits>>
  PROVE  GoodStep
<1>1. c \in Claim /\ ClaimOK(c)
  BY DEF OutboxInv, WorkersOK, WorkerOK, Worker
<1>2. PICK k : k = c.key
  OBVIOUS
<1>3. k \in DOMAIN outbox /\ k \in Keys /\ k # NoKey
  <2>1. NoKey[1] = ""
    BY DEF NoKey
  <2>2. k # NoKey
    BY <1>2, <2>1
  <2> QED
    BY <1>1, <1>2, <2>2 DEF ClaimOK, Claim
<1>4. RowOK(k) /\ outbox[k] \in Row
  BY <1>3 DEF OutboxInv, RowsOK, RowOK
<1>5. pdf \subseteq dispatched
  BY DEF OutboxInv, CountersOK
<1>6. CASE /\ IF outbox[k].to = None THEN UNCHANGED notifs
              ELSE Create(k, outbox[k].to)
           /\ Handled(w, c, TRUE) /\ NoFault
  <2>1. PICK u : u = outbox[k].to
    OBVIOUS
  <2>2. CASE u = None
    <3>1. NotifsOK' /\ NotifsGrow
      BY <1>6, <2>1, <2>2, NotifsKept DEF OutboxInv, NotifsGrow
    <3>2. Done(c.key)'
      BY <1>2, <1>3, <1>4, <2>1, <2>2 DEF RowOK, Done
    <3> QED
      BY <1>5, <1>6, <3>1, <3>2, HandledStep
  <2>3. CASE u # None
    <3>1. u \in Users /\ Told(k, u) /\ Create(k, u)
      BY <1>4, <1>6, <2>1, <2>3 DEF RowOK, Row
    <3>2. NotifsOK' /\ NotifsGrow /\ \E n \in notifs' : n.key = k
      BY <1>3, <3>1, CreateNotifs DEF OutboxInv
    <3>3. Done(c.key)'
      BY <1>2, <1>3, <1>4, <3>2 DEF RowOK, Done
    <3> QED
      BY <1>5, <1>6, <3>2, <3>3, HandledStep
  <2> QED
    BY <2>2, <2>3
<1>7. CASE Fault /\ Handled(w, c, FALSE) /\ UNCHANGED notifs
  <2>1. NotifsOK' /\ NotifsGrow
    BY <1>7, NotifsKept DEF OutboxInv, NotifsGrow
  <2> QED
    BY <1>5, <1>7, <2>1, HandledStep
<1> QED
  BY <1>2, <1>6, <1>7 DEF Notify

LEMMA HandlePDFStep ==
  ASSUME OutboxInv, NEW w \in Workers, NEW c \in workers[w].todo, HandlePDF(w, c),
         UNCHANGED <<docs, outbox, dispatched, audits>>
  PROVE  GoodStep
<1>1. c \in Claim /\ ClaimOK(c) /\ c.key = NoKey
  BY DEF OutboxInv, WorkersOK, WorkerOK, Worker, HandlePDF
<1>2. RowOK(NoKey) /\ NoKey \in DOMAIN outbox
  BY <1>1 DEF OutboxInv, RowsOK, ClaimOK
<1>3. NotifsOK' /\ NotifsGrow
  BY NotifsKept DEF HandlePDF, OutboxInv, NotifsGrow
<1>4. pdf \subseteq dispatched
  BY DEF OutboxInv, CountersOK
<1>5. CASE pdf' = pdf \cup {outbox[c.key].rev} /\ Handled(w, c, TRUE) /\ NoFault
  <2>1. outbox[NoKey].to = None /\ outbox[NoKey].rev \in dispatched
    BY <1>2 DEF RowOK
  <2>2. pdf \subseteq pdf' /\ pdf' \subseteq dispatched
    BY <1>1, <1>4, <1>5, <2>1
  <2>3. Done(c.key)'
    BY <1>1, <1>5, <2>1 DEF Done
  <2> QED
    BY <1>3, <1>5, <2>2, <2>3, HandledStep
<1>6. CASE (Fault \/ NoFault) /\ Handled(w, c, FALSE) /\ UNCHANGED pdf
  BY <1>3, <1>4, <1>6, HandledStep
<1> QED
  BY <1>5, <1>6 DEF HandlePDF

LEMMA HandleOneStep ==
  ASSUME OutboxInv, NEW w \in Workers, HandleOne(w), UNCHANGED audits
  PROVE  GoodStep
<1>1. PICK c \in workers[w].todo : HandlePDF(w, c) \/ HandleEvent(w, c)
  BY DEF HandleOne
<1>2. UNCHANGED <<docs, outbox, dispatched>>
  BY DEF HandleOne
<1>3. CASE HandlePDF(w, c)
  BY <1>2, <1>3, HandlePDFStep
<1>4. CASE HandleEvent(w, c)
  <2>1. /\ Notify(w, c) /\ UNCHANGED pdf
        /\ c.key[1] \in {"requested", "decisioned"}
    BY <1>4 DEF HandleEvent, handleApprovalRequested, handleApprovalDecisioned
  <2> QED
    BY <1>2, <2>1, NotifyStep
<1> QED
  BY <1>1, <1>3, <1>4

LEMMA OutboxStep ==
  ASSUME OutboxInv, OutboxNext, UNCHANGED audits
  PROVE  GoodStep
<1>1. ASSUME NEW w \in Workers, RunOnce(w) PROVE GoodStep
  BY <1>1, ClaimStep, HandleOneStep, MarkPublishedStep, MarkFailureStep,
     ReminderStep DEF RunOnce
<1>2. ASSUME NEW w \in Workers, Crash(w) PROVE GoodStep
  BY <1>2, GiveUp DEF Crash
<1> QED
  BY <1>1, <1>2, LapseStep, DispatchStep, ReadStep DEF OutboxNext

-----------------------------------------------------------------------------
(* The requests of the workflow.                                           *)

(* A request that does nothing still publishes only what was recorded.     *)
LEMMA ReqKept ==
  ASSUME NEW q, ReqOK(q), audits \subseteq audits'
  PROVE  ReqOK(q)'
BY DEF ReqOK, RequestOK, AuditEvent

LEMMA ReqsStep ==
  ASSUME ReqsOK, audits \subseteq audits', NEW r \in Requests, NEW y,
         reqs' = [reqs EXCEPT ![r] = y], ReqOK(y)'
  PROVE  ReqsOK'
<1>1. y \in {Idle} \cup Request
  BY DEF ReqOK
<1>2. reqs' \in [Requests -> {Idle} \cup Request]
  BY <1>1 DEF ReqsOK
<1>3. ASSUME NEW s \in Requests PROVE ReqOK(reqs[s])'
  <2>1. CASE s = r
    <3>1. reqs'[s] = y
      BY <2>1 DEF ReqsOK
    <3> QED
      BY <3>1
  <2>2. CASE s # r
    <3>1. PICK x : x = reqs[s]
      OBVIOUS
    <3>2. reqs'[s] = x
      BY <2>2, <3>1 DEF ReqsOK
    <3>3. ReqOK(x)'
      BY <3>1, ReqKept DEF ReqsOK
    <3> QED
      BY <3>2, <3>3
  <2> QED
    BY <2>1, <2>2
<1> QED
  BY <1>2, <1>3 DEF ReqsOK

LEMMA ReqsKept ==
  ASSUME ReqsOK, audits \subseteq audits', UNCHANGED reqs
  PROVE  ReqsOK'
<1>1. ASSUME NEW s \in Requests PROVE ReqOK(reqs[s])'
  <2>1. PICK x : x = reqs[s]
    OBVIOUS
  <2>2. ReqOK(x)'
    BY <2>1, ReqKept DEF ReqsOK
  <2> QED
    BY <2>1, <2>2
<1> QED
  BY <1>1 DEF ReqsOK

LEMMA EndStep ==
  ASSUME ReqsOK, audits \subseteq audits', NEW r \in Requests, End(r)
  PROVE  ReqsOK'
<1>1. ReqOK(Idle)'
  BY DEF ReqOK
<1> QED
  BY <1>1, ReqsStep DEF End

LEMMA IdlePC == Idle.pc = "idle"
BY DEF Idle

(* A request between two statements has its record.                        *)
LEMMA ReqFacts ==
  ASSUME ReqsOK, NEW r \in Requests, reqs[r].pc # "idle"
  PROVE  reqs[r] \in Request /\ RequestOK(reqs[r])
BY IdlePC DEF ReqsOK, ReqOK

(* A request that only moves on to its next statement, with what is to be  *)
(* recorded recorded before it publishes.                                  *)
LEMMA MoveOn ==
  ASSUME ReqsOK, audits \subseteq audits', NEW r \in Requests,
         reqs[r].pc \notin {"idle", "request", "decide"},
         NEW pc \in {"move", "audit", "undo", "undone", "publish"}, Step(r, pc),
         pc = "publish" => AuditEvent(reqs[r]) \in audits'
  PROVE  ReqsOK'
<1>1. PICK q : q = reqs[r]
  OBVIOUS
<1>2. q \in Request /\ RequestOK(q)
  BY <1>1, ReqFacts
<1>3. PICK y : y = [q EXCEPT !.pc = pc]
  OBVIOUS
<1>4. /\ y \in Request /\ y.pc = pc /\ y.doc = q.doc /\ y.to = q.to /\ y.actor = q.actor
      /\ y.reviewer = q.reviewer /\ y.approval = q.approval /\ y.prev = q.prev
  BY <1>2, <1>3 DEF Request
<1>5. AuditEvent(y) = AuditEvent(q)
  BY <1>4 DEF AuditEvent
<1>6. RequestOK(y)'
  <2>1. pc = "publish" => AuditEvent(y) \in audits'
    BY <1>1, <1>5
  <2>2. pc # "request" /\ pc # "decide"
    OBVIOUS
  <2> QED
    BY <1>2, <1>4, <2>1, <2>2 DEF RequestOK, AuditEvent
<1>7. reqs' = [reqs EXCEPT ![r] = y]
  BY <1>1, <1>3 DEF Step
<1>8. ReqOK(y)'
  BY <1>4, <1>6 DEF ReqOK
<1> QED
  BY <1>7, <1>8, ReqsStep

(* A statement of a request that leaves the outbox alone.                  *)
LEMMA QuietStep ==
  ASSUME OutboxInv, QuietOutbox, audits \subseteq audits', Fault \/ NoFault,
         docs' \in [Docs -> Statuses]
  PROVE  GoodStep
<1>1. UNCHANGED <<outbox, notifs, pdf, dispatched, workers>>
  BY DEF QuietOutbox, outboxVars
<1>2. RowsGrow
  BY <1>1, TriesType DEF OutboxInv, RowsGrow
<1>3. Grows
  BY <1>1, <1>2 DEF Grows, NotifsGrow
<1>4. RowsOK'
  BY <1>1, <1>3, RowsKept DEF OutboxInv
<1>5. WorkersOK' /\ NotifsOK'
  BY <1>1, <1>3, <1>4, WorkersKept, NotifsKept DEF OutboxInv
<1>6. CountersOK'
  BY <1>1, OutboxAssumption DEF OutboxInv, CountersOK, Fault, NoFault
<1> QED
  BY <1>3, <1>4, <1>5, <1>6 DEF GoodStep, OutboxInv

WfGood == WfInv' /\ Grows

LEMMA WfQuiet ==
  ASSUME WfInv, QuietOutbox, audits \subseteq audits', Fault \/ NoFault,
         docs' \in [Docs -> Statuses], ReqsOK', ApprovalsOK'
  PROVE  WfGood
BY QuietStep DEF WfInv, WfGood, GoodStep

LEMMA DocsType ==
  ASSUME WfInv
  PROVE  docs \in [Docs -> Statuses]
BY DEF WfInv, OutboxInv, CountersOK

LEMMA HandleTransitionStep ==
  ASSUME WfInv, NEW r \in Requests, handleTransition(r)
  PROVE  WfGood
<1>1. PICK d \in Docs, to \in Statuses, u \in Users, rv \in Users \cup {None} :
        /\ canTransition(docs[d], to)
        /\ IF to = "IN_REVIEW" THEN rv # None ELSE rv = None
        /\ reqs' = [reqs EXCEPT ![r] =
             [pc |-> IF docs[d] = "DRAFT" THEN "request"
                     ELSE IF docs[d] = "IN_REVIEW" THEN "decide" ELSE "move",
              doc |-> d, from |-> docs[d], to |-> to, actor |-> u,
              reviewer |-> rv, approval |-> None, prev |-> None,
              at |-> sent + 1]]
  BY DEF handleTransition
<1>2. PICK f : f = docs[d]
  OBVIOUS
<1>3. f \in Statuses
  BY <1>2, DocsType
<1>4. PICK pc : pc = IF f = "DRAFT" THEN "request"
                     ELSE IF f = "IN_REVIEW" THEN "decide" ELSE "move"
  OBVIOUS
<1>5. PICK at : at = sent + 1
  OBVIOUS
<1>6. at \in Ids /\ at \in 0..MaxRequests
  BY <1>5, OutboxAssumption DEF handleTransition, WfInv, ApprovalsOK, Ids
<1>7. PICK y : y = [pc |-> pc, doc |-> d, from |-> f, to |-> to, actor |-> u,
                    reviewer |-> rv, approval |-> None, prev |-> None, at |-> at]
  OBVIOUS
<1>8. reqs' = [reqs EXCEPT ![r] = y]
  BY <1>1, <1>2, <1>4, <1>5, <1>7
<1>9. pc \in {"request", "decide", "move"}
  BY <1>4
<1>10. y \in Request
  BY <1>3, <1>6, <1>7, <1>9 DEF Request
<1>11. /\ pc = "request" => to = "IN_REVIEW" /\ rv \in Users
       /\ pc = "decide" => to \in {"APPROVED", "DRAFT"}
  BY <1>1, <1>2, <1>4 DEF canTransition
<1>12. RequestOK(y)'
  BY <1>7, <1>9, <1>11 DEF RequestOK
<1>13. ReqsOK'
  BY <1>8, <1>10, <1>12, ReqsStep DEF ReqOK, handleTransition, WfInv
<1>14. ApprovalsOK'
  BY <1>5, <1>6 DEF handleTransition, WfInv, ApprovalsOK
<1> QED
  BY <1>13, <1>14, WfQuiet, DocsType DEF handleTransition

LEMMA RequestApprovalStep ==
  ASSUME WfInv, NEW r \in Requests, requestApproval(r)
  PROVE  WfGood
<1>1. PICK q : q = reqs[r]
  OBVIOUS
<1>2. q \in Request /\ RequestOK(q) /\ q.pc = "request"
  BY <1>1, ReqFacts DEF WfInv, requestApproval
<1>3. /\ q.to = "IN_REVIEW" /\ q.reviewer \in Users /\ q.prev = None
      /\ q.at \in Ids /\ q.doc \in Docs /\ q.actor \in Users
  BY <1>2 DEF RequestOK, Request
<1>4. PICK y : y = [q EXCEPT !.pc = "move", !.approval = q.at]
  OBVIOUS
<1>5. /\ y \in Request /\ y.pc = "move" /\ y.to = q.to
      /\ y.reviewer = q.reviewer /\ y.prev = None
  BY <1>2, <1>3, <1>4 DEF Request
<1>6. RequestOK(y)'
  BY <1>3, <1>5 DEF RequestOK
<1>7. reqs' = [reqs EXCEPT ![r] = y]
  BY <1>1, <1>4 DEF requestApproval
<1>8. ReqsOK'
  BY <1>5, <1>6, <1>7, ReqsStep DEF ReqOK, requestApproval, WfInv
<1>9. ApprovalsOK'
  <2>1. PICK rec : rec = [doc |-> q.doc, requester |-> q.actor, reviewer |-> q.reviewer,
                          status |-> "PENDING", by |-> None]
    OBVIOUS
  <2>2. rec \in Approval
    BY <1>3, <2>1 DEF Approval
  <2>3. approvals' = [b \in DOMAIN approvals \cup {q.at} |->
                        IF b = q.at THEN rec ELSE approvals[b]]
    BY <1>1, <2>1 DEF requestApproval, CreateApproval
  <2> QED
    BY <1>3, <2>2, <2>3 DEF requestApproval, WfInv, ApprovalsOK
<1> QED
  BY <1>8, <1>9, WfQuiet, DocsType DEF requestApproval

(* A set of approvals has a latest one, so GetLatestByDocumentID finds it  *)
(* whenever the document has any.                                          *)
LEMMA LatestExists ==
  ASSUME NEW T \in SUBSET Ids, T # {}
  PROVE  \E a \in T : \A b \in T : b <= a
<1> DEFINE U == {MaxRequests - a : a \in T}
<1>1. MaxRequests \in Nat /\ \A a \in T : a \in Int /\ 0 <= a /\ a <= MaxRequests
  BY OutboxAssumption DEF Ids
<1>2. U \subseteq Nat /\ U # {}
  BY <1>1
<1> DEFINE R == {ss \in Nat \X Nat : ss[1] < ss[2]}
<1>3. PICK x \in U : \A y \in U : ~(<<y, x>> \in R)
  <2>1. IsWellFoundedOn(R, Nat)
    BY NatLessThanWellFounded, Zenon DEF OpToRel
  <2> HIDE DEF U, R
  <2> QED
    BY <1>2, <2>1, WFMin
<1>4. \A y \in U : x <= y
  <2> HIDE DEF U
  <2> SUFFICES ASSUME NEW y \in U PROVE x <= y
    OBVIOUS
  <2>1. x \in Nat /\ y \in Nat
    BY <1>2
  <2>2. ~(y < x)
    BY <1>3, <2>1
  <2> QED
    BY <2>1, <2>2
<1>5. PICK a \in T : x = MaxRequests - a
  BY <1>3
<1>6. ASSUME NEW b \in T PROVE b <= a
  <2>1. x <= MaxRequests - b
    BY <1>4
  <2> QED
    BY <1>1, <1>5, <2>1
<1> QED
  BY <1>6

LEMMA LatestFound ==
  ASSUME ApprovalsOK, NEW d, \E b \in DOMAIN approvals : approvals[b].doc = d
  PROVE  GetLatestByDocumentID(d) \in DOMAIN approvals
<1> DEFINE T == {b \in DOMAIN approvals : approvals[b].doc = d}
<1>1. T \in SUBSET Ids /\ T # {}
  BY DEF ApprovalsOK
<1>2. PICK a \in T : \A b \in T : b <= a
  <2> HIDE DEF T
  <2> QED
    BY <1>1, LatestExists
<1>3. \E e \in DOMAIN approvals :
        /\ approvals[e].doc = d
        /\ \A b \in DOMAIN approvals : approvals[b].doc = d => b <= e
  BY <1>2
<1> QED
  BY <1>3 DEF GetLatestByDocumentID

LEMMA ReadApprovalStep ==
  ASSUME WfInv, NEW r \in Requests, readApproval(r)
  PROVE  WfGood
<1>1. PICK q : q = reqs[r]
  OBVIOUS
<1>2. q \in Request /\ RequestOK(q) /\ q.pc = "decide"
  BY <1>1, ReqFacts DEF WfInv, readApproval
<1>3. QuietOutbox /\ NoFault /\ UNCHANGED <<docs, approvals, audits, sent>>
  BY DEF readApproval
<1>4. PICK a : a = GetLatestByDocumentID(q.doc)
  OBVIOUS
<1>5. CASE End(r)
  BY <1>3, <1>5, EndStep, WfQuiet, DocsType DEF WfInv, ApprovalsOK
<1>6. CASE /\ \E b \in DOMAIN approvals : approvals[b].doc = q.doc
           /\ approvals[a].reviewer = q.actor
           /\ reqs' = [reqs EXCEPT ![r].pc = "decided", ![r].approval = a,
                                   ![r].prev = approvals[a]]
  <2>1. a \in DOMAIN approvals
    BY <1>4, <1>6, LatestFound DEF WfInv
  <2>2. PICK p : p = approvals[a]
    OBVIOUS
  <2>3. p \in Approval /\ a \in Ids
    BY <2>1, <2>2 DEF WfInv, ApprovalsOK
  <2>4. p # None /\ a # None
    BY <2>3, WfAssumption
  <2>5. PICK y : y = [q EXCEPT !.pc = "decided", !.approval = a, !.prev = p]
    OBVIOUS
  <2>6. /\ y \in Request /\ y.pc = "decided" /\ y.approval = a /\ y.prev = p
        /\ y.to = q.to /\ y.actor = q.actor
    BY <1>2, <2>3, <2>5 DEF Request
  <2>7. RequestOK(y)'
    <3>1. q.to \in {"APPROVED", "DRAFT"} /\ p.reviewer = q.actor
      BY <1>2, <1>6, <2>2 DEF RequestOK
    <3> QED
      BY <2>4, <2>6, <3>1 DEF RequestOK
  <2>8. reqs' = [reqs EXCEPT ![r] = y]
    BY <1>1, <1>6, <2>2, <2>5
  <2>9. ReqsOK'
    BY <1>3, <2>6, <2>7, <2>8, ReqsStep DEF ReqOK, WfInv
  <2> QED
    BY <1>3, <2>9, WfQuiet, DocsType DEF WfInv, ApprovalsOK
<1> QED
  BY <1>1, <1>4, <1>5, <1>6 DEF readApproval

LEMMA DecideApprovalStep ==
  ASSUME WfInv, NEW r \in Requests, decideApproval(r)
  PROVE  WfGood
<1>1. PICK q : q = reqs[r]
  OBVIOUS
<1>2. q \in Request /\ RequestOK(q) /\ q.pc = "decided"
  BY <1>1, ReqFacts DEF WfInv, decideApproval
<1>3. QuietOutbox /\ NoFault /\ UNCHANGED <<docs, audits, sent>>
  BY DEF decideApproval
<1>4. CASE End(r) /\ UNCHANGED approvals
  BY <1>3, <1>4, EndStep, WfQuiet, DocsType DEF WfInv, ApprovalsOK
<1>5. CASE /\ q.approval \in DOMAIN approvals
           /\ UpdateDecision(q.approval,
                IF q.to = "DRAFT" THEN "REJECTED" ELSE "APPROVED", q.actor)
           /\ Step(r, "move")
  <2>1. PICK s \in {"PENDING", "APPROVED", "REJECTED"} :
          s = IF q.to = "DRAFT" THEN "REJECTED" ELSE "APPROVED"
    OBVIOUS
  <2>2. PICK a : a = q.approval
    OBVIOUS
  <2>3. approvals' = [approvals EXCEPT ![a] = [@ EXCEPT !.status = s, !.by = q.actor]]
    BY <1>5, <2>1, <2>2 DEF UpdateDecision
  <2>4. a \in DOMAIN approvals /\ approvals[a] \in Approval /\ q.actor \in Users
    BY <1>2, <1>5, <2>2 DEF WfInv, ApprovalsOK, Request
  <2>5. [approvals[a] EXCEPT !.status = s, !.by = q.actor] \in Approval
    BY <2>1, <2>4 DEF Approval
  <2>6. ApprovalsOK'
    BY <1>3, <2>3, <2>4, <2>5 DEF WfInv, ApprovalsOK
  <2>7. ReqsOK'
    BY <1>1, <1>2, <1>3, <1>5, MoveOn DEF WfInv
  <2> QED
    BY <1>3, <2>6, <2>7, WfQuiet, DocsType
<1> QED
  BY <1>1, <1>4, <1>5 DEF decideApproval

(* A request that writes the status of its document, or fails to.          *)
LEMMA StatusStep ==
  ASSUME WfInv, NEW r \in Requests, moveDocument(r) \/ rollbackStatus(r)
  PROVE  WfGood
<1>1. PICK q : q = reqs[r]
  OBVIOUS
<1>2. q.pc \in {"move", "undo"} /\ QuietOutbox /\ UNCHANGED <<approvals, audits, sent>>
  BY <1>1 DEF moveDocument, rollbackStatus
<1>3. q \in Request
  BY <1>1, <1>2, ReqFacts DEF WfInv
<1>4. q.doc \in Docs /\ q.to \in Statuses /\ q.from \in Statuses
  BY <1>3 DEF Request
<1>5. ApprovalsOK'
  BY <1>2 DEF WfInv, ApprovalsOK
<1>6. CASE End(r) /\ Fault /\ UNCHANGED docs
  BY <1>2, <1>5, <1>6, EndStep, WfQuiet, DocsType DEF WfInv
<1>7. CASE /\ NoFault
           /\ \/ UpdateDocumentStatus(q.doc, q.to) /\ Step(r, "audit")
              \/ /\ UpdateDocumentStatus(q.doc, q.from) \/ UNCHANGED docs
                 /\ Step(r, "undone")
  <2>1. docs' \in [Docs -> Statuses]
    BY <1>4, <1>7, DocsType DEF UpdateDocumentStatus
  <2>2. ReqsOK'
    <3>1. PICK pc \in {"audit", "undone"} : Step(r, pc)
      BY <1>7
    <3> QED
      BY <1>1, <1>2, <3>1, MoveOn DEF WfInv
  <2> QED
    BY <1>2, <1>5, <1>7, <2>1, <2>2, WfQuiet
<1> QED
  BY <1>1, <1>6, <1>7 DEF moveDocument, rollbackStatus

LEMMA RecordAuditStep ==
  ASSUME WfInv, NEW r \in Requests, recordAudit(r)
  PROVE  WfGood
<1>1. reqs[r].pc = "audit" /\ QuietOutbox /\ UNCHANGED <<docs, approvals, sent>>
  BY DEF recordAudit
<1>2. ApprovalsOK'
  BY <1>1 DEF WfInv, ApprovalsOK
<1>3. CASE /\ audits' = audits \cup {AuditEvent(reqs[r])}
           /\ Step(r, "publish") /\ NoFault
  <2>1. ReqsOK'
    BY <1>1, <1>3, MoveOn DEF WfInv
  <2> QED
    BY <1>1, <1>2, <1>3, <2>1, WfQuiet, DocsType
<1>4. CASE Fault /\ Step(r, "undo") /\ UNCHANGED audits
  <2>1. ReqsOK'
    BY <1>1, <1>4, MoveOn DEF WfInv
  <2> QED
    BY <1>1, <1>2, <1>4, <2>1, WfQuiet, DocsType
<1> QED
  BY <1>3, <1>4 DEF recordAudit

LEMMA RollbackApprovalStep ==
  ASSUME WfInv, NEW r \in Requests, rollbackApproval(r)
  PROVE  WfGood
<1>1. PICK q : q = reqs[r]
  OBVIOUS
<1>2. q \in Request
  BY <1>1, ReqFacts DEF WfInv, rollbackApproval
<1>3. QuietOutbox /\ NoFault /\ End(r) /\ UNCHANGED <<docs, audits, sent>>
  BY DEF rollbackApproval
<1>4. q.prev = None \/ q.prev \in Approval
  BY <1>2 DEF Request
<1>5. ApprovalsOK'
  <2>1. CASE UNCHANGED approvals
    BY <1>3, <2>1 DEF WfInv, ApprovalsOK
  <2>2. CASE DeleteApproval(q.approval)
    BY <1>3, <2>2 DEF DeleteApproval, WfInv, ApprovalsOK
  <2>3. CASE q.prev # None /\ SaveState(q.approval, q.prev)
    BY <1>3, <1>4, <2>3 DEF SaveState, WfInv, ApprovalsOK
  <2> QED
    BY <1>1, <2>1, <2>2, <2>3 DEF rollbackApproval
<1> QED
  BY <1>3, <1>5, EndStep, WfQuiet, DocsType DEF WfInv

(* What a request publishes was recorded, with the reviewer it names.      *)
LEMMA RequestTold ==
  ASSUME NEW q, q \in Request, RequestOK(q), q.pc = "publish", q.approval # None
  PROVE  /\ q.prev = None => Told(RequestedKey(q.approval), q.reviewer)
         /\ q.prev # None => Told(DecisionedKey(q.approval), q.prev.requester)
<1>1. PICK x : x = AuditEvent(q)
  OBVIOUS
<1>2. x \in audits
  BY <1>1 DEF RequestOK
<1>3. CASE q.prev = None
  <2>1. q.to = "IN_REVIEW"
    BY <1>3 DEF RequestOK
  <2>2. x.approval = q.approval /\ x.to = "IN_REVIEW" /\ x.reviewer = q.reviewer
    BY <1>1, <1>3, <2>1 DEF AuditEvent
  <2> QED
    BY <1>2, <1>3, <2>2 DEF Told, RequestedKey
<1>4. CASE q.prev # None
  <2>1. q.to \in {"APPROVED", "DRAFT"} /\ q.prev.reviewer = q.actor
    BY <1>4 DEF RequestOK
  <2>2. x.approval = q.approval /\ x.to = q.to /\ x.by = x.reviewer
    BY <1>1, <1>4, <2>1 DEF AuditEvent
  <2> QED
    BY <1>2, <1>4, <2>1, <2>2 DEF Told, DecisionedKey
<1> QED
  BY <1>3, <1>4

LEMMA PublishEventsStep ==
  ASSUME WfInv, NEW r \in Requests, publishTransitionEvents(r)
  PROVE  WfGood
<1>1. PICK q : q = reqs[r]
  OBVIOUS
<1>2. q \in Request /\ RequestOK(q) /\ q.pc = "publish"
  BY <1>1, ReqFacts DEF WfInv, publishTransitionEvents
<1>3. End(r) /\ UNCHANGED <<docs, notifs, pdf, dispatched, workers, approvals, audits, sent>>
  BY DEF publishTransitionEvents
<1>4. ReqsOK' /\ ApprovalsOK'
  BY <1>3, EndStep DEF WfInv, ApprovalsOK
<1>5. CASE UNCHANGED outbox /\ (Fault \/ NoFault)
  BY <1>3, <1>4, <1>5, WfQuiet, DocsType DEF QuietOutbox, outboxVars
<1>6. CASE /\ NoFault /\ q.approval # None
           /\ \/ q.prev = None /\ Publish(RequestedKey(q.approval), q.reviewer, None)
              \/ q.prev # None /\ Publish(DecisionedKey(q.approval), q.prev.requester, None)
  <2>1. PICK key, u : /\ Publish(key, u, None) /\ Told(key, u)
                      /\ key \in Keys /\ key # NoKey /\ u \in Users \cup {None}
    <3>1. q.approval \in Ids
      BY <1>2, <1>6 DEF Request
    <3>2. NoKey[1] = ""
      BY DEF NoKey
    <3>3. CASE q.prev = None
      <4>1. RequestedKey(q.approval)[1] = "requested"
        BY DEF RequestedKey
      <4>2. RequestedKey(q.approval) \in Keys /\ RequestedKey(q.approval) # NoKey
        BY <3>1, <3>2, <4>1 DEF Keys
      <4>3. q.reviewer \in Users \cup {None}
        BY <1>2 DEF Request
      <4> QED
        BY <1>2, <1>6, <3>3, <4>2, <4>3, RequestTold
    <3>4. CASE q.prev # None
      <4>1. DecisionedKey(q.approval)[1] = "decisioned"
        BY DEF DecisionedKey
      <4>2. DecisionedKey(q.approval) \in Keys /\ DecisionedKey(q.approval) # NoKey
        BY <3>1, <3>2, <4>1 DEF Keys
      <4>3. q.prev.requester \in Users \cup {None}
        BY <1>2, <3>4 DEF Request, Approval
      <4> QED
        BY <1>2, <1>6, <3>4, <4>2, <4>3, RequestTold
    <3> QED
      BY <3>3, <3>4
  <2>2. NotifsGrow /\ UNCHANGED <<pdf, audits>> /\ dispatched \subseteq dispatched'
    BY <1>3 DEF NotifsGrow
  <2>3. RowsOK' /\ Grows
    BY <2>1, <2>2, PublishRows DEF WfInv, OutboxInv
  <2>4. NotifsOK' /\ WorkersOK'
    BY <1>3, <2>3, NotifsKept, WorkersKept DEF WfInv, OutboxInv
  <2>5. CountersOK'
    BY <1>3, <1>6 DEF WfInv, OutboxInv, CountersOK, NoFault
  <2> QED
    BY <1>4, <2>3, <2>4, <2>5 DEF WfGood, WfInv, OutboxInv
<1> QED
  BY <1>1, <1>5, <1>6 DEF publishTransitionEvents

LEMMA AbandonStep ==
  ASSUME WfInv, NEW r \in Requests, Abandon(r)
  PROVE  WfGood
<1>1. ReqsOK' /\ ApprovalsOK'
  BY EndStep DEF Abandon, WfInv, ApprovalsOK
<1> QED
  BY <1>1, WfQuiet, DocsType DEF Abandon

-----------------------------------------------------------------------------
(* The theorems.                                                           *)

LEMMA WfStep ==
  ASSUME WfInv, WfNext
  PROVE  WfGood
<1>1. ASSUME NEW r \in Requests, Transition(r) PROVE WfGood
  BY <1>1, RequestApprovalStep, ReadApprovalStep, DecideApprovalStep, StatusStep,
     RecordAuditStep, RollbackApprovalStep, PublishEventsStep DEF Transition
<1>2. ASSUME OutboxNext, UNCHANGED wfVars PROVE WfGood
  <2>1. UNCHANGED <<approvals, audits, reqs, sent>>
    BY <1>2 DEF wfVars
  <2>2. GoodStep
    BY <1>2, <2>1, OutboxStep DEF WfInv
  <2>3. ReqsOK' /\ ApprovalsOK'
    BY <2>1, ReqsKept DEF WfInv, ApprovalsOK
  <2> QED
    BY <2>2, <2>3 DEF WfGood, GoodStep, WfInv
<1> QED
  BY <1>1, <1>2, HandleTransitionStep, AbandonStep DEF WfNext

LEMMA WfStart == WfInit => WfInv
<1> SUFFICES ASSUME WfInit PROVE WfInv
  OBVIOUS
<1>1. CountersOK
  BY OutboxAssumption DEF WfInit, OutboxInit, CountersOK
<1>2. RowsOK
  BY DEF WfInit, OutboxInit, RowsOK
<1>3. NotifsOK
  BY FS_EmptySet DEF WfInit, OutboxInit, NotifsOK
<1>4. WorkersOK
  BY DEF WfInit, OutboxInit, WorkersOK, WorkerOK, Worker, Asleep
<1>5. ReqsOK
  BY DEF WfInit, ReqsOK, ReqOK
<1>6. ApprovalsOK
  <2> DEFINE old == {d \in Docs : docs[d] = "IN_REVIEW"}
  <2>1. PICK req \in Users, rev \in Users :
          approvals = [a \in IF old = {} THEN {} ELSE {0} |->
                        [doc |-> CHOOSE d \in old : TRUE, requester |-> req,
                         reviewer |-> rev, status |-> "PENDING", by |-> None]]
    BY DEF WfInit
  <2>2. sent = 0
    BY DEF WfInit
  <2>3. old # {} => (CHOOSE d \in old : TRUE) \in Docs
    OBVIOUS
  <2>4. 0 \in Ids
    BY OutboxAssumption DEF Ids
  <2>5. CASE old = {}
    BY <2>1, <2>2, <2>5, OutboxAssumption DEF ApprovalsOK
  <2>6. CASE old # {}
    <3>1. PICK d \in Docs : d = CHOOSE e \in old : TRUE
      BY <2>3, <2>6
    <3>2. [doc |-> d, requester |-> req, reviewer |-> rev, status |-> "PENDING",
           by |-> None] \in Approval
      BY DEF Approval
    <3>3. DOMAIN approvals = {0}
      BY <2>1, <2>6
    <3>4. approvals[0] \in Approval
      BY <2>1, <2>6, <3>1, <3>2
    <3> QED
      BY <2>2, <2>4, <3>3, <3>4, OutboxAssumption DEF ApprovalsOK
  <2> QED
    BY <2>5, <2>6
<1> QED
  BY <1>1, <1>2, <1>3, <1>4, <1>5, <1>6 DEF WfInv, OutboxInv

(* Workers and requests that do nothing keep the invariant.                *)
LEMMA WfStutter ==
  ASSUME WfInv, UNCHANGED vars
  PROVE  WfGood
<1>1. UNCHANGED <<docs, faults, outbox, notifs, pdf, dispatched, workers, approvals,
                  audits, reqs, sent>>
  BY DEF vars, outboxVars, wfVars
<1>2. ReqsOK' /\ ApprovalsOK'
  BY <1>1, ReqsKept DEF WfInv, ApprovalsOK
<1> QED
  BY <1>1, <1>2, WfQuiet, DocsType DEF QuietOutbox, outboxVars, NoFault

(* The invariant of the workflow, the outbox and the workers holds in      *)
(* every behaviour.                                                        *)
THEOREM WfInvariance == WfSpec => []WfInv
<1>1. WfInv /\ [WfNext]_vars => WfInv'
  BY WfStep, WfStutter DEF WfGood
<1> QED
  BY <1>1, WfStart, PTL DEF WfSpec

(* At-least-once delivery (RunOnce of the worker): an event marked as      *)
(* published was handled, and one given up had all its attempts, whichever *)
(* worker marked it and however late.                                      *)
THEOREM PublishedWasHandled == WfSpec => []PublishedHandled
<1>1. WfInv => PublishedHandled
  <2> SUFFICES ASSUME WfInv PROVE PublishedHandled
    OBVIOUS
  <2>1. OutboxTypeOK
    <3>1. \A w \in Workers : /\ workers[w].pc \in {"idle", "batch", "ok", "failed"}
                             /\ \A c \in workers[w].todo : c.key \in DOMAIN outbox
      BY DEF WfInv, OutboxInv, WorkersOK, WorkerOK, Worker, ClaimOK
    <3>2. \A k \in DOMAIN outbox : outbox[k] \in Row
      BY DEF WfInv, OutboxInv, RowsOK, RowOK
    <3>3. \A n \in notifs : n \in Notif
      BY DEF WfInv, OutboxInv, NotifsOK, NotifOK
    <3>4. CountersOK /\ DOMAIN outbox \subseteq Keys
      BY DEF WfInv, OutboxInv, RowsOK
    <3> QED
      BY <3>1, <3>2, <3>3, <3>4 DEF OutboxTypeOK, CountersOK, Row, Notif
  <2>2. \A k \in DOMAIN outbox : RowOK(k)
    BY DEF WfInv, OutboxInv, RowsOK
  <2> QED
    BY <2>1, <2>2 DEF PublishedHandled, RowOK, Done
<1> QED
  BY <1>1, WfInvariance, PTL

(* Nobody is told of what did not happen: every notification about an      *)
(* approval has the audit record of its transition, and the record of a    *)
(* decision names the assigned reviewer.                                   *)
THEOREM ToldWasRecorded == WfSpec => []Announced
<1>1. WfInv => Announced
  <2> SUFFICES ASSUME WfInv PROVE Announced
    OBVIOUS
  <2>1. WfTypeOK
    BY DEF WfInv, ReqsOK, ApprovalsOK, WfTypeOK, Request
  <2>2. \A n \in notifs : Told(n.key, n.to)
    BY DEF WfInv, OutboxInv, NotifsOK, NotifOK
  <2> QED
    BY <2>1, <2>2 DEF Announced, Told
<1> QED
  BY <1>1, WfInvariance, PTL

(* Exactly once for the reader: no redelivery and no further pass adds a   *)
(* second notification of a key or brings back one that was read           *)
(* (Repository.Create with its unique index).                              *)
THEOREM NotifiedOnce == WfSpec => OneNotification
<1>1. WfInv /\ [WfNext]_vars =>
        [/\ \A n \in notifs : n.read => n \in notifs'
         /\ \A m, n \in notifs' : m.key = n.key => m = n]_notifs
  <2>1. ASSUME WfGood
        PROVE  /\ \A n \in notifs : n.read => n \in notifs'
               /\ \A m, n \in notifs' : m.key = n.key => m = n
    BY <2>1 DEF WfGood, WfInv, OutboxInv, NotifsOK, Grows, NotifsGrow
  <2> QED
    BY <2>1, WfStep, WfStutter
<1> QED
  BY <1>1, WfInvariance, PTL DEF WfSpec, OneNotification
=============================================================================
