---------------------------- MODULE EditorSession ----------------------------
(***************************************************************************)
(* Editing one document of documents_v2: the editor session that makes its *)
(* holder the single writer, the two-phase autosave (presign and commit),  *)
(* revisions, checkpoints, and the two sweepers.                           *)
(*                                                                         *)
(* UNIQUE(document_id, content_hash) allows one revision per content, so a *)
(* revision is named by its content hash.  Whether a timestamp has passed  *)
(* is a flag that time sets and a refresh clears.  Two operations are      *)
(* split where other requests can come between their statements:           *)
(* AcquireSession reads the head before it inserts the session, and        *)
(* CommitAutosave checks the document's status before CommitUpload.        *)
(* Submit and cancel stand for module Approval.                            *)
(***************************************************************************)
EXTENDS Integers, Sequences, FiniteSets

CONSTANTS
  Users,          \* callers of the routes, all with a role that may edit
  Admins,         \* those with role admin
  Sids,           \* ids new sessions may draw
  Hashes,         \* contents a user may save, and the initial one
  Initial,        \* content hash of the revision CreateDocument inserts
  Creator,        \* the user who created the document
  NoRev,          \* no revision: an uncommitted hash, the parent of Initial
  NoSid,          \* NULL in documents.active_session_id
  MaxCheckpoints, \* bound on document_checkpoints
  MaxPending,     \* bound on autosave_pending_uploads
  MaxCommits      \* bound on CommitAutosave calls between check and commit

ASSUME EditorAssumption ==
  /\ Initial \in Hashes /\ Creator \in Users /\ Admins \subseteq Users
  /\ NoRev \notin Hashes /\ NoSid \notin Sids
  /\ MaxCheckpoints \in Nat /\ MaxPending \in Nat /\ MaxCommits \in Nat

VARIABLES
  status,       \* documents.status
  head,         \* documents.current_revision_id
  revs,         \* committed document_revisions
  parent,       \* parent_revision_id of each of them
  sess,         \* editor_sessions
  ptr,          \* documents.active_session_id
  acq,          \* the revision an open AcquireSession of a user has read
  pending,      \* autosave_pending_uploads
  verified,     \* <<user, upload>> of calls past CommitAutosave's checks
  checkpoints,  \* revision of each document_checkpoints row, by version_num
  submitted     \* the head when the document under review was submitted

vars == <<status, head, revs, parent, sess, ptr, acq, pending,
          verified, checkpoints, submitted>>

(* "lapsed" is status active with expires_at in the past; "ended" is released, *)
(* force_released and expired alike.                                           *)
Session == [user : Users, ack : Hashes, status : {"active", "lapsed", "ended"}]
NoSession == [status |-> "none"]

(* (session_id, base_revision_id, content_hash) is unique: it is the id. *)
Upload == [sid : Sids, base : Hashes, hash : Hashes]
PendingRow == [lapsed : BOOLEAN, consumed : BOOLEAN]

EditorTypeOK ==
  /\ status \in {"draft", "under_review"}
  /\ head \in Hashes /\ submitted \in Hashes \cup {NoRev}
  /\ revs \in SUBSET Hashes
  /\ parent \in [Hashes -> Hashes \cup {NoRev}]
  /\ sess \in [Sids -> Session \cup {NoSession}]
  /\ ptr \in Sids \cup {NoSid}
  /\ acq \in [Users -> Hashes \cup {NoRev}]
  /\ DOMAIN pending \subseteq Upload /\ pending \in [DOMAIN pending -> PendingRow]
  /\ verified \subseteq Users \X Upload
  /\ checkpoints \in Seq(Hashes)

Active(s) == sess[s].status \in {"active", "lapsed"}

(* CreateDocument inserts the document with its first revision and a session *)
(* of the creator.                                                           *)
EditorInit ==
  /\ status = "draft"
  /\ head = Initial /\ submitted = NoRev
  /\ revs = {Initial}
  /\ parent = [h \in Hashes |-> NoRev]
  /\ \E s \in Sids :
       /\ ptr = s
       /\ sess = [t \in Sids |-> IF t # s THEN NoSession ELSE
            [user |-> Creator, ack |-> Initial, status |-> "active"]]
  /\ acq = [u \in Users |-> NoRev]
  /\ pending = [p \in {} |-> [lapsed |-> FALSE, consumed |-> FALSE]]
  /\ verified = {}
  /\ checkpoints = <<>>

(* An administrator, or the user who created the document. *)
authorizeDocumentScope(u) == u \in Admins \/ u = Creator

(* The session is active, and u holds it. *)
HeldBy(s, u) == Active(s) /\ sess[s].user = u

-----------------------------------------------------------------------------
(* AcquireSession by the holder refreshes the session. *)
RefreshSession(s) ==
  /\ sess' = [sess EXCEPT ![s].status = "active"]
  /\ UNCHANGED <<status, head, revs, parent, ptr, acq, pending, verified, checkpoints, submitted>>

(* AcquireSession without an active session: it has read the head ...        *)
BeginAcquire(u) ==
  /\ acq[u] = NoRev
  /\ \A s \in Sids : ~Active(s)
  /\ acq' = [acq EXCEPT ![u] = head]
  /\ UNCHANGED <<status, head, revs, parent, sess, ptr, pending, verified, checkpoints, submitted>>

(* ... and inserts the session, unless idx_one_active_session_per_doc        *)
(* refuses it, and points the document at it.                                *)
FinishAcquire(u, s) ==
  /\ acq[u] # NoRev
  /\ sess[s] = NoSession
  /\ \A t \in Sids : ~Active(t)
  /\ sess' = [sess EXCEPT ![s] =
       [user |-> u, ack |-> acq[u], status |-> "active"]]
  /\ ptr' = s
  /\ acq' = [acq EXCEPT ![u] = NoRev]
  /\ UNCHANGED <<status, head, revs, parent, pending, verified,
                 checkpoints, submitted>>

(* The unique index, an error or a crash ends the transaction. *)
AbortAcquire(u) ==
  /\ acq[u] # NoRev
  /\ acq' = [acq EXCEPT ![u] = NoRev]
  /\ UNCHANGED <<status, head, revs, parent, sess, ptr, pending, verified, checkpoints, submitted>>

(* A session that another user holds makes the caller a reader. *)
acquireSession(u) ==
  /\ authorizeDocumentScope(u)
  /\ \/ \E s \in Sids : HeldBy(s, u) /\ RefreshSession(s)
     \/ BeginAcquire(u)

(* HeartbeatSession extends an active session, one that has run out but was  *)
(* not swept yet too.                                                        *)
HeartbeatSession(s) == RefreshSession(s)

heartbeatSession(u) ==
  authorizeDocumentScope(u) /\ \E s \in Sids : HeldBy(s, u) /\ HeartbeatSession(s)

(* Mutant: the document keeps pointing at the ended session. *)
EndSession_PointerKept(S) ==
  /\ sess' = [s \in Sids |-> IF s \in S THEN [sess[s] EXCEPT !.status = "ended"] ELSE sess[s]]
  /\ UNCHANGED ptr

(* The common part of release, force-release and expiry: sessions end and    *)
(* the document that points at one of them no longer does.                   *)
EndSession(S) ==
  /\ sess' = [s \in Sids |-> IF s \in S THEN [sess[s] EXCEPT !.status = "ended"] ELSE sess[s]]
  /\ ptr' = IF ptr \in S THEN NoSid ELSE ptr

ReleaseSession(s) ==
  /\ EndSession({s})
  /\ UNCHANGED <<status, head, revs, parent, acq, pending, verified,
                 checkpoints, submitted>>

releaseSession(u) ==
  authorizeDocumentScope(u) /\ \E s \in Sids : HeldBy(s, u) /\ ReleaseSession(s)

(* ForceReleaseSession names the session and not its holder. *)
forceReleaseSession(u) ==
  u \in Admins /\ \E s \in Sids : Active(s) /\ ReleaseSession(s)

ExpireStaleSessions ==
  LET stale == {s \in Sids : sess[s].status = "lapsed"}
  IN /\ stale # {}
     /\ EndSession(stale)
     /\ UNCHANGED <<status, head, revs, parent, acq, pending, verified,
                    checkpoints, submitted>>

(* expires_at passes. *)
LapseSession(s) ==
  /\ sess[s].status = "active"
  /\ sess' = [sess EXCEPT ![s].status = "lapsed"]
  /\ UNCHANGED <<status, head, revs, parent, ptr, acq, pending, verified, checkpoints, submitted>>

-----------------------------------------------------------------------------
(* PresignReserve of the session's holder, on the base the session has       *)
(* acknowledged, is idempotent: an existing row is returned as it is, lapsed *)
(* or consumed.                                                              *)
PresignReserve(s, h) ==
  LET p == [sid |-> s, base |-> sess[s].ack, hash |-> h]
  IN /\ p \notin DOMAIN pending
     /\ Cardinality(DOMAIN pending) < MaxPending
     /\ pending' = [q \in DOMAIN pending \cup {p} |->
          IF q = p THEN [lapsed |-> FALSE, consumed |-> FALSE] ELSE pending[q]]
     /\ UNCHANGED <<status, head, revs, parent, sess, ptr, acq, verified, checkpoints, submitted>>

(* PresignAutosave reads the status just before; a reservation made after a  *)
(* submission has no effect until the document is a draft again, as one made *)
(* before.                                                                   *)
PresignAutosave(u, s, h) ==
  status = "draft" /\ HeldBy(s, u) /\ PresignReserve(s, h)

presignAutosave(u) ==
  authorizeDocumentScope(u) /\ \E s \in Sids, h \in Hashes : PresignAutosave(u, s, h)

(* CommitAutosave up to CommitUpload: the document is a draft, the pending   *)
(* row exists and the object the client has put has the expected hash (when  *)
(* it has not, the call fails and nothing changes).                          *)
VerifyUpload(u, p) ==
  /\ status = "draft"
  /\ Cardinality(verified) < MaxCommits
  /\ verified' = verified \cup {<<u, p>>}
  /\ UNCHANGED <<status, head, revs, parent, sess, ptr, acq, pending, checkpoints, submitted>>

(* Calls that CommitUpload must refuse or answer as a replay, whatever comes *)
(* between, change nothing and are left out: another user's upload, one that *)
(* has lapsed or is consumed.                                                *)
commitAutosave(u) ==
  /\ authorizeDocumentScope(u)
  /\ \E p \in DOMAIN pending :
       /\ sess[p.sid].user = u /\ ~pending[p].lapsed /\ ~pending[p].consumed
       /\ VerifyUpload(u, p)

Consume(p) == pending' = [pending EXCEPT ![p].consumed = TRUE]

(* Mutant: CommitUpload does not look at the session's status. *)
SessionMayCommit_AnyStatus(u, p) == sess[p.sid].ack = p.base

(* Mutant: CommitUpload does not compare the base. *)
SessionMayCommit_AnyBase(u, p) == HeldBy(p.sid, u)

(* Session still active, held by the caller, and at the upload's base. *)
SessionMayCommit(u, p) == HeldBy(p.sid, u) /\ sess[p.sid].ack = p.base

(* CommitUpload of a fresh upload: session, base and hash are checked again  *)
(* under row locks, the document's status is not.  A content that was saved  *)
(* before violates UNIQUE(document_id, content_hash) and the commit fails.   *)
CommitUpload(u, p) ==
  /\ p \in DOMAIN pending
  /\ ~pending[p].consumed /\ ~pending[p].lapsed
  /\ SessionMayCommit(u, p)
  /\ p.hash \notin revs
  /\ revs' = revs \cup {p.hash}
  /\ parent' = [parent EXCEPT ![p.hash] = p.base]
  /\ head' = p.hash
  /\ sess' = [sess EXCEPT ![p.sid].ack = p.hash]
  /\ Consume(p)
  /\ verified' = verified \ {<<u, p>>}
  /\ UNCHANGED <<status, ptr, acq, checkpoints, submitted>>

(* CommitUpload that replays a consumed upload or is refused, or a crash. *)
EndCommit(u, p) ==
  /\ verified' = verified \ {<<u, p>>}
  /\ UNCHANGED <<status, head, revs, parent, sess, ptr, acq, pending, checkpoints, submitted>>

(* expires_at passes. *)
LapsePending(p) ==
  /\ ~pending[p].lapsed
  /\ pending' = [pending EXCEPT ![p].lapsed = TRUE]
  /\ UNCHANGED <<status, head, revs, parent, sess, ptr, acq, verified, checkpoints, submitted>>

(* Mutant: consumed uploads are swept as well. *)
Sweepable_Consumed(p) == pending[p].lapsed

(* expires_at < cutoff AND consumed_at IS NULL *)
Sweepable(p) == pending[p].lapsed /\ ~pending[p].consumed

(* StartOrphanPendingSweeper, a day after the uploads have expired. *)
DeleteExpiredPending ==
  /\ \E p \in DOMAIN pending : Sweepable(p)
  /\ pending' = [p \in {q \in DOMAIN pending : ~Sweepable(q)} |-> pending[p]]
  /\ UNCHANGED <<status, head, revs, parent, sess, ptr, acq, verified,
                 checkpoints, submitted>>

-----------------------------------------------------------------------------
CreateCheckpoint ==
  /\ Len(checkpoints) < MaxCheckpoints
  /\ checkpoints' = Append(checkpoints, head)
  /\ UNCHANGED <<status, head, revs, parent, sess, ptr, acq, pending, verified, submitted>>

createCheckpoint(u) == authorizeDocumentScope(u) /\ CreateCheckpoint

(* RestoreCheckpoint by the holder of the session the document points at.    *)
(* The INSERT conflicts when the document has a revision with that content:  *)
(* then head and session stay as they are and the call succeeds.             *)
RestoreCheckpoint(u, v) ==
  LET h == checkpoints[v]
      conflict == h \in revs
  IN /\ v \in DOMAIN checkpoints
     /\ ptr # NoSid /\ HeldBy(ptr, u)
     /\ head' = IF conflict THEN head ELSE h
     /\ revs' = revs \cup {h}
     /\ parent' = IF conflict THEN parent ELSE [parent EXCEPT ![h] = head]
     /\ sess' = IF conflict THEN sess ELSE [sess EXCEPT ![ptr].ack = h]
     /\ UNCHANGED <<status, ptr, acq, pending, verified, checkpoints,
                    submitted>>

restoreCheckpoint(u) ==
  authorizeDocumentScope(u) /\ \E v \in DOMAIN checkpoints : RestoreCheckpoint(u, v)

-----------------------------------------------------------------------------
(* Submission and cancellation (module Approval) leave sessions and uploads  *)
(* alone.                                                                    *)
Submit ==
  /\ status = "draft"
  /\ status' = "under_review"
  /\ submitted' = head
  /\ UNCHANGED <<head, revs, parent, sess, ptr, acq, pending, verified,
                 checkpoints>>

Cancel ==
  /\ status = "under_review"
  /\ status' = "draft"
  /\ submitted' = NoRev
  /\ UNCHANGED <<head, revs, parent, sess, ptr, acq, pending, verified,
                 checkpoints>>

(* The routes, called by any user. *)
Handlers(u) ==
  \/ acquireSession(u) \/ heartbeatSession(u) \/ releaseSession(u) \/ forceReleaseSession(u)
  \/ presignAutosave(u) \/ commitAutosave(u)
  \/ createCheckpoint(u) \/ restoreCheckpoint(u)

(* Calls that have begun, the sweepers and time. *)
Background ==
  \/ \E u \in Users : AbortAcquire(u) \/ \E s \in Sids : FinishAcquire(u, s)
  \/ \E c \in verified : CommitUpload(c[1], c[2]) \/ EndCommit(c[1], c[2])
  \/ \E s \in Sids : LapseSession(s)
  \/ \E p \in DOMAIN pending : LapsePending(p)
  \/ ExpireStaleSessions
  \/ DeleteExpiredPending

EditorNext == (\E u \in Users : Handlers(u)) \/ Background \/ Submit \/ Cancel

EditorSpec == EditorInit /\ [][EditorNext]_vars

-----------------------------------------------------------------------------
(* documents.active_session_id names the active session, whenever there is   *)
(* one and only then: restore, which starts from the pointer, and autosave,  *)
(* which starts from the session, agree on who may write.                    *)
PointerIsWriter == EditorTypeOK /\ \A s \in Sids : Active(s) <=> ptr = s

(* A consumed upload has its revision, so the replay lookup of CommitUpload  *)
(* finds one, and every revision but the first has the consumed upload that  *)
(* wrote it, whatever the sweeper deleted meanwhile.                         *)
UploadsMatchRevisions ==
  revs = {Initial} \cup {p.hash : p \in {q \in DOMAIN pending : pending[q].consumed}}

(* Revisions are append-only, and only the session that was active when the  *)
(* revision was written moves the head, to a revision on top of what it had  *)
(* acknowledged.                                                             *)
HeadMovedByWriter ==
  [][/\ revs \subseteq revs'
     /\ \A h \in revs : parent'[h] = parent[h]
     /\ head' # head => \E s \in Sids :
          Active(s) /\ parent'[head'] = sess[s].ack /\ sess'[s].ack = head']_vars

(* "409 document_locked", as far as it goes: CommitUpload does not look at   *)
(* the status again, so a save whose check came before the submission may    *)
(* still land, but it is the only one.  What the reviewers see is the        *)
(* submitted content or one save of the writer of that moment.               *)
OneLateSave ==
  [][status = "under_review" /\ head' # head => head = submitted]_vars
=============================================================================
