----------------------------- MODULE Catalogue -----------------------------
(***************************************************************************)
(* What a document hangs on: document profiles and process areas           *)
(* (taxonomy), controlled documents and their numbering (registry), area   *)
(* memberships (iam), and the creation of a document under a controlled    *)
(* document (documents_v2).  None of these services locks what it read:    *)
(* each request is a chain of statements, and the statements of several    *)
(* requests interleave.  Only the numbering runs in a transaction, which   *)
(* holds the row of the profile's counter and one of the Conns connections *)
(* of the pool while it asks the pool for a second one.                    *)
(***************************************************************************)
EXTENDS Integers, Sequences, FiniteSets

CONSTANTS Requests,       \* requests in flight at a time
          Profiles, Areas, Users, Roles,
          Seeded,         \* the profiles and areas the migrations insert
          Unassigned,     \* the profile and area the backfill files under
          Versions,       \* template versions
          VersionProfile, \* the profile of a version's template
          Legacy,         \* documents without a controlled document
          Prefix,         \* the first eight hex digits of their ids
          Conns,          \* SetMaxOpenConns
          MaxDocs,        \* bound: controlled documents
          MaxRequests,    \* bound: requests sent
          None

ASSUME CatalogueAssumption ==
  /\ Conns \in Nat \ {0} /\ MaxDocs \in Nat /\ MaxRequests \in Nat
  /\ None \notin Profiles \cup Areas \cup Versions
  /\ Unassigned \in Profiles \cap Areas
  /\ VersionProfile \in [Versions -> Profiles]
  /\ Prefix \in [Legacy -> Nat]

VARIABLES
  profiles,    \* document_profiles: archived_at and the default template
  areas,       \* document_process_areas: archived_at and parent_code
  versions,    \* status of each template version (templates_v2); "draft"
               \* stands for draft, in_review and approved
  released,    \* history: the versions that have been published
  docs,        \* controlled_documents, in the order they were committed
  counters,    \* profile_sequence_counters.next_seq; 0: no row yet
  members,     \* user_process_areas
  documents,   \* documents: controlled document, template, storage key
  legacy,      \* documents_v2.controlled_document_id of the old documents
  backfill,    \* the startup migration: running, and what it has left to do
  reqs,        \* requests between two of their statements
  sent         \* requests sent so far

vars == <<profiles, areas, versions, released, docs, counters, members,
          documents, legacy, backfill, reqs, sent>>

Idle == [pc |-> "idle"]
Absent == [exists |-> FALSE]
Row(archived, ref) == [exists |-> TRUE, archived |-> archived, ref |-> ref]
AutoCode(n) == <<"auto", n>>
LegacyCode(l) == <<"MIG", Prefix[l]>>
Legacies == {LegacyCode(l) : l \in Legacy}
\* A manual code is free text: it may look like any other code.
ManualCodes == {<<"manual", 0>>} \cup {AutoCode(n) : n \in 1..MaxDocs}
               \cup Legacies
Statuses == {"active", "obsolete", "superseded"}

CatInit ==
  /\ profiles = [p \in Profiles |-> IF p \in Seeded THEN Row(FALSE, None)
                                                    ELSE Absent]
  /\ areas = [a \in Areas |-> IF a \in Seeded THEN Row(FALSE, None)
                                              ELSE Absent]
  /\ versions = [v \in Versions |-> "draft"] /\ released = {}
  /\ docs = <<>> /\ documents = <<>>
  /\ counters = [p \in Profiles |-> 0]
  /\ members = {}
  /\ legacy = [l \in Legacy |-> 0]
  /\ backfill = [on |-> FALSE, left |-> {}, locked |-> FALSE]
  /\ reqs = [r \in Requests |-> Idle]
  /\ sent = 0

-----------------------------------------------------------------------------
(* Connections and requests.                                               *)

InTx == {"begun", "numbered", "coded"}
Holders == {r \in Requests : reqs[r].pc \in InTx}
ConnFree == Cardinality(Holders) < Conns
Ask == sent < MaxRequests /\ ConnFree /\ sent' = sent + 1
Begin(r, rec) == reqs[r] = Idle /\ Ask /\ reqs' = [reqs EXCEPT ![r] = rec]
Go(r, rec) == reqs' = [reqs EXCEPT ![r] = rec] /\ UNCHANGED sent
End(r) == Go(r, Idle)

\* The client of r goes away, or the process stops: net/http cancels the
\* request's context, an open transaction is rolled back and with it the
\* number it took.
Abandon(r) ==
  /\ reqs[r] # Idle
  /\ End(r)
  /\ UNCHANGED <<profiles, areas, versions, released, docs, counters,
                 members, documents, legacy, backfill>>

\* templates_v2: an approver publishes a version, the version published after
\* it makes it obsolete, and UpdateVersion writes a whole row without looking
\* at the row it replaces, so a stale row undoes either.
PublishVersion(v) ==
  /\ versions' = [versions EXCEPT ![v] = "published"]
  /\ released' = released \cup {v}
  /\ UNCHANGED <<profiles, areas, docs, counters, members, documents, legacy,
                 backfill, reqs, sent>>

ObsoletePreviousPublished(v) ==
  /\ versions[v] = "published"
  /\ versions' = [versions EXCEPT ![v] = "obsolete"]
  /\ UNCHANGED <<released, profiles, areas, docs, counters, members,
                 documents, legacy, backfill, reqs, sent>>

UpdateVersion(v) ==
  /\ versions' = [versions EXCEPT ![v] = "draft"]
  /\ UNCHANGED <<released, profiles, areas, docs, counters, members,
                 documents, legacy, backfill, reqs, sent>>

-----------------------------------------------------------------------------
(* Variants with a fault, used to see that the properties notice.          *)

NextAndIncrement_OutsideTx(r) ==
  LET p == reqs[r].p
      n == IF counters[p] = 0 THEN 1 ELSE counters[p] IN
  /\ reqs[r].pc = "begun"
  /\ counters' = [counters EXCEPT ![p] = n + 1]
  /\ Go(r, [pc |-> "numbered", p |-> p, a |-> reqs[r].a, n |-> n,
            override |-> reqs[r].override, then |-> reqs[r].then])
  /\ UNCHANGED <<profiles, areas, versions, released, docs, members,
                 documents, legacy, backfill>>
GetPublishedVersion_Any(v) == TRUE
BackfillDocument_LinkLater(l) ==
  /\ l \in backfill.left /\ Len(docs) < MaxDocs
  /\ profiles[Unassigned].exists /\ areas[Unassigned].exists
  /\ docs' = Append(docs, [profile |-> Unassigned, area |-> Unassigned,
                           code |-> LegacyCode(l), seq |-> 0,
                           status |-> "active", by |-> "backfill"])
  /\ UNCHANGED <<profiles, areas, versions, released, counters, members,
                 documents, legacy, backfill, reqs, sent>>

-----------------------------------------------------------------------------
(* Taxonomy.  A row is read, changed and written back whole.               *)

GetProfile(p) == profiles[p].exists
InsertProfile(p, row) == ~profiles[p].exists
                         /\ profiles' = [profiles EXCEPT ![p] = row]
UpdateProfileRow(p, row) ==
  profiles' = IF profiles[p].exists THEN [profiles EXCEPT ![p] = row]
                                    ELSE profiles
GetArea(a) == areas[a].exists
ParentExists(a, row) == row.ref \notin {None, a} => areas[row.ref].exists
InsertArea(a, row) == /\ ~areas[a].exists /\ ParentExists(a, row)
                      /\ areas' = [areas EXCEPT ![a] = row]
UpdateAreaRow(a, row) ==
  areas' = IF areas[a].exists /\ ParentExists(a, row)
           THEN [areas EXCEPT ![a] = row] ELSE areas

createProfile(p, v) ==
  /\ Ask /\ InsertProfile(p, Row(FALSE, v))
  /\ UNCHANGED <<areas, versions, released, docs, counters, members,
                 documents, legacy, backfill, reqs>>

\* PATCH builds the row from the body: archived_at is not in it, and the
\* default template is not checked.
updateProfile(p, v) ==
  /\ Ask /\ UpdateProfileRow(p, Row(FALSE, v))
  /\ UNCHANGED <<areas, versions, released, docs, counters, members,
                 documents, legacy, backfill, reqs>>

IsPublished(v, p) == versions[v] = "published" /\ VersionProfile[v] = p

SetDefaultTemplate(r, p, v) ==
  /\ GetProfile(p) /\ ~profiles[p].archived
  /\ IsPublished(v, p)
  /\ Begin(r, [pc |-> "profileRow", p |-> p, row |-> Row(FALSE, v)])
  /\ UNCHANGED <<profiles, areas, versions, released, docs, counters,
                 members, documents, legacy, backfill>>

ArchiveProfile(r, p) ==
  /\ GetProfile(p) /\ ~profiles[p].archived
  /\ Begin(r, [pc |-> "profileRow", p |-> p,
               row |-> Row(TRUE, profiles[p].ref)])
  /\ UNCHANGED <<profiles, areas, versions, released, docs, counters,
                 members, documents, legacy, backfill>>

WriteProfile(r) ==
  /\ reqs[r].pc = "profileRow" /\ ConnFree
  /\ UpdateProfileRow(reqs[r].p, reqs[r].row)
  /\ End(r)
  /\ UNCHANGED <<areas, versions, released, docs, counters, members,
                 documents, legacy, backfill>>

createArea(a, parent) ==
  /\ Ask /\ InsertArea(a, Row(FALSE, parent))
  /\ UNCHANGED <<profiles, versions, released, docs, counters, members,
                 documents, legacy, backfill, reqs>>

updateArea(a, parent) ==
  /\ Ask /\ UpdateAreaRow(a, Row(FALSE, parent))
  /\ UNCHANGED <<profiles, versions, released, docs, counters, members,
                 documents, legacy, backfill, reqs>>

ArchiveArea(r, a) ==
  /\ GetArea(a) /\ ~areas[a].archived
  /\ Begin(r, [pc |-> "areaRow", a |-> a, row |-> Row(TRUE, areas[a].ref)])
  /\ UNCHANGED <<profiles, areas, versions, released, docs, counters,
                 members, documents, legacy, backfill>>

WriteArea(r) ==
  /\ reqs[r].pc = "areaRow" /\ ConnFree
  /\ UpdateAreaRow(reqs[r].a, reqs[r].row)
  /\ End(r)
  /\ UNCHANGED <<profiles, versions, released, docs, counters, members,
                 documents, legacy, backfill>>

-----------------------------------------------------------------------------
(* The registry: controlled documents and their codes.                     *)

CodeExists(p, code) ==
  \E i \in DOMAIN docs : docs[i].profile = p /\ docs[i].code = code

\* by is history: whether the registry or the migration inserted the row.
ControlledDocument(p, a, code, seq, by) ==
  [profile |-> p, area |-> a, code |-> code, seq |-> seq,
   status |-> "active", by |-> by]

\* INSERT under UNIQUE (tenant_id, profile_code, code), whatever the status of
\* the row that has the code.
InsertDoc(p, a, code, seq, by) ==
  docs' = IF CodeExists(p, code) THEN docs
          ELSE Append(docs, ControlledDocument(p, a, code, seq, by))

\* Both rows are read before anything is written and never again.
Create(p, a) ==
  /\ GetProfile(p) /\ ~profiles[p].archived
  /\ GetArea(a) /\ ~areas[a].archived
  /\ Len(docs) < MaxDocs

createAuto(r, p, a, override) ==
  /\ Create(p, a)
  /\ Begin(r, [pc |-> "begin", p |-> p, a |-> a, override |-> override,
               then |-> "reply"])
  /\ UNCHANGED <<profiles, areas, versions, released, docs, counters,
                 members, documents, legacy, backfill>>

createManual(r, p, a, code, override) ==
  /\ Create(p, a)
  /\ Begin(r, [pc |-> "manual", p |-> p, a |-> a, code |-> code,
               override |-> override])
  /\ UNCHANGED <<profiles, areas, versions, released, docs, counters,
                 members, documents, legacy, backfill>>

\* A manual code is looked up and inserted in two statements.  A request for
\* an override template ends here: GetTemplateVersionState selects a column
\* the templates table does not have.
CheckManualCode(r) ==
  /\ reqs[r].pc = "manual" /\ ConnFree
  /\ IF CodeExists(reqs[r].p, reqs[r].code) \/ reqs[r].override THEN End(r)
     ELSE Go(r, [reqs[r] EXCEPT !.pc = "insert"])
  /\ UNCHANGED <<profiles, areas, versions, released, docs, counters,
                 members, documents, legacy, backfill>>

InsertManual(r) ==
  /\ reqs[r].pc = "insert" /\ ConnFree /\ Len(docs) < MaxDocs
  /\ InsertDoc(reqs[r].p, reqs[r].a, reqs[r].code, 0, "registry")
  /\ End(r)
  /\ UNCHANGED <<profiles, areas, versions, released, counters, members,
                 documents, legacy, backfill>>

BeginTx(r) ==
  /\ reqs[r].pc = "begin" /\ ConnFree
  /\ Go(r, [reqs[r] EXCEPT !.pc = "begun"])
  /\ UNCHANGED <<profiles, areas, versions, released, docs, counters,
                 members, documents, legacy, backfill>>

\* The counter's row is locked from the UPDATE (or the first INSERT) to the
\* end of the transaction.
CounterFree(p) ==
  \A q \in Requests : reqs[q].pc \in {"numbered", "coded"} => reqs[q].p # p
ensureCounter(p) == IF counters[p] = 0 THEN 1 ELSE counters[p]

NextAndIncrement(r) ==
  /\ reqs[r].pc = "begun" /\ CounterFree(reqs[r].p)
  /\ Go(r, [pc |-> "numbered", p |-> reqs[r].p, a |-> reqs[r].a,
            n |-> ensureCounter(reqs[r].p), override |-> reqs[r].override,
            then |-> reqs[r].then])
  /\ UNCHANGED <<profiles, areas, versions, released, docs, counters,
                 members, documents, legacy, backfill>>

\* CodeExists, and the lookup of an override, go through the pool and not
\* through the transaction.  A refusal rolls the number back.
CheckAutoCode(r) ==
  /\ reqs[r].pc = "numbered" /\ ConnFree
  /\ IF CodeExists(reqs[r].p, AutoCode(reqs[r].n)) \/ reqs[r].override
     THEN End(r)
     ELSE Go(r, [reqs[r] EXCEPT !.pc = "coded"])
  /\ UNCHANGED <<profiles, areas, versions, released, docs, counters,
                 members, documents, legacy, backfill>>

\* CreateTx and Commit; a duplicate of a document goes on to CreateDocument.
\* A taken code is looked up through the pool before the transaction ends.
CommitAuto(r) ==
  LET q == reqs[r] IN
  /\ q.pc = "coded" /\ Len(docs) < MaxDocs
  /\ CodeExists(q.p, AutoCode(q.n)) => ConnFree
  /\ InsertDoc(q.p, q.a, AutoCode(q.n), q.n, "registry")
  /\ counters' = IF docs' = docs THEN counters
                 ELSE [counters EXCEPT ![q.p] = q.n + 1]
  /\ IF docs' # docs /\ q.then = "create"
     THEN Go(r, [pc |-> "create", cd |-> Len(docs')])
     ELSE End(r)
  /\ UNCHANGED <<profiles, areas, versions, released, members, documents,
                 legacy, backfill>>

IsActive(cd) == cd.status = "active"
GetByID(i) == docs[i]

changeStatus(r, i, next) ==
  /\ IsActive(GetByID(i))
  /\ Begin(r, [pc |-> "status", cd |-> i, next |-> next])
  /\ UNCHANGED <<profiles, areas, versions, released, docs, counters,
                 members, documents, legacy, backfill>>

UpdateStatus(r) ==
  /\ reqs[r].pc = "status" /\ ConnFree
  /\ docs' = [docs EXCEPT ![reqs[r].cd].status = reqs[r].next]
  /\ End(r)
  /\ UNCHANGED <<profiles, areas, versions, released, counters, members,
                 documents, legacy, backfill>>

-----------------------------------------------------------------------------
(* Area memberships.                                                       *)

ActiveRows(u, a) == {m \in members : m.user = u /\ m.area = a /\ m.open}

Member(u, a, role) == [user |-> u, area |-> a, role |-> role, open |-> TRUE,
                       revokedBy |-> None]

\* INSERT under the partial unique index on (user, tenant, area) and the
\* foreign key on the area.
InsertMember(u, a, role) ==
  members' = IF ActiveRows(u, a) = {} /\ areas[a].exists
             THEN members \cup {Member(u, a, role)} ELSE members

\* revoked_by_required_when_revoked (migration 0136) refuses a closed row that
\* does not say who closed it, and the repository never does.
Closed(rows) == {[m EXCEPT !.open = FALSE] : m \in rows}
RevokedByGiven(rows) == \A m \in rows : m.open \/ m.revokedBy # None

CloseActive(u, a) ==
  LET old == ActiveRows(u, a) IN
  members' = IF RevokedByGiven(Closed(old))
             THEN (members \ old) \cup Closed(old) ELSE members

\* One transaction: the close, then the insert; no row closed is an error.
GrantAtomic(u, a, role) ==
  LET old == ActiveRows(u, a) IN
  members' = IF old # {} /\ RevokedByGiven(Closed(old))
             THEN (members \ old) \cup Closed(old) \cup {Member(u, a, role)}
             ELSE members

Grant(r, u, a, role) ==
  /\ Begin(r, [pc |-> "grant", u |-> u, a |-> a, role |-> role,
               existing |-> ActiveRows(u, a) # {}])
  /\ UNCHANGED <<profiles, areas, versions, released, docs, counters,
                 members, documents, legacy, backfill>>

WriteGrant(r) ==
  LET q == reqs[r] IN
  /\ q.pc = "grant" /\ ConnFree
  /\ IF q.existing THEN GrantAtomic(q.u, q.a, q.role)
                   ELSE InsertMember(q.u, q.a, q.role)
  /\ End(r)
  /\ UNCHANGED <<profiles, areas, versions, released, docs, counters,
                 documents, legacy, backfill>>

Revoke(r, u, a) ==
  /\ ActiveRows(u, a) # {}
  /\ Begin(r, [pc |-> "revoke", u |-> u, a |-> a])
  /\ UNCHANGED <<profiles, areas, versions, released, docs, counters,
                 members, documents, legacy, backfill>>

WriteRevoke(r) ==
  /\ reqs[r].pc = "revoke" /\ ConnFree
  /\ CloseActive(reqs[r].u, reqs[r].a)
  /\ End(r)
  /\ UNCHANGED <<profiles, areas, versions, released, docs, counters,
                 documents, legacy, backfill>>

-----------------------------------------------------------------------------
(* A document under a controlled document.                                 *)

\* profileDefaultsAdapter gives the profile's default template the status
\* "published" without looking; no controlled document has an override.
GetDefaultTemplateVersionID(p) ==
  IF profiles[p].ref = None THEN [id |-> None, status |-> "none"]
  ELSE [id |-> profiles[p].ref, status |-> "published"]
Resolve(default) == IF default.status = "published" THEN default.id ELSE None

createDocument(r, i) ==
  /\ Begin(r, [pc |-> "create", cd |-> i])
  /\ UNCHANGED <<profiles, areas, versions, released, docs, counters,
                 members, documents, legacy, backfill>>

CreateDocument(r) ==
  LET cd == GetByID(reqs[r].cd)
      tpl == Resolve(GetDefaultTemplateVersionID(cd.profile)) IN
  /\ reqs[r].pc = "create" /\ ConnFree
  /\ IF ~IsActive(cd) \/ tpl = None THEN End(r)
     ELSE Go(r, [pc |-> "resolved", cd |-> reqs[r].cd, tpl |-> tpl])
  /\ UNCHANGED <<profiles, areas, versions, released, docs, counters,
                 members, documents, legacy, backfill>>

GetPublishedVersion(v) == versions[v] = "published"

LookUpTemplate(r) ==
  /\ reqs[r].pc = "resolved" /\ ConnFree
  /\ IF GetPublishedVersion(reqs[r].tpl)
     THEN Go(r, [reqs[r] EXCEPT !.pc = "found"])
     ELSE End(r)
  /\ UNCHANGED <<profiles, areas, versions, released, docs, counters,
                 members, documents, legacy, backfill>>

\* One transaction: the document, its first session and its first revision,
\* whose storage key is still empty.
InsertDocument(r) ==
  /\ reqs[r].pc = "found" /\ ConnFree
  /\ documents' = Append(documents, [cd |-> reqs[r].cd, tpl |-> reqs[r].tpl,
                                     key |-> None, snapshot |-> None])
  /\ Go(r, [pc |-> "stored", doc |-> Len(documents'), tpl |-> reqs[r].tpl])
  /\ UNCHANGED <<profiles, areas, versions, released, docs, counters,
                 members, legacy, backfill>>

\* Without a docgen service the first revision is the template's own object.
SetRevisionStorageKey(r) ==
  /\ reqs[r].pc = "stored" /\ ConnFree
  /\ documents' = [documents EXCEPT ![reqs[r].doc].key = reqs[r].tpl]
  /\ Go(r, [reqs[r] EXCEPT !.pc = "keyed"])
  /\ UNCHANGED <<profiles, areas, versions, released, docs, counters,
                 members, legacy, backfill>>

SnapshotFromTemplate(r) ==
  /\ reqs[r].pc = "keyed" /\ ConnFree
  /\ documents' = [documents EXCEPT ![reqs[r].doc].snapshot = reqs[r].tpl]
  /\ End(r)
  /\ UNCHANGED <<profiles, areas, versions, released, docs, counters,
                 members, legacy, backfill>>

DuplicateControlledDocument(i) ==
  [profile |-> GetByID(i).profile, area |-> GetByID(i).area]

\* DuplicateDocument: a controlled document like the source's, by the
\* automatic numbering, and then a document under it.
duplicateDocument(r, i) ==
  LET cd == DuplicateControlledDocument(documents[i].cd) IN
  /\ Create(cd.profile, cd.area)
  /\ Begin(r, [pc |-> "begin", p |-> cd.profile, a |-> cd.area,
               override |-> FALSE, then |-> "create"])
  /\ UNCHANGED <<profiles, areas, versions, released, docs, counters,
                 members, documents, legacy, backfill>>

-----------------------------------------------------------------------------
(* BackfillLegacyDocuments, at startup under an advisory lock.             *)

\* The lock belongs to the pooled connection that took it; a restart frees it.
BackfillStart ==
  /\ Ask /\ ~backfill.on
  /\ backfill' = IF backfill.locked THEN backfill
                 ELSE [on |-> TRUE, locked |-> TRUE,
                       left |-> {l \in Legacy : legacy[l] = 0}]
  /\ UNCHANGED <<profiles, areas, versions, released, docs, counters,
                 members, documents, legacy, reqs>>

\* One transaction per document: the upsert of its controlled document, which
\* needs the profile and the area it files under, and the link to it.  A row
\* that already has the code is taken as it is, whoever made it and in
\* whatever area.
BackfillDocument(l) ==
  LET code == LegacyCode(l)
      known == {i \in DOMAIN docs : /\ docs[i].profile = Unassigned
                                    /\ docs[i].code = code} IN
  /\ l \in backfill.left /\ Len(docs) < MaxDocs
  /\ backfill' = [backfill EXCEPT !.left = @ \ {l}]
  /\ IF GetProfile(Unassigned) /\ GetArea(Unassigned)
     THEN /\ InsertDoc(Unassigned, Unassigned, code, 0, "backfill")
          /\ legacy' = IF legacy[l] # 0 THEN legacy
                       ELSE [legacy EXCEPT ![l] =
                               IF known = {} THEN Len(docs')
                               ELSE CHOOSE i \in known : TRUE]
     ELSE UNCHANGED <<docs, legacy>>
  /\ UNCHANGED <<profiles, areas, versions, released, counters, members,
                 documents, reqs, sent>>

\* pg_advisory_unlock may run on another connection of the pool, and then
\* unlocks nothing.
BackfillEnd ==
  /\ backfill.on /\ backfill.left = {}
  /\ \E kept \in BOOLEAN :
       backfill' = [backfill EXCEPT !.on = FALSE, !.locked = kept]
  /\ UNCHANGED <<profiles, areas, versions, released, docs, counters,
                 members, documents, legacy, reqs, sent>>

\* The process stops: the migration with it, and every connection is closed.
Restart ==
  /\ backfill.on \/ backfill.locked
  /\ backfill' = [on |-> FALSE, left |-> {}, locked |-> FALSE]
  /\ reqs' = [r \in Requests |-> Idle]
  /\ UNCHANGED <<profiles, areas, versions, released, docs, counters,
                 members, documents, legacy, sent>>

-----------------------------------------------------------------------------
\* The next statement of the request r.
Step(r) ==
  \/ WriteProfile(r) \/ WriteArea(r)
  \/ CheckManualCode(r) \/ InsertManual(r)
  \/ BeginTx(r) \/ NextAndIncrement(r) \/ CheckAutoCode(r) \/ CommitAuto(r)
  \/ UpdateStatus(r) \/ WriteGrant(r) \/ WriteRevoke(r)
  \/ CreateDocument(r) \/ LookUpTemplate(r) \/ InsertDocument(r)
  \/ SetRevisionStorageKey(r) \/ SnapshotFromTemplate(r)

(* The routes.                                                             *)
createDoc(r) ==
  \E p \in Profiles, a \in Areas, override \in BOOLEAN :
    \/ createAuto(r, p, a, override)
    \/ \E code \in ManualCodes : createManual(r, p, a, code, override)
obsoleteDoc(r) == \E i \in DOMAIN docs : changeStatus(r, i, "obsolete")
supersedeDoc(r) == \E i \in DOMAIN docs : changeStatus(r, i, "superseded")
setDefaultTemplate(r) ==
  \E p \in Profiles, v \in Versions : SetDefaultTemplate(r, p, v)
archiveProfile(r) == \E p \in Profiles : ArchiveProfile(r, p)
archiveArea(r) == \E a \in Areas : ArchiveArea(r, a)
grantMembership(r) ==
  \E u \in Users, a \in Areas, role \in Roles : Grant(r, u, a, role)
revokeMembership(r) == \E u \in Users, a \in Areas : Revoke(r, u, a)

Request(r) ==
  \/ createDoc(r) \/ obsoleteDoc(r) \/ supersedeDoc(r)
  \/ setDefaultTemplate(r) \/ archiveProfile(r) \/ archiveArea(r)
  \/ grantMembership(r) \/ revokeMembership(r)
  \/ \E i \in DOMAIN docs : createDocument(r, i)
  \/ \E i \in DOMAIN documents : duplicateDocument(r, i)

RowRequest ==
  \/ \E p \in Profiles, v \in Versions \cup {None} :
       createProfile(p, v) \/ updateProfile(p, v)
  \/ \E a \in Areas, parent \in Areas \cup {None} :
       createArea(a, parent) \/ updateArea(a, parent)

CatNext ==
  \/ \E r \in Requests : Step(r) \/ Abandon(r) \/ Request(r)
  \/ RowRequest
  \/ \E v \in Versions : \/ PublishVersion(v) \/ UpdateVersion(v)
                          \/ ObsoletePreviousPublished(v)
  \/ BackfillStart \/ BackfillEnd \/ Restart
  \/ \E l \in Legacy : BackfillDocument(l)

\* A statement that can run runs: the pool and the row locks are fair.
CatSpec == CatInit /\ [][CatNext]_vars /\ \A r \in Requests : WF_vars(Step(r))

-----------------------------------------------------------------------------
(* What is expected of it.                                                 *)

RowsOf(refs) == {Absent} \cup {Row(b, v) : b \in BOOLEAN, v \in refs \cup {None}}

\* The rows have their shapes, every reference leads to a row that exists, and
\* what a request carries between two statements still does.  A user has at
\* most one open membership in an area, however grants race.
CatTypeOK ==
  /\ profiles \in [Profiles -> RowsOf(Versions)]
  /\ areas \in [Areas -> RowsOf(Areas)]
  /\ versions \in [Versions -> {"draft", "published", "obsolete"}]
  /\ released \subseteq Versions
  /\ counters \in [Profiles -> 0..(MaxDocs + 1)]
  /\ \A a \in Areas : areas[a].exists => ParentExists(a, areas[a])
  /\ \A i \in DOMAIN docs :
       /\ GetProfile(docs[i].profile) /\ GetArea(docs[i].area)
       /\ docs[i].status \in Statuses /\ docs[i].seq \in 0..MaxDocs
       /\ docs[i].code \in ManualCodes
  /\ \A m \in members : m.role \in Roles /\ GetArea(m.area)
  /\ \A m, n \in members :
       m.open /\ n.open /\ m.user = n.user /\ m.area = n.area => m = n
  /\ \A i \in DOMAIN documents : documents[i].cd \in DOMAIN docs
  /\ legacy \in [Legacy -> 0..MaxDocs]
  /\ \A r \in Requests : reqs[r].pc \in {"create", "resolved", "status"}
                         => reqs[r].cd \in DOMAIN docs

\* The automatic numbers of a profile are 1, 2, 3, ... with none missing and
\* none given twice, whatever is refused, abandoned or raced on the way: a
\* number is spent exactly when the document that bears it is committed.  No
\* two controlled documents of a profile share a code, retired ones included,
\* although a code is looked up and inserted in two statements and a manual
\* code may look like an automatic one.
Numbered ==
  /\ CatTypeOK
  /\ \A p \in Profiles :
       LET given == {i \in DOMAIN docs : docs[i].profile = p /\ docs[i].seq # 0}
       IN  /\ {docs[i].seq : i \in given} = 1..(ensureCounter(p) - 1)
           /\ Cardinality(given) = ensureCounter(p) - 1
  /\ \A i, j \in DOMAIN docs :
       docs[i].profile = docs[j].profile /\ docs[i].code = docs[j].code => i = j

\* A document is made from a template version that has been published, even
\* if the profile was pointed at a draft by a plain update and whatever stale
\* writes do to the version afterwards; its first revision is that version's
\* object, and it has its snapshot only once it has its revision.
FromPublished ==
  \A i \in DOMAIN documents :
    /\ documents[i].tpl \in released
    /\ documents[i].key \in {None, documents[i].tpl}
    /\ documents[i].snapshot # None => documents[i].key = documents[i].tpl

\* Wherever the startup migration is stopped and however often it is run, it
\* leaves no controlled document of its own making that no old document is
\* linked to; a linked document hangs on the row with its code, and two linked
\* documents share a row exactly if their ids share the eight digits.
BackfillWhole ==
  /\ \A l \in Legacy : legacy[l] # 0 =>
       /\ legacy[l] \in DOMAIN docs
       /\ docs[legacy[l]].profile = Unassigned
       /\ docs[legacy[l]].code = LegacyCode(l)
  /\ \A i \in DOMAIN docs : docs[i].by = "backfill" =>
       \E l \in Legacy : legacy[l] = i
  /\ \A k, l \in Legacy : legacy[k] # 0 /\ legacy[l] # 0 =>
       (legacy[k] = legacy[l] <=> Prefix[k] = Prefix[l])

\* A request that opened its transaction ends it.
NumberingEnds ==
  \A r \in Requests : (reqs[r].pc = "begun") ~> (reqs[r].pc \notin InTx)

=============================================================================
