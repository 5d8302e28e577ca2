--------------------------- MODULE TemplateLifecycle ---------------------------
(***************************************************************************)
(* One template of templates_v2 and its versions: creation, autosave,      *)
(* schemas, submission, review, approval, publication, archiving and the   *)
(* configuration of who reviews and approves.                              *)
(*                                                                         *)
(* The service has no transactions.  A request reads the template, then    *)
(* the version, decides, and writes in up to four statements, each on its  *)
(* own: other requests come in between, and an error or a crash leaves the *)
(* rest undone.  UpdateTemplate and UpdateVersion write every column from  *)
(* the row that was read, with no test that the row is still that one.  A  *)
(* request here is the template it read and the statements it has to do.   *)
(*                                                                         *)
(* The running server passes neither an authorization function nor a       *)
(* resolver registry to this service.  The audit log is left out: it is    *)
(* appended to last, and nothing of the template depends on it.            *)
(***************************************************************************)
EXTENDS Naturals, Sequences, FiniteSets

CONSTANTS
  Users,        \* users who send requests
  Writers,      \* those of them who create templates and versions
  RolesOf,      \* [Users -> set of roles], roles put in the request by IAM
  Configs,      \* approval configurations that may be asked for
  Contents,     \* contents a client may upload
  Schemas,      \* placeholder schemas a client may send, see Placeholder
  EmptySchema,  \* the schema of version 1
  Requests,     \* requests in flight
  MaxVersions,  \* bound on the versions of the template
  MaxRequests,  \* bound on the requests sent
  NoOne,        \* NULL in reviewer_id and approver_id
  NoRole,       \* NULL in pending_reviewer_role
  NoHash        \* content_hash before the first save, and a missing object

ASSUME TemplateAssumption ==
  /\ RolesOf \in [Users -> SUBSET STRING] /\ Writers \subseteq Users
  /\ Configs \subseteq [rev : STRING \cup {NoRole}, app : STRING]
  /\ NoOne \notin Users /\ NoRole \notin STRING /\ NoHash \notin Contents
  /\ EmptySchema \in Schemas /\ DOMAIN EmptySchema = {}
  /\ \A s \in Schemas : IsFiniteSet(DOMAIN s)
  /\ MaxVersions \in Nat \ {0} /\ MaxRequests \in Nat

VARIABLES
  tpl,      \* the row of templates_v2_template
  ver,      \* the rows of templates_v2_template_version, by number
  config,   \* the row of templates_v2_approval_config
  object,   \* the object under each version's docx_storage_key
  urls,     \* versions with a presigned PUT that has not expired
  req,      \* the requests
  sent      \* how many requests were sent

tvars == <<tpl, ver, config, object, urls, req, sent>>

Numbers == 1..MaxVersions
NoTemplate == [none |-> "template"]
NoVersion == [none |-> "version"]
NoConfig == [none |-> "config"]
Idle == [phase |-> "idle"]

Statuses == {"draft", "in_review", "approved", "published", "obsolete"}

(* A row of templates_v2_template_version. *)
Version(author, revRole, appRole, schema) ==
  [status |-> "draft", author |-> author, revRole |-> revRole,
   appRole |-> appRole, reviewer |-> NoOne, approver |-> NoOne,
   hash |-> NoHash, schema |-> schema]

Existing == {n \in Numbers : ver[n] # NoVersion}

TplInit ==
  /\ tpl = NoTemplate /\ ver = [n \in Numbers |-> NoVersion]
  /\ config = NoConfig /\ object = [n \in Numbers |-> NoHash]
  /\ urls = {} /\ sent = 0
  /\ req = [r \in Requests |-> Idle]

-----------------------------------------------------------------------------
(* The rules of the domain package. *)

HasReviewer(cfg) == cfg.rev # NoRole /\ cfg.rev # ""

CanTransition(from, to, hasReviewer) ==
  \/ from = "draft" /\ to = "in_review"
  \/ from = "in_review" /\ to = "draft"
  \/ from = "in_review" /\ to = "approved" /\ hasReviewer
  \/ from = "in_review" /\ to = "published" /\ ~hasReviewer
  \/ from = "approved" /\ to \in {"published", "draft"}
  \/ from = "published" /\ to = "obsolete"

(* Mutant: the approver is only compared with the author. *)
CheckSegregation_AuthorOnly(actor, author, reviewer) == actor # author

CheckSegregation(actor, author, reviewer) ==
  actor # author /\ (reviewer # NoOne => actor # reviewer)

ContainsRole(a, role) == role \in RolesOf[a]

-----------------------------------------------------------------------------
(* Placeholder schemas: a function from ids to placeholders, in which       *)
(* visibleIf is the id of another placeholder or "".  Limits and patterns   *)
(* are either well formed or not.                                           *)
Placeholder == [name : STRING, computed : BOOLEAN, typed : BOOLEAN,
                resolver : STRING, wellFormed : BOOLEAN, visibleIf : STRING]

(* Depth-first from one id along visibleIf: with gray on the stack the walk *)
(* ends, and meets neither gray nor an unknown id, from the ids in V[gray]. *)
Visit(s, id) ==
  LET V[gray \in SUBSET DOMAIN s] ==
        {i \in DOMAIN s \ gray :
           s[i].visibleIf # "" => s[i].visibleIf \in V[gray \cup {i}]}
  IN id \in V[{}]

(* Mutant: only a placeholder that depends on itself is refused. *)
DetectVisibilityCycle_SelfOnly(s) ==
  \E i \in DOMAIN s : s[i].visibleIf = i \/ s[i].visibleIf \notin DOMAIN s \cup {""}

DetectVisibilityCycle(s) == \E i \in DOMAIN s : ~Visit(s, i)

ValidatePlaceholders(s) ==
  /\ "" \notin DOMAIN s
  /\ \A i, j \in DOMAIN s : s[i].name = s[j].name /\ s[i].name # "" => i = j
  /\ \A i \in DOMAIN s :
       /\ s[i].name # "" => s[i].typed /\ s[i].resolver = s[i].name
       /\ s[i].wellFormed
       /\ s[i].computed => s[i].resolver # ""
  /\ ~DetectVisibilityCycle(s)

-----------------------------------------------------------------------------
(* Requests.  Begin is GetTemplate; Plan fixes the statements a request     *)
(* will do after its checks; a refused request is a Fail.                   *)

Begin(r) ==
  /\ req[r] = Idle /\ sent < MaxRequests /\ sent' = sent + 1 /\ tpl # NoTemplate
  /\ req' = [req EXCEPT ![r] = [phase |-> "read", tpl |-> tpl]]
  /\ UNCHANGED <<tpl, ver, config, object, urls>>

Plan(r, todo) ==
  /\ req' = [req EXCEPT ![r] = [phase |-> "write", todo |-> todo]]
  /\ UNCHANGED <<tpl, ver, config, object, urls, sent>>

Read(r) == req[r].phase = "read"

(* GetVersion, refused when there is none. *)
GetVersion(r, n) == Read(r) /\ ver[n] # NoVersion

(* The statement a request is at, and what is left when it is done. *)
At(r, kind) == req[r].phase = "write" /\ Head(req[r].todo).do = kind
Stmt(r) == Head(req[r].todo)
Rest(r) == IF Len(req[r].todo) = 1 THEN Idle
           ELSE [req[r] EXCEPT !.todo = Tail(@)]
Done(r) == req' = [req EXCEPT ![r] = Rest(r)]

(* An error, a refusal or a crash: what was written stays. *)
Fail(r) ==
  /\ req[r] # Idle
  /\ req' = [req EXCEPT ![r] = Idle]
  /\ UNCHANGED <<tpl, ver, config, object, urls, sent>>

SetVersion(n, row) == [do |-> "version", n |-> n, row |-> row]
SetTemplate(row) == [do |-> "template", row |-> row]

-----------------------------------------------------------------------------
(* The statements. *)

(* INSERT of the template; a second one with the same key is a conflict. *)
InsertTemplate(r) ==
  /\ At(r, "new")
  /\ tpl = NoTemplate
  /\ tpl' = Stmt(r).row /\ Done(r)
  /\ UNCHANGED <<ver, config, object, urls, sent>>

(* UPDATE of every column of the template. *)
UpdateTemplate(r) ==
  /\ At(r, "template")
  /\ tpl' = Stmt(r).row /\ Done(r)
  /\ UNCHANGED <<ver, config, object, urls, sent>>

(* INSERT of a version; UNIQUE (template_id, version_number). *)
CreateVersion(r) ==
  /\ At(r, "insert") /\ ver[Stmt(r).n] = NoVersion
  /\ ver' = [ver EXCEPT ![Stmt(r).n] = Stmt(r).row] /\ Done(r)
  /\ UNCHANGED <<tpl, config, object, urls, sent>>

(* UPDATE of every column of the version but its author. *)
UpdateVersion(r) ==
  /\ At(r, "version")
  /\ ver' = [ver EXCEPT ![Stmt(r).n] = Stmt(r).row] /\ Done(r)
  /\ UNCHANGED <<tpl, config, object, urls, sent>>

ObsoletePreviousPublished(r) ==
  /\ At(r, "obsolete")
  /\ ver' = [n \in Numbers |->
               IF n \in Existing /\ n # Stmt(r).n /\ ver[n].status = "published"
               THEN [ver[n] EXCEPT !.status = "obsolete"] ELSE ver[n]]
  /\ Done(r)
  /\ UNCHANGED <<tpl, config, object, urls, sent>>

SaveApprovalConfig(r) ==
  /\ At(r, "config")
  /\ config' = Stmt(r).cfg /\ Done(r)
  /\ UNCHANGED <<tpl, ver, object, urls, sent>>

(* The object read and hashed after the version was read: a hash that is    *)
(* not the expected one deletes the object, a missing object ends the save. *)
HeadContentHash(r) ==
  /\ At(r, "head") /\ object[Stmt(r).n] # NoHash
  /\ IF object[Stmt(r).n] = Stmt(r).expected
     THEN Done(r) /\ UNCHANGED object
     ELSE /\ req' = [req EXCEPT ![r] = Idle]
          /\ object' = [object EXCEPT ![Stmt(r).n] = NoHash]
  /\ UNCHANGED <<tpl, ver, config, urls, sent>>

-----------------------------------------------------------------------------
(* The operations of the service. *)

(* Mutant: latest_version is written before the version is inserted.        *)
CreateNextVersion_CountFirst(r, a) ==
  LET t == req[r].tpl
      from == IF t.published # 0 THEN t.published ELSE t.latest
      n == t.latest + 1
  IN /\ Read(r) /\ ~t.archived
     /\ n \in Numbers /\ from \in Existing
     /\ Plan(r, <<SetTemplate([t EXCEPT !.latest = n]),
                  [do |-> "insert", n |-> n,
                   row |-> Version(a, NoRole, "", ver[from].schema)]>>)

CreateTemplate(r, a, cfg) ==
  /\ req[r] = Idle /\ sent < MaxRequests /\ sent' = sent + 1 /\ tpl = NoTemplate
  /\ req' = [req EXCEPT ![r] = [phase |-> "write", todo |->
       <<[do |-> "new", row |-> [latest |-> 1, published |-> 0,
                                 archived |-> FALSE, by |-> a]],
         [do |-> "insert", n |-> 1, row |-> Version(a, cfg.rev, cfg.app, EmptySchema)],
         [do |-> "config", cfg |-> cfg]>>]]
  /\ UNCHANGED <<tpl, ver, config, object, urls>>

CreateNextVersion(r, a) ==
  LET t == req[r].tpl
      from == IF t.published # 0 THEN t.published ELSE t.latest
      n == t.latest + 1
  IN /\ Read(r) /\ ~t.archived
     /\ n \in Numbers /\ from \in Existing
     /\ Plan(r, <<[do |-> "insert", n |-> n,
                   row |-> Version(a, NoRole, "", ver[from].schema)],
                  SetTemplate([t EXCEPT !.latest = n])>>)

PresignAutosave(r, n) ==
  /\ GetVersion(r, n) /\ ver[n].status = "draft"
  /\ urls' = urls \cup {n}
  /\ req' = [req EXCEPT ![r] = Idle]
  /\ UNCHANGED <<tpl, ver, config, object, sent>>

CommitAutosave(r, n, expected) ==
  /\ GetVersion(r, n) /\ ver[n].status = "draft"
  /\ Plan(r, <<[do |-> "head", n |-> n, expected |-> expected],
               SetVersion(n, [ver[n] EXCEPT !.hash = expected])>>)

UpdateSchemas(r, n, schema, expected) ==
  /\ GetVersion(r, n) /\ ver[n].status = "draft"
  /\ expected # NoHash => expected = ver[n].hash
  /\ ValidatePlaceholders(schema)
  /\ Plan(r, <<SetVersion(n, [ver[n] EXCEPT !.schema = schema])>>)

SubmitForReview(r, n) ==
  /\ GetVersion(r, n) /\ ver[n].status = "draft" /\ config # NoConfig
  /\ CanTransition("draft", "in_review", HasReviewer(config))
  /\ Plan(r, <<SetVersion(n, [ver[n] EXCEPT !.status = "in_review",
                                !.revRole = config.rev, !.appRole = config.app])>>)

Review(r, n, a, accept) ==
  LET v == ver[n]
      to == IF accept THEN "approved" ELSE "draft"
  IN /\ GetVersion(r, n) /\ v.status = "in_review" /\ v.revRole # NoRole
     /\ ContainsRole(a, v.revRole) /\ CheckSegregation(a, v.author, NoOne)
     /\ CanTransition(v.status, to, TRUE)
     /\ Plan(r, <<SetVersion(n, [v EXCEPT !.status = to,
                                   !.reviewer = IF accept THEN a ELSE @])>>)

(* With a reviewer the version has to be reviewed, without one submitted. *)
MayApprove(v) == v.status = IF v.revRole # NoRole THEN "approved" ELSE "in_review"

Approve(r, n, a, accept) ==
  LET v == ver[n]
      to == IF accept THEN "published" ELSE "draft"
  IN /\ GetVersion(r, n) /\ MayApprove(v)
     /\ ContainsRole(a, v.appRole) /\ CheckSegregation(a, v.author, v.reviewer)
     /\ CanTransition(v.status, to, v.revRole # NoRole)
     /\ Plan(r, IF accept
                THEN <<[do |-> "obsolete", n |-> n],
                       SetTemplate([req[r].tpl EXCEPT !.published = n]),
                       SetVersion(n, [v EXCEPT !.status = to, !.approver = a])>>
                ELSE <<SetVersion(n, [v EXCEPT !.status = to])>>)

ArchiveTemplate(r) ==
  /\ Read(r) /\ ~req[r].tpl.archived
  /\ Plan(r, <<SetTemplate([req[r].tpl EXCEPT !.archived = TRUE])>>)

(* Before the first publication the creator may change the configuration,   *)
(* afterwards only an administrator.                                        *)
UpsertApprovalConfig(r, a, cfg) ==
  /\ Read(r) /\ ~req[r].tpl.archived
  /\ \/ ContainsRole(a, "admin")
     \/ req[r].tpl.published = 0 /\ req[r].tpl.by = a
  /\ cfg.app # ""
  /\ Plan(r, <<[do |-> "config", cfg |-> cfg]>>)

-----------------------------------------------------------------------------
(* The routes, with what they decode from the request. *)

PostTemplate(r, a) == \E cfg \in Configs : CreateTemplate(r, a, cfg)
PostVersion(r, a) == CreateNextVersion(r, a)
PostPresign(r, n) == PresignAutosave(r, n)
PostCommit(r, n) == \E c \in Contents : CommitAutosave(r, n, c)
PutSchema(r, n) ==
  \E s \in Schemas, c \in Contents \cup {NoHash} : UpdateSchemas(r, n, s, c)
PostSubmit(r, n) == SubmitForReview(r, n)
PostReview(r, n, a) == \E accept \in BOOLEAN : Review(r, n, a, accept)
PostApprove(r, n, a) == \E accept \in BOOLEAN : Approve(r, n, a, accept)
PostArchive(r) == ArchiveTemplate(r)
PutApprovalConfig(r, a) == \E cfg \in Configs : UpsertApprovalConfig(r, a, cfg)

(* The client's upload, and the expiry of its URL. *)
Upload(n, c) ==
  /\ n \in urls /\ object' = [object EXCEPT ![n] = c]
  /\ UNCHANGED <<tpl, ver, config, urls, req, sent>>
ExpireURL(n) ==
  /\ n \in urls /\ urls' = urls \ {n}
  /\ UNCHANGED <<tpl, ver, config, object, req, sent>>

Routes(r) ==
  \/ PostArchive(r)
  \/ \E n \in Numbers : PostPresign(r, n) \/ PostCommit(r, n) \/ PutSchema(r, n)
                        \/ PostSubmit(r, n)
  \/ \E a \in Writers : PostTemplate(r, a) \/ PostVersion(r, a)
  \/ \E a \in Users :
       \/ PutApprovalConfig(r, a)
       \/ \E n \in Numbers : PostReview(r, n, a) \/ PostApprove(r, n, a)

Statements(r) ==
  \/ InsertTemplate(r) \/ UpdateTemplate(r) \/ CreateVersion(r)
  \/ UpdateVersion(r) \/ ObsoletePreviousPublished(r) \/ SaveApprovalConfig(r)
  \/ HeadContentHash(r)

TplNext ==
  \/ \E r \in Requests : Begin(r) \/ Routes(r) \/ Statements(r) \/ Fail(r)
  \/ \E n \in Numbers : ExpireURL(n) \/ \E c \in Contents : Upload(n, c)

TplSpec == TplInit /\ [][TplNext]_tvars

-----------------------------------------------------------------------------
(* A version that was never submitted has the approver role "".             *)
VersionRow ==
  [status : Statuses, author : Users, revRole : STRING \cup {NoRole},
   appRole : STRING \cup {""}, reviewer : Users \cup {NoOne},
   approver : Users \cup {NoOne}, hash : Contents \cup {NoHash}, schema : Schemas]

TplTypeOK ==
  /\ tpl # NoTemplate => tpl \in [latest : Numbers, published : Numbers \cup {0},
                                  archived : BOOLEAN, by : Users]
  /\ \A n \in Existing : ver[n] \in VersionRow
  /\ config # NoConfig => config \in Configs
  /\ object \in [Numbers -> Contents \cup {NoHash}] /\ urls \subseteq Existing
  /\ \A r \in Requests : req[r].phase \in {"idle", "read", "write"}

(* Who signed a version: although every write may be one of a stale row, a   *)
(* reviewed version was reviewed by a holder of the role it was submitted    *)
(* for, who is not its author, and a published one approved by a holder of   *)
(* the approver role who is neither author nor reviewer (lifecycle.go).      *)
Reviewed(v) == v.revRole # NoRole /\ v.reviewer # v.author
               /\ v.reviewer \in Users /\ v.revRole \in RolesOf[v.reviewer]
SignedOff ==
  \A n \in Existing : LET v == ver[n] IN
    /\ v.status = "approved" => Reviewed(v)
    /\ v.status \in {"published", "obsolete"} =>
         /\ v.approver \in Users /\ v.appRole \in RolesOf[v.approver]
         /\ v.approver \notin {v.author, v.reviewer}
         /\ v.revRole # NoRole => Reviewed(v)

(* Version numbers have no holes and latest_version is one of them, or one   *)
(* that a failed creation left out: then the template has no version at all. *)
Contiguous ==
  /\ TplTypeOK
  /\ \A n \in Existing : 1..n \subseteq Existing
  /\ tpl # NoTemplate /\ Existing # {} => tpl.latest \in Existing
  /\ tpl # NoTemplate => tpl.published \in Existing \cup {0}

(* What a stored schema may be, by the definition and not the algorithm: no  *)
(* placeholder is reached from itself along visibleIf, and no name is used   *)
(* twice (schema.go, visibility_graph.go).                                   *)
Acyclic(s) == \A X \in SUBSET DOMAIN s :
                X # {} => \E i \in X : s[i].visibleIf \notin X
SchemasSound ==
  \A n \in Existing : LET s == ver[n].schema IN
    /\ Acyclic(s)
    /\ \A i \in DOMAIN s : s[i].visibleIf \in DOMAIN s \cup {""}
    /\ \A i, j \in DOMAIN s : i # j /\ s[i].name # "" => s[i].name # s[j].name
=============================================================================
