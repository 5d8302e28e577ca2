-------------------------------- MODULE FillIn --------------------------------
(***************************************************************************)
(* One document of documents_v2 from its creation to its frozen rendering: *)
(* the template snapshot, the placeholder values users fill in, the freeze *)
(* inside the deciding approval, the view and the forensic reconstruction. *)
(*                                                                         *)
(* CreateDocument is three database writes with no transaction around      *)
(* them, and a crash or an error may end it after any.  A value is         *)
(* validated in one statement and upserted in another, with no test of the *)
(* document's status in either.  Freeze runs in the transaction of the     *)
(* deciding signoff, which holds the row lock of the approval instance, so *)
(* there is one at a time; but it reads and upserts values on a connection *)
(* of its own: what it upserts stays when the transaction rolls back, and  *)
(* the signoff it decides on is not visible to its resolvers.              *)
(*                                                                         *)
(* The rendering service writes what it renders to one object per document, *)
(* frozen.docx, before it answers, and it goes on when its caller has gone: *)
(* a call abandoned by a signoff that failed may still write the object,   *)
(* after a later signoff was committed too.                                *)
(*                                                                         *)
(* The quorum that makes a signoff the deciding one is in module Approval; *)
(* here any approver's may be.  The running server wires neither the       *)
(* seeder of default rows nor the draft resolver nor the reader of users.  *)
(* A text is the set of words in it, the empty text the empty set.         *)
(***************************************************************************)
EXTENDS FiniteSets, Naturals

CONSTANTS
  Templates,     \* published template versions
  Schema,        \* [Templates -> SUBSET Placeholders]
  Placeholders,  \* placeholder ids
  Required,      \* those with Required
  Resolver,      \* the ResolverKey of the computed ones
  Named,         \* those with a Name, which the rendering substitutes by name
  Accepts,       \* [Placeholders -> SUBSET Texts], what type and limits allow
  Texts,         \* texts a user may send
  Writers,       \* concurrent PUT requests
  Approvers,     \* users who may sign
  MaxReviews,    \* bound on submissions
  MaxAbandoned   \* bound on the renderings of abandoned calls

Computed == DOMAIN Resolver

ASSUME FillInAssumption ==
  /\ Schema \in [Templates -> SUBSET Placeholders]
  /\ Required \subseteq Placeholders /\ Named \subseteq Placeholders
  /\ Computed \subseteq Placeholders
  /\ \A p \in Computed : Resolver[p] \in {"fixed", "approvers", "unreadable"}
  /\ Accepts \in [Placeholders -> SUBSET Texts]
  /\ "none" \notin Placeholders    \* None, for NULL, is no set of values
  /\ MaxReviews \in Nat /\ MaxAbandoned \in Nat

VARIABLES
  status,     \* documents.status, "none" before the document exists
  template,   \* documents.template_version_id
  creating,   \* the step CreateDocument is at
  snapshot,   \* the *_snapshot columns are written
  stored,     \* document_placeholder_values, placeholder -> text
  put,        \* the PUT requests between validation and upsert
  review,     \* the approval instance under way, numbered from 1
  signed,     \* committed approving signoffs, of every instance
  freeze,     \* the transaction of the deciding signoff
  hashed,     \* values_hash, as the values hashed; values_frozen_at
  final,      \* final_docx_s3_key and content_hash, as what was rendered
  object,     \* what the object store holds under final_docx_s3_key
  abandoned,  \* renderings whose caller was gone before they were written
  pdf,        \* final_pdf_s3_key, as the document it was made from
  attempt     \* the last entry appended to reconstruction_attempts

fvars == <<status, template, creating, snapshot, stored, put, review, signed,
           freeze, hashed, final, object, abandoned, pdf, attempt>>

None == [none |-> TRUE]
Idle == [phase |-> "idle"]
Empty == {}

(* Placeholders with a row that has a text. *)
Filled(vals) == DOMAIN vals

(* The request body as the fanout route reads it: an empty body_docx_s3_key  *)
(* or a null for resolved_values is refused.                                 *)
BodySchema(req) == req.body # None /\ req.resolved # None

(* What the fanout service renders: the body, the values, and which of them  *)
(* came under their name instead of their id.                                *)
Fanout(req) ==
  [body |-> req.body, vals |-> req.vals,
   named |-> req.named \cap Filled(req.vals)]

(* It is written to frozenDocxKey, whatever is there. *)
putObjectBuffer(doc) == object' = doc

(* Insert or update of one row; the last writer wins. *)
UpsertValue(vals, p, text) ==
  [q \in Filled(vals) \cup {p} |-> IF q = p THEN text ELSE vals[q]]

(* The rows of the document, by placeholder. *)
ListValues == stored

(* The snapshot columns and values_frozen_at. *)
ReadSnapshot ==
  [body   |-> IF snapshot THEN template ELSE None,
   schema |-> IF snapshot THEN Schema[template] ELSE {},
   frozen |-> hashed # None]

Init ==
  /\ status = "none" /\ template \in Templates /\ creating = "new"
  /\ snapshot = FALSE /\ stored = << >>
  /\ put = [w \in Writers |-> Idle]
  /\ review = 0 /\ signed = {} /\ freeze = Idle
  /\ hashed = None /\ final = None /\ object = None /\ abandoned = {}
  /\ pdf = None /\ attempt = None

-----------------------------------------------------------------------------
(* CreateDocument, first write: the document, its editor session and its    *)
(* first revision in one transaction.                                       *)
CreateDocument ==
  /\ creating = "new"
  /\ status' = "draft" /\ creating' = "inserted"
  /\ UNCHANGED <<template, snapshot, stored, put, review, signed, freeze,
                 hashed, final, object, abandoned, pdf, attempt>>

(* Second write: the storage key of the first revision. *)
SetRevisionStorageKey ==
  /\ creating = "inserted"
  /\ creating' = "keyed"
  /\ UNCHANGED <<status, template, snapshot, stored, put, review, signed,
                 freeze, hashed, final, object, abandoned, pdf, attempt>>

WriteSnapshot == snapshot' = TRUE

(* SnapshotFromTemplate: third write, the snapshot columns.  The production *)
(* SnapshotService has no seeder, so no value rows are inserted.            *)
SnapshotFromTemplate ==
  /\ creating = "keyed"
  /\ WriteSnapshot /\ creating' = "done"
  /\ UNCHANGED <<status, template, stored, put, review, signed, freeze,
                 hashed, final, object, abandoned, pdf, attempt>>

(* CreateDocument returns an error or the process dies between two writes:  *)
(* the document stays as it is and is never completed.                      *)
CreateFails ==
  /\ creating \in {"inserted", "keyed"}
  /\ creating' = "failed"
  /\ UNCHANGED <<status, template, snapshot, stored, put, review, signed,
                 freeze, hashed, final, object, abandoned, pdf, attempt>>

-----------------------------------------------------------------------------
LoadPlaceholderSchema == ReadSnapshot.schema

(* The schema a PUT validates against: the snapshot's, and the template's   *)
(* when the snapshot has none.                                              *)
LoadFillInSchema == Schema[template]
FillInSchema ==
  IF LoadPlaceholderSchema = {} THEN LoadFillInSchema ELSE LoadPlaceholderSchema

FindPlaceholder(schema, p) == p \in schema

(* Required, then length, pattern and the limits of the type. *)
ValidateValue(p, text) ==
  /\ ~(p \in Required /\ text = Empty)
  /\ text \in Accepts[p]

(* SetPlaceholderValue up to the upsert; nothing looks at the status.       *)
SetPlaceholderValue(p, text) ==
  /\ status # "none"
  /\ FindPlaceholder(FillInSchema, p)
  /\ ValidateValue(p, text)

(* A PUT that passed its checks, and its upsert. *)
PutPlaceholderValue(w, p, text) ==
  /\ put[w] = Idle
  /\ SetPlaceholderValue(p, text)
  /\ put' = [put EXCEPT ![w] = [phase |-> "valid", p |-> p, text |-> text]]
  /\ UNCHANGED <<status, template, creating, snapshot, stored, review, signed,
                 freeze, hashed, final, object, abandoned, pdf, attempt>>

FinishPut(w) ==
  /\ put[w] # Idle
  /\ stored' = UpsertValue(stored, put[w].p, put[w].text)
  /\ put' = [put EXCEPT ![w] = Idle]
  /\ UNCHANGED <<status, template, creating, snapshot, review, signed, freeze,
                 hashed, final, object, abandoned, pdf, attempt>>

-----------------------------------------------------------------------------
(* enforce_snapshot_on_submit_trg, on every write of documents. *)
EnforceSnapshot(s) == s # "draft" => snapshot

(* A submission, and the cancellation that returns to draft.  The signoffs  *)
(* of a cancelled instance stay in approval_signoffs.                       *)
Submit ==
  /\ status = "draft" /\ review < MaxReviews /\ EnforceSnapshot("under_review")
  /\ status' = "under_review" /\ review' = review + 1
  /\ UNCHANGED <<template, creating, snapshot, stored, put, signed, freeze,
                 hashed, final, object, abandoned, pdf, attempt>>

Cancel ==
  /\ status = "under_review" /\ freeze = Idle
  /\ status' = "draft"
  /\ UNCHANGED <<template, creating, snapshot, stored, put, review, signed,
                 freeze, hashed, final, object, abandoned, pdf, attempt>>

Decisions == {"approve", "reject"}

(* One vote of an approver in an instance: approval_signoffs is unique in   *)
(* instance and actor, and the row of an open transaction blocks a second.  *)
MayVote(a) ==
  /\ status = "under_review"
  /\ \A v \in Decisions : <<review, a, v>> \notin signed
  /\ freeze # Idle => freeze.by # a

(* A signoff that does not decide; it does not lock the instance, so it may *)
(* commit while another one freezes.                                        *)
Signoff(a, v) ==
  /\ MayVote(a)
  /\ signed' = signed \cup {<<review, a, v>>}
  /\ UNCHANGED <<status, template, creating, snapshot, stored, put, review,
                 freeze, hashed, final, object, abandoned, pdf, attempt>>

(* The non-computed required placeholders a frozen document must have.      *)
MustFill(schema) == (schema \cap Required) \ Computed

RequiredFilled(vals) ==
  \A p \in MustFill(LoadPlaceholderSchema) : p \in Filled(vals) /\ vals[p] # Empty

(* The deciding signoff begins to freeze: values_frozen_at is null, the     *)
(* values are read, the required ones must be there.                        *)
FreezeBegin(a) ==
  /\ MayVote(a) /\ freeze = Idle
  /\ ~ReadSnapshot.frozen
  /\ RequiredFilled(ListValues)
  /\ freeze' = [phase |-> "resolving", by |-> a, byID |-> ListValues,
                todo |-> LoadPlaceholderSchema \cap Computed]
  /\ UNCHANGED <<status, template, creating, snapshot, stored, put, review,
                 signed, hashed, final, object, abandoned, pdf, attempt>>

Names(votes) == LET names == {s[2] : s \in votes}
                IN IF names = {} THEN {"aguardando"} ELSE names

(* Mutant: the query loses its "AND s.decision='approve'". *)
GetApprovers_AnyVote == Names(signed)

(* The names an approvers placeholder gets: of every approving signoff that *)
(* is committed, whichever instance it belongs to.                          *)
GetApprovers == Names({s \in signed : s[3] = "approve"})

(* Resolve.  doc_code is asked for the controlled document "" and doc_title *)
(* has no reader: neither ever resolves.                                    *)
Resolve(p) == IF Resolver[p] = "approvers" THEN GetApprovers ELSE {"fixed"}

(* One computed placeholder: resolved, and upserted outside the transaction. *)
FreezeResolve ==
  /\ freeze.phase = "resolving"
  /\ \E p \in freeze.todo :
       /\ Resolver[p] # "unreadable"
       /\ stored' = UpsertValue(stored, p, Resolve(p))
       /\ freeze' = [freeze EXCEPT !.byID = UpsertValue(@, p, Resolve(p)),
                                   !.todo = @ \ {p}]
  /\ UNCHANGED <<status, template, creating, snapshot, put, review, signed,
                 hashed, final, object, abandoned, pdf, attempt>>

(* The values that are hashed and rendered: those of the schema. *)
ValMap(byID) == [p \in Filled(byID) \cap LoadPlaceholderSchema |-> byID[p]]

(* The request of a freeze: the values under their names where they have     *)
(* one, and again by id for the sub-blocks.                                  *)
FreezeRequest(vals) ==
  [body |-> ReadSnapshot.body, vals |-> vals, named |-> Named, resolved |-> vals]

(* Mutant: the fanout is given the rows as they are now stored. *)
FreezeRender_Stored ==
  /\ freeze.phase = "resolving" /\ freeze.todo = {}
  /\ BodySchema(FreezeRequest(ValMap(stored)))
  /\ freeze' = [phase |-> "rendering", by |-> freeze.by,
                vals |-> ValMap(freeze.byID),
                doc |-> Fanout(FreezeRequest(ValMap(stored)))]
  /\ UNCHANGED <<status, template, creating, snapshot, stored, put, review,
                 signed, hashed, final, object, abandoned, pdf, attempt>>

(* The hash and values_frozen_at are written in the transaction, and the     *)
(* fanout service is called.                                                 *)
FreezeRender ==
  /\ freeze.phase = "resolving" /\ freeze.todo = {}
  /\ BodySchema(FreezeRequest(ValMap(freeze.byID)))
  /\ freeze' = [phase |-> "rendering", by |-> freeze.by,
                vals |-> ValMap(freeze.byID),
                doc |-> Fanout(FreezeRequest(ValMap(freeze.byID)))]
  /\ UNCHANGED <<status, template, creating, snapshot, stored, put, review,
                 signed, hashed, final, object, abandoned, pdf, attempt>>

(* The service writes the object and answers with its key. *)
FreezeRendered ==
  /\ freeze.phase = "rendering"
  /\ putObjectBuffer(freeze.doc)
  /\ freeze' = [freeze EXCEPT !.phase = "rendered"]
  /\ UNCHANGED <<status, template, creating, snapshot, stored, put, review,
                 signed, hashed, final, abandoned, pdf, attempt>>

(* The transaction rolls back: a resolver, the fanout service, the request's *)
(* context, the commit or the process fails.  Upserted computed values stay, *)
(* and a call that was not answered may be carried out all the same.         *)
FreezeRollback ==
  /\ freeze # Idle
  /\ freeze' = Idle
  /\ \/ UNCHANGED abandoned
     \/ /\ freeze.phase = "rendering" /\ Cardinality(abandoned) < MaxAbandoned
        /\ abandoned' = abandoned \cup {freeze.doc}
  /\ UNCHANGED <<status, template, creating, snapshot, stored, put, review,
                 signed, hashed, final, object, pdf, attempt>>

(* An abandoned call writes its object.  It stays in abandoned, which two    *)
(* calls with the same rendering share.                                      *)
LateRendering ==
  /\ \E doc \in abandoned : putObjectBuffer(doc)
  /\ UNCHANGED <<status, template, creating, snapshot, stored, put, review,
                 signed, freeze, hashed, final, abandoned, pdf, attempt>>

WriteFreeze(vals) == hashed' = vals
WriteFinalDocx(doc) == final' = doc

(* The commit: signoff, freeze, key and hash of the rendering and status     *)
(* together.                                                                 *)
FreezeCommit ==
  /\ freeze.phase = "rendered"
  /\ status' = "approved" /\ signed' = signed \cup {<<review, freeze.by, "approve">>}
  /\ WriteFreeze(freeze.vals) /\ WriteFinalDocx(freeze.doc) /\ freeze' = Idle
  /\ UNCHANGED <<template, creating, snapshot, stored, put, review, object,
                 abandoned, pdf, attempt>>

-----------------------------------------------------------------------------
(* ReadFinalDocxS3Key refuses a document that is not frozen.                *)
ReadFinalDocxS3Key == final # None

(* The PDF worker converts what is stored under the key it was dispatched    *)
(* with and writes final_pdf_s3_key; nothing compares it with content_hash.  *)
WritePDF ==
  /\ ReadFinalDocxS3Key
  /\ pdf' = object
  /\ UNCHANGED <<status, template, creating, snapshot, stored, put, review,
                 signed, freeze, hashed, final, object, abandoned, attempt>>

(* Mutant: the values are sent as resolved_values too. *)
ReadForReconstruction_Resolved ==
  [body |-> ReadSnapshot.body, vals |-> ListValues, named |-> {},
   resolved |-> ListValues]

(* What a reconstruction asks to be rendered again: the rows as they are now *)
(* stored, by id, with no names.  ResolvedValues is not set, a null in JSON. *)
ReadForReconstruction ==
  [body |-> ReadSnapshot.body, vals |-> ListValues, named |-> {}, resolved |-> None]

(* The entry is appended; final_docx_s3_key and content_hash are not touched. *)
AppendReconstruction(entry) == attempt' = entry

(* The same route renders it, so the same object would be written.           *)
Reconstruct(req) ==
  /\ BodySchema(req)
  /\ putObjectBuffer(Fanout(req))
  /\ AppendReconstruction([vals |-> req.vals, matches |-> Fanout(req) = final])

(* A refused request ends with an error and changes nothing. *)
GetReconstruction ==
  /\ status # "none"
  /\ IF BodySchema(ReadForReconstruction)
     THEN Reconstruct(ReadForReconstruction)
     ELSE UNCHANGED <<object, attempt>>
  /\ UNCHANGED <<status, template, creating, snapshot, stored, put, review,
                 signed, freeze, hashed, final, abandoned, pdf>>

Next ==
  \/ CreateDocument \/ SetRevisionStorageKey \/ SnapshotFromTemplate
  \/ CreateFails
  \/ \E w \in Writers, p \in Placeholders, text \in Texts :
       PutPlaceholderValue(w, p, text)
  \/ \E w \in Writers : FinishPut(w)
  \/ Submit \/ Cancel
  \/ \E a \in Approvers :
       FreezeBegin(a) \/ \E v \in Decisions : Signoff(a, v)
  \/ FreezeResolve \/ FreezeRender \/ FreezeRendered \/ FreezeRollback
  \/ FreezeCommit \/ LateRendering
  \/ WritePDF \/ GetReconstruction

FillInSpec == Init /\ [][Next]_fvars

-----------------------------------------------------------------------------
(* GetViewURL gives the PDF of a document in one of these states. *)
ViewableStatuses == {"approved", "scheduled", "published"}
Viewable == status \in ViewableStatuses /\ pdf # None

FillInTypeOK ==
  /\ status \in {"none", "draft", "under_review", "approved"}
  /\ template \in Templates
  /\ creating \in {"new", "inserted", "keyed", "done", "failed"}
  /\ snapshot \in BOOLEAN
  /\ Filled(stored) \subseteq Placeholders
  /\ review \in 0..MaxReviews /\ signed \subseteq (1..MaxReviews) \X Approvers \X Decisions
  /\ freeze.phase \in {"idle", "resolving", "rendering", "rendered"}

(* Required placeholders of the template all have a text. *)
Complete(vals) ==
  \A p \in MustFill(Schema[template]) : p \in Filled(vals) /\ vals[p] # Empty

(* Freezing and approving are one: a document is approved exactly when it    *)
(* has a values hash and the key and hash of a rendering, and that rendering *)
(* is of the values that were hashed, with a text for every required         *)
(* placeholder of the template, although the document may have been created  *)
(* only in part (freeze_service.go Freeze in RecordSignoff).  What lies      *)
(* under the key, and what a viewer is shown, is that rendering or the one   *)
(* of an abandoned call, and of this template with every required text in    *)
(* any case.                                                                 *)
FrozenWhole ==
  /\ FillInTypeOK
  /\ status = "approved" <=> hashed # None
  /\ (final # None) <=> (hashed # None)
  /\ hashed # None =>
       final.vals = hashed /\ Complete(hashed) /\ object \in {final} \cup abandoned
  /\ Viewable => pdf \in {final} \cup abandoned
  /\ object # None => object.body = template /\ Complete(object.vals)

(* Everyone named in a frozen approvers placeholder has signed an approval   *)
(* of the document; a rejection never puts a name there.                     *)
ApproversSigned ==
  hashed # None =>
    \A p \in Filled(hashed) :
      p \in Computed /\ Resolver[p] = "approvers" /\ hashed[p] # {"aguardando"} =>
        \A a \in hashed[p] : \E n \in 1..review : <<n, a, "approve">> \in signed

(* The hashes and the key of an approved revision never change, whatever     *)
(* retries, reconstructions and late writes follow; the object under the key *)
(* is not written again, except by a call abandoned before the approval.     *)
FrozenOnce ==
  [][hashed # None =>
       /\ hashed' = hashed /\ final' = final
       /\ object' = object \/ object' \in abandoned]_fvars
=============================================================================
