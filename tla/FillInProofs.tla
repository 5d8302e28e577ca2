---------------------------- MODULE FillInProofs ----------------------------
(***************************************************************************)
(* Proofs about FillIn, for any templates, placeholders, texts, writers    *)
(* and approvers and any bound on submissions.                             *)
(***************************************************************************)
EXTENDS FillIn, TLAPS

-----------------------------------------------------------------------------
(* The inductive invariant.                                                  *)

PutState == {Idle} \cup [phase : {"valid"}, p : Placeholders, text : Texts]

(* A rendering of the template with a text for every required placeholder. *)
Whole(doc) == doc # None /\ doc.body = template /\ Complete(doc.vals)

(* The text is the one for nobody, or everyone in it has approved. *)
AllSigned(text) ==
  text # {"aguardando"} =>
    \A a \in text : \E n \in 1..review : <<n, a, "approve">> \in signed

NamesOK(vals, P) ==
  \A p \in Filled(vals) \cap P :
    p \in Computed /\ Resolver[p] = "approvers" => AllSigned(vals[p])

(* The deciding transaction while it resolves: the required values were      *)
(* there when it began, and what has been resolved is right; a value that a  *)
(* user has put in a computed placeholder is still to be resolved.           *)
Resolving(x) ==
  /\ DOMAIN x = {"phase", "by", "byID", "todo"} /\ x.phase = "resolving"
  /\ x.by \in Approvers
  /\ Filled(x.byID) \subseteq Placeholders /\ x.todo \subseteq Computed
  /\ Complete(x.byID) /\ NamesOK(x.byID, Schema[template] \ x.todo)

(* ... and once the rendering service is called; after its answer its object *)
(* is stored, unless an abandoned call has written since.                    *)
Called(x) ==
  /\ DOMAIN x = {"phase", "by", "vals", "doc"} /\ x.phase \in {"rendering", "rendered"}
  /\ x.by \in Approvers
  /\ Filled(x.vals) \subseteq Placeholders
  /\ Whole(x.doc) /\ x.doc.vals = x.vals /\ NamesOK(x.vals, Placeholders)
  /\ x.phase = "rendered" => object \in {x.doc} \cup abandoned

FreezeOK ==
  \/ freeze = Idle
  \/ status = "under_review" /\ (Resolving(freeze) \/ Called(freeze))

(* Everything that is or will be stored is whole. *)
ObjectOK ==
  /\ object # None => Whole(object)
  /\ \A doc \in abandoned : Whole(doc)

StateOK ==
  /\ FillInTypeOK
  /\ put \in [Writers -> PutState]
  /\ signed \subseteq (1..review) \X Approvers \X Decisions
  /\ status \in {"under_review", "approved"} => snapshot /\ review >= 1
  /\ creating = "new" => status = "none"

DoneOK ==
  /\ status = "approved" <=> hashed # None
  /\ (final # None) <=> (hashed # None)
  /\ hashed # None =>
       /\ final.vals = hashed /\ Complete(hashed) /\ NamesOK(hashed, Placeholders)
       /\ Filled(hashed) \subseteq Placeholders
       /\ object \in {final} \cup abandoned
  /\ pdf # None => hashed # None /\ pdf \in {final} \cup abandoned

FillInInv == StateOK /\ FreezeOK /\ ObjectOK /\ DoneOK

(* What FrozenOnce says of a step. *)
FrozenStep ==
  hashed # None =>
    /\ hashed' = hashed /\ final' = final
    /\ object' = object \/ object' \in abandoned

GoodStep == FillInInv' /\ FrozenStep

-----------------------------------------------------------------------------
(* Facts about the invariant.                                                *)

LEMMA SchemaKnown ==
  ASSUME StateOK
  PROVE  Schema[template] \subseteq Placeholders
BY FillInAssumption DEF StateOK, FillInTypeOK

(* Under review the snapshot is there, so the freeze sees the template. *)
LEMMA SnapshotRead ==
  ASSUME StateOK, status = "under_review"
  PROVE  LoadPlaceholderSchema = Schema[template] /\ ReadSnapshot.body = template
BY DEF StateOK, LoadPlaceholderSchema, ReadSnapshot

LEMMA IdlePhase == Idle.phase = "idle"
BY DEF Idle

(* A set of values is not NULL, nor is a rendering. *)
LEMMA ValuesNotNone ==
  ASSUME NEW x, Filled(x) \subseteq Placeholders
  PROVE  x # None
<1>1. DOMAIN None = {"none"}
  BY DEF None
<1> QED BY <1>1, FillInAssumption DEF Filled

LEMMA FanoutFields ==
  ASSUME NEW req
  PROVE  /\ Fanout(req) # None
         /\ Fanout(req).vals = req.vals /\ Fanout(req).body = req.body
BY DEF Fanout, None

LEMMA Upserted ==
  ASSUME NEW vals, NEW p, NEW text
  PROVE  LET new == UpsertValue(vals, p, text)
         IN /\ Filled(new) = Filled(vals) \cup {p} /\ new[p] = text
            /\ \A q \in Filled(vals) \ {p} : new[q] = vals[q]
BY DEF UpsertValue, Filled

(* Votes only accumulate, and the template stays. *)
Onward ==
  /\ template' = template /\ signed \subseteq signed'
  /\ review \in Nat /\ review' \in Nat /\ review <= review'

(* Nothing is stored but what an abandoned call may store. *)
Stores == object' \in {object} \cup abandoned /\ abandoned \subseteq abandoned'

LEMMA AllSignedKept ==
  ASSUME Onward, NEW text, AllSigned(text)
  PROVE  AllSigned(text)'
BY DEF Onward, AllSigned

LEMMA NamesKept ==
  ASSUME Onward, NEW vals, NEW P, NamesOK(vals, P)
  PROVE  NamesOK(vals, P)'
BY AllSignedKept DEF NamesOK

LEMMA CompleteKept ==
  ASSUME Onward, NEW vals, Complete(vals)
  PROVE  Complete(vals)'
BY DEF Onward, Complete

LEMMA WholeKept ==
  ASSUME Onward, NEW doc, Whole(doc)
  PROVE  Whole(doc)'
BY CompleteKept DEF Whole, Onward

LEMMA ResolvingKept ==
  ASSUME Onward, NEW x, Resolving(x)
  PROVE  Resolving(x)'
<1>1. Complete(x.byID)' /\ NamesOK(x.byID, Schema[template] \ x.todo)'
  <2>1. PICK P : P = Schema[template] \ x.todo
    OBVIOUS
  <2>2. NamesOK(x.byID, P)'
    BY <2>1, NamesKept DEF Resolving
  <2>3. Schema[template'] \ x.todo = P
    BY <2>1 DEF Onward
  <2> QED BY <2>2, <2>3, CompleteKept DEF Resolving, NamesOK, AllSigned
<1> QED BY <1>1 DEF Resolving

LEMMA CalledKept ==
  ASSUME Onward, Stores, NEW x, Called(x)
  PROVE  Called(x)'
<1>1. Whole(x.doc)' /\ NamesOK(x.vals, Placeholders)'
  BY WholeKept, NamesKept DEF Called
<1>2. x.phase = "rendered" => object' \in {x.doc} \cup abandoned'
  BY DEF Called, Stores
<1> QED BY <1>1, <1>2 DEF Called

LEMMA ObjectKept ==
  ASSUME Onward, Stores, ObjectOK, \A doc \in abandoned' \ abandoned : Whole(doc)
  PROVE  ObjectOK'
<1>1. \A doc : Whole(doc) => Whole(doc)'
  BY WholeKept
<1>2. \A doc \in abandoned' : Whole(doc)'
  BY <1>1 DEF ObjectOK
<1>3. PICK o : o = object'
  OBVIOUS
<1>4. o # None => Whole(o)'
  BY <1>1, <1>3 DEF ObjectOK, Stores
<1>5. object' # None => Whole(object)'
  BY <1>3, <1>4 DEF Whole
<1> QED BY <1>2, <1>5 DEF ObjectOK, Whole

LEMMA DoneKept ==
  ASSUME Onward, Stores, DoneOK, UNCHANGED <<hashed, final>>,
         pdf' = pdf \/ (pdf' = object /\ hashed # None),
         status' = "approved" <=> status = "approved"
  PROVE  DoneOK'
<1>1. PICK h : h = hashed
  OBVIOUS
<1>2. h # None =>
        /\ final.vals = h /\ Complete(h)' /\ NamesOK(h, Placeholders)'
        /\ Filled(h) \subseteq Placeholders
  BY <1>1, NamesKept, CompleteKept DEF DoneOK
<1>3. hashed' = h
  BY <1>1
<1>4. hashed' # None =>
        /\ final'.vals = hashed' /\ Complete(hashed)' /\ NamesOK(hashed, Placeholders)'
        /\ Filled(hashed') \subseteq Placeholders
  BY <1>2, <1>3 DEF Complete, NamesOK
<1>5. hashed' # None => object' \in {final'} \cup abandoned'
  BY DEF DoneOK, Stores
<1>6. pdf' # None => hashed' # None /\ pdf' \in {final'} \cup abandoned'
  BY DEF DoneOK, Stores
<1> QED BY <1>4, <1>5, <1>6 DEF DoneOK

-----------------------------------------------------------------------------
(* Steps that leave the freeze and its results alone.                        *)
Calm ==
  /\ UNCHANGED <<freeze, hashed, final, abandoned>>
  /\ Onward /\ Stores /\ StateOK'
  /\ pdf' = pdf \/ (pdf' = object /\ hashed # None)
  /\ \/ status' = status
     \/ status' \in {"draft", "under_review"} /\ status # "approved" /\ freeze = Idle

LEMMA CalmStep ==
  ASSUME FillInInv, Calm
  PROVE  GoodStep
<1>1. UNCHANGED <<freeze, hashed, final, abandoned>> /\ Onward /\ Stores /\ StateOK'
  BY DEF Calm
<1>2. FreezeOK'
  <2>1. PICK x : x = freeze
    OBVIOUS
  <2>2. CASE x = Idle
    BY <1>1, <2>1, <2>2 DEF FreezeOK
  <2>3. CASE x # Idle
    <3>1. status = "under_review" /\ (Resolving(x) \/ Called(x))
      BY <2>1, <2>3 DEF FillInInv, FreezeOK
    <3>2. status' = "under_review" /\ freeze' = x
      BY <1>1, <2>1, <2>3, <3>1 DEF Calm
    <3>3. Resolving(x)' \/ Called(x)'
      BY <1>1, <3>1, ResolvingKept, CalledKept
    <3> QED BY <3>2, <3>3 DEF FreezeOK, Resolving, Called
  <2> QED BY <2>2, <2>3
<1>3. ObjectOK'
  BY <1>1, ObjectKept DEF FillInInv
<1>4. DoneOK'
  <2>1. status' = "approved" <=> status = "approved"
    BY DEF Calm
  <2>2. pdf' = pdf \/ (pdf' = object /\ hashed # None)
    BY DEF Calm
  <2> QED BY <1>1, <2>1, <2>2, DoneKept DEF FillInInv
<1>5. FrozenStep
  BY <1>1 DEF FrozenStep, Stores
<1> QED BY <1>1, <1>2, <1>3, <1>4, <1>5 DEF GoodStep, FillInInv

(* The writes of CreateDocument, and its failures. *)
LEMMA CreationStep ==
  ASSUME FillInInv,
         \/ CreateDocument \/ SetRevisionStorageKey
         \/ SnapshotFromTemplate \/ CreateFails
  PROVE  GoodStep
<1>0. UNCHANGED <<template, stored, put, review, signed, freeze, hashed, final,
                  object, abandoned, pdf, attempt>>
  BY DEF CreateDocument, SetRevisionStorageKey, SnapshotFromTemplate, CreateFails
<1>1. /\ creating' \in {"inserted", "keyed", "done", "failed"}
      /\ snapshot' = snapshot \/ snapshot' = TRUE
      /\ status' = status \/ (creating = "new" /\ status' = "draft")
  BY DEF CreateDocument, SetRevisionStorageKey, SnapshotFromTemplate, CreateFails, WriteSnapshot
<1>2. creating = "new" => status = "none" /\ freeze = Idle
  BY DEF FillInInv, StateOK, FreezeOK
<1>3. Onward
  BY <1>0, FillInAssumption DEF Onward, FillInInv, StateOK, FillInTypeOK
<1>4. StateOK'
  <2>1. FillInTypeOK
    BY DEF FillInInv, StateOK
  <2>2. snapshot' \in BOOLEAN /\ (snapshot => snapshot')
    BY <1>1, <2>1 DEF FillInTypeOK
  <2>3. status' \in {"none", "draft", "under_review", "approved"}
    BY <1>1, <2>1 DEF FillInTypeOK
  <2>4. FillInTypeOK'
    BY <1>0, <1>1, <2>1, <2>2, <2>3 DEF FillInTypeOK, Filled
  <2>5. status' \in {"under_review", "approved"} => snapshot' /\ review >= 1
    <3>1. status' \in {"under_review", "approved"} => status' = status
      BY <1>1
    <3>2. status \in {"under_review", "approved"} => snapshot /\ review >= 1
      BY DEF FillInInv, StateOK
    <3> QED BY <2>2, <3>1, <3>2, Zenon
  <2> QED BY <1>0, <1>1, <2>4, <2>5 DEF FillInInv, StateOK
<1>5. Calm
  BY <1>0, <1>1, <1>2, <1>3, <1>4 DEF Calm, Stores
<1> QED BY <1>5, CalmStep

LEMMA PutStep ==
  ASSUME FillInInv, NEW w \in Writers, NEW p \in Placeholders, NEW text \in Texts,
         PutPlaceholderValue(w, p, text)
  PROVE  GoodStep
<1> DEFINE y == [phase |-> "valid", p |-> p, text |-> text]
<1>1. /\ put' = [put EXCEPT ![w] = y] /\ y \in PutState
      /\ UNCHANGED <<status, template, creating, snapshot, stored, review, signed,
                     freeze, hashed, final, object, abandoned, pdf, attempt>>
  BY DEF PutPlaceholderValue, PutState
<1> HIDE DEF y
<1>2. Onward
  BY <1>1, FillInAssumption DEF Onward, FillInInv, StateOK, FillInTypeOK
<1>3. StateOK'
  BY <1>1 DEF FillInInv, StateOK, FillInTypeOK
<1>4. Calm
  BY <1>1, <1>2, <1>3 DEF Calm, Stores
<1> QED BY <1>4, CalmStep

LEMMA FinishPutStep ==
  ASSUME FillInInv, NEW w \in Writers, FinishPut(w)
  PROVE  GoodStep
<1>1. /\ stored' = UpsertValue(stored, put[w].p, put[w].text)
      /\ put' = [put EXCEPT ![w] = Idle] /\ put[w] # Idle
      /\ UNCHANGED <<status, template, creating, snapshot, review, signed,
                     freeze, hashed, final, object, abandoned, pdf, attempt>>
  BY DEF FinishPut
<1>2. put[w].p \in Placeholders
  BY <1>1 DEF FillInInv, StateOK, PutState
<1>3. Filled(stored') \subseteq Placeholders
  BY <1>1, <1>2, Upserted DEF FillInInv, StateOK, FillInTypeOK
<1>4. put' \in [Writers -> PutState]
  BY <1>1 DEF FillInInv, StateOK, PutState
<1>5. Onward
  BY <1>1, FillInAssumption DEF Onward, FillInInv, StateOK, FillInTypeOK
<1>6. StateOK'
  BY <1>1, <1>3, <1>4 DEF FillInInv, StateOK, FillInTypeOK, Filled
<1>7. Calm
  BY <1>1, <1>5, <1>6 DEF Calm, Stores
<1> QED BY <1>7, CalmStep

LEMMA ReviewStep ==
  ASSUME FillInInv, Submit \/ Cancel
  PROVE  GoodStep
<1>1. UNCHANGED <<template, creating, snapshot, stored, put, signed, freeze, hashed,
                  final, object, abandoned, pdf, attempt>>
  BY DEF Submit, Cancel
<1>2. /\ review \in 0..MaxReviews /\ MaxReviews \in Nat
      /\ review' \in 0..MaxReviews /\ review <= review'
      /\ status' \in {"draft", "under_review"} /\ status \in {"draft", "under_review"}
      /\ status' = "under_review" => snapshot /\ review' >= 1
      /\ freeze = Idle
  BY FillInAssumption DEF Submit, Cancel, EnforceSnapshot, FillInInv, StateOK, FillInTypeOK, FreezeOK
<1>3. signed \subseteq (1..review') \X Approvers \X Decisions
  BY <1>2 DEF FillInInv, StateOK
<1>4. Onward
  BY <1>1, <1>2 DEF Onward
<1>5. StateOK'
  BY <1>1, <1>2, <1>3 DEF FillInInv, StateOK, FillInTypeOK
<1>6. Calm
  BY <1>1, <1>2, <1>4, <1>5 DEF Calm, Stores
<1> QED BY <1>6, CalmStep

LEMMA SignoffStep ==
  ASSUME FillInInv, NEW a \in Approvers, NEW v \in Decisions, Signoff(a, v)
  PROVE  GoodStep
<1>1. /\ signed' = signed \cup {<<review, a, v>>} /\ status = "under_review"
      /\ UNCHANGED <<status, template, creating, snapshot, stored, put, review,
                     freeze, hashed, final, object, abandoned, pdf, attempt>>
  BY DEF Signoff, MayVote
<1>2. review \in 1..review /\ review \in 1..MaxReviews
  BY <1>1, FillInAssumption DEF FillInInv, StateOK, FillInTypeOK
<1>3. /\ signed' \subseteq (1..review) \X Approvers \X Decisions
      /\ signed' \subseteq (1..MaxReviews) \X Approvers \X Decisions
  BY <1>1, <1>2 DEF FillInInv, StateOK, FillInTypeOK
<1>4. Onward
  BY <1>1, FillInAssumption DEF Onward, FillInInv, StateOK, FillInTypeOK
<1>5. StateOK'
  BY <1>1, <1>3 DEF FillInInv, StateOK, FillInTypeOK
<1>6. Calm
  BY <1>1, <1>4, <1>5 DEF Calm, Stores
<1> QED BY <1>6, CalmStep

-----------------------------------------------------------------------------
(* The deciding transaction before its commit.                               *)
OnlyFreeze ==
  /\ UNCHANGED <<status, template, creating, snapshot, put, review, signed, hashed, final, pdf>>
  /\ Stores /\ \A doc \in abandoned' \ abandoned : Whole(doc)
  /\ Filled(stored') \subseteq Placeholders
  /\ freeze' = Idle \/ (status = "under_review" /\ (Resolving(freeze') \/ Called(freeze')))

LEMMA FreezeStep ==
  ASSUME FillInInv, OnlyFreeze
  PROVE  GoodStep
<1>1. /\ UNCHANGED <<status, template, creating, snapshot, put, review, signed, hashed, final, pdf>>
      /\ Stores /\ Filled(stored') \subseteq Placeholders
  BY DEF OnlyFreeze
<1>2. Onward
  BY <1>1, FillInAssumption DEF Onward, FillInInv, StateOK, FillInTypeOK
<1>3. PICK x : x = freeze'
  OBVIOUS
<1>4. x = Idle \/ (status = "under_review" /\ (Resolving(x)' \/ Called(x)'))
  BY <1>1, <1>2, <1>3, ResolvingKept, CalledKept DEF OnlyFreeze
<1>5. FreezeOK'
  BY <1>1, <1>3, <1>4 DEF FreezeOK, Resolving, Called
<1>6. x.phase \in {"idle", "resolving", "rendering", "rendered"}
  BY <1>4, IdlePhase DEF Resolving, Called
<1>7. StateOK'
  BY <1>1, <1>3, <1>6 DEF FillInInv, StateOK, FillInTypeOK, Filled
<1>8. DoneOK'
  BY <1>1, <1>2, DoneKept DEF FillInInv
<1>9. ObjectOK'
  BY <1>1, <1>2, ObjectKept DEF FillInInv, OnlyFreeze
<1>10. FrozenStep
  BY <1>1 DEF FrozenStep, Stores
<1> QED BY <1>5, <1>7, <1>8, <1>9, <1>10 DEF GoodStep, FillInInv

LEMMA BeginStep ==
  ASSUME FillInInv, NEW a \in Approvers, FreezeBegin(a)
  PROVE  GoodStep
<1> DEFINE y == [phase |-> "resolving", by |-> a, byID |-> stored,
                 todo |-> Schema[template] \cap Computed]
<1>1. /\ status = "under_review" /\ RequiredFilled(stored)
      /\ UNCHANGED <<status, template, creating, snapshot, stored, put, review,
                     signed, hashed, final, object, abandoned, pdf, attempt>>
  BY DEF FreezeBegin, MayVote, ListValues
<1>2. LoadPlaceholderSchema = Schema[template]
  BY <1>1, SnapshotRead DEF FillInInv
<1>3. freeze' = y
  BY <1>2 DEF FreezeBegin, ListValues
<1>4. /\ DOMAIN y = {"phase", "by", "byID", "todo"} /\ y.phase = "resolving" /\ y.by = a
      /\ y.byID = stored /\ y.todo = Schema[template] \cap Computed
  OBVIOUS
<1> HIDE DEF y
<1>5. Complete(stored)
  BY <1>1, <1>2 DEF RequiredFilled, Complete
<1>6. NamesOK(stored, Schema[template] \ (Schema[template] \cap Computed))
  BY DEF NamesOK
<1>7. Resolving(y)
  BY <1>4, <1>5, <1>6 DEF Resolving, FillInInv, StateOK, FillInTypeOK
<1>8. OnlyFreeze
  BY <1>1, <1>3, <1>7 DEF OnlyFreeze, Stores, FillInInv, StateOK, FillInTypeOK
<1> QED BY <1>8, FreezeStep

(* Everyone GetApprovers names has approved. *)
LEMMA ApproversRight ==
  ASSUME StateOK
  PROVE  AllSigned(GetApprovers)
<1> DEFINE votes == {s \in signed : s[3] = "approve"}
           names == {s[2] : s \in votes}
<1>1. GetApprovers = IF names = {} THEN {"aguardando"} ELSE names
  BY DEF GetApprovers, Names
<1>2. \A a \in names : \E n \in 1..review : <<n, a, "approve">> \in signed
  <2> SUFFICES ASSUME NEW s \in signed, s[3] = "approve"
               PROVE  \E n \in 1..review : <<n, s[2], "approve">> \in signed
    OBVIOUS
  <2>1. s \in (1..review) \X Approvers \X Decisions
    BY DEF StateOK
  <2>2. s[1] \in 1..review /\ s = <<s[1], s[2], s[3]>>
    BY <2>1
  <2> QED BY <2>2
<1> HIDE DEF names
<1> QED BY <1>1, <1>2 DEF AllSigned

LEMMA ResolveStep ==
  ASSUME FillInInv, FreezeResolve
  PROVE  GoodStep
<1>1. /\ freeze.phase = "resolving"
      /\ UNCHANGED <<status, template, creating, snapshot, put, review, signed,
                     hashed, final, object, abandoned, pdf, attempt>>
  BY DEF FreezeResolve
<1>2. PICK p \in freeze.todo :
        /\ stored' = UpsertValue(stored, p, Resolve(p))
        /\ freeze' = [freeze EXCEPT !.byID = UpsertValue(freeze.byID, p, Resolve(p)),
                                    !.todo = freeze.todo \ {p}]
  BY DEF FreezeResolve
<1>3. status = "under_review" /\ Resolving(freeze)
  BY <1>1, IdlePhase DEF FillInInv, FreezeOK, Called
<1>4. p \in Computed /\ p \in Placeholders
  BY <1>3, FillInAssumption DEF Resolving
<1> DEFINE new == UpsertValue(freeze.byID, p, Resolve(p))
<1>5. /\ DOMAIN freeze' = {"phase", "by", "byID", "todo"} /\ freeze'.phase = "resolving"
      /\ freeze'.by = freeze.by /\ freeze'.byID = new /\ freeze'.todo = freeze.todo \ {p}
  BY <1>2, <1>3 DEF Resolving
<1>6. /\ Filled(new) = Filled(freeze.byID) \cup {p} /\ new[p] = Resolve(p)
      /\ \A q \in Filled(freeze.byID) \ {p} : new[q] = freeze.byID[q]
  BY Upserted
<1> HIDE DEF new
<1>7. Resolver[p] = "approvers" => AllSigned(Resolve(p))
  BY ApproversRight DEF Resolve, FillInInv
<1>8. NamesOK(new, Schema[template] \ (freeze.todo \ {p}))
  BY <1>3, <1>6, <1>7 DEF Resolving, NamesOK
<1>9. Complete(new)
  BY <1>3, <1>4, <1>6 DEF Resolving, Complete, MustFill
<1>10. Resolving(freeze')
  BY <1>3, <1>4, <1>5, <1>6, <1>8, <1>9 DEF Resolving
<1>11. Filled(stored') \subseteq Placeholders
  BY <1>2, <1>4, Upserted DEF FillInInv, StateOK, FillInTypeOK
<1>12. OnlyFreeze
  BY <1>1, <1>3, <1>10, <1>11 DEF OnlyFreeze, Stores
<1> QED BY <1>12, FreezeStep

LEMMA RenderStep ==
  ASSUME FillInInv, FreezeRender
  PROVE  GoodStep
<1> DEFINE vals == ValMap(freeze.byID)
           doc == Fanout(FreezeRequest(vals))
<1>1. /\ freeze.phase = "resolving" /\ freeze.todo = {}
      /\ freeze' = [phase |-> "rendering", by |-> freeze.by, vals |-> vals, doc |-> doc]
      /\ UNCHANGED <<status, template, creating, snapshot, stored, put, review,
                     signed, hashed, final, object, abandoned, pdf, attempt>>
  BY DEF FreezeRender
<1>2. status = "under_review" /\ Resolving(freeze)
  BY <1>1, IdlePhase DEF FillInInv, FreezeOK, Called
<1>3. /\ LoadPlaceholderSchema = Schema[template] /\ Schema[template] \subseteq Placeholders
      /\ ReadSnapshot.body = template
  BY <1>2, SnapshotRead, SchemaKnown DEF FillInInv
<1>4. /\ Filled(vals) = Filled(freeze.byID) \cap Schema[template]
      /\ \A p \in Filled(vals) : vals[p] = freeze.byID[p]
  BY <1>3 DEF ValMap, Filled
<1>5. doc # None /\ doc.vals = vals /\ doc.body = template
  BY <1>3, FanoutFields DEF FreezeRequest
<1> HIDE DEF vals, doc
<1>6. /\ DOMAIN freeze' = {"phase", "by", "vals", "doc"}
      /\ freeze'.phase = "rendering" /\ freeze'.by = freeze.by
      /\ freeze'.vals = vals /\ freeze'.doc = doc
  BY <1>1
<1>7. Complete(vals)
  BY <1>2, <1>4 DEF Resolving, Complete, MustFill
<1>8. NamesOK(vals, Placeholders)
  BY <1>1, <1>2, <1>4 DEF Resolving, NamesOK
<1>9. Whole(doc)
  BY <1>5, <1>7 DEF Whole
<1>10. Called(freeze')
  BY <1>2, <1>3, <1>4, <1>5, <1>6, <1>8, <1>9 DEF Called, Resolving
<1>11. OnlyFreeze
  BY <1>1, <1>2, <1>10 DEF OnlyFreeze, Stores, FillInInv, StateOK, FillInTypeOK
<1> QED BY <1>11, FreezeStep

LEMMA RollbackStep ==
  ASSUME FillInInv, FreezeRollback
  PROVE  GoodStep
<1>1. /\ freeze' = Idle
      /\ UNCHANGED <<status, template, creating, snapshot, stored, put, review,
                     signed, hashed, final, object, pdf, attempt>>
  BY DEF FreezeRollback
<1>2. \/ abandoned' = abandoned
      \/ freeze.phase = "rendering" /\ abandoned' = abandoned \cup {freeze.doc}
  BY DEF FreezeRollback
<1>3. freeze.phase = "rendering" => Called(freeze)
  BY IdlePhase DEF FillInInv, FreezeOK, Resolving
<1>4. \A doc \in abandoned' \ abandoned : Whole(doc)
  BY <1>2, <1>3 DEF Called
<1>5. OnlyFreeze
  BY <1>1, <1>2, <1>4 DEF OnlyFreeze, Stores, FillInInv, StateOK, FillInTypeOK
<1> QED BY <1>5, FreezeStep

(* The answer of the rendering service.  The document is not frozen yet, so  *)
(* the object it writes is nobody's.                                         *)
LEMMA RenderedStep ==
  ASSUME FillInInv, FreezeRendered
  PROVE  GoodStep
<1>1. PICK x : x = freeze
  OBVIOUS
<1>2. /\ x.phase = "rendering" /\ object' = x.doc
      /\ freeze' = [x EXCEPT !.phase = "rendered"]
      /\ UNCHANGED <<status, template, creating, snapshot, stored, put, review,
                     signed, hashed, final, abandoned, pdf, attempt>>
  BY <1>1 DEF FreezeRendered, putObjectBuffer
<1>3. status = "under_review" /\ Called(x)
  BY <1>1, <1>2, IdlePhase DEF FillInInv, FreezeOK, Resolving
<1>4. hashed = None /\ final = None /\ pdf = None
  BY <1>3 DEF FillInInv, DoneOK
<1>5. Onward
  BY <1>2, FillInAssumption DEF Onward, FillInInv, StateOK, FillInTypeOK
<1>6. /\ DOMAIN freeze' = {"phase", "by", "vals", "doc"} /\ freeze'.phase = "rendered"
      /\ freeze'.by = x.by /\ freeze'.vals = x.vals /\ freeze'.doc = x.doc
  BY <1>2, <1>3 DEF Called
<1>7. Whole(x.doc)' /\ NamesOK(x.vals, Placeholders)'
  BY <1>3, <1>5, WholeKept, NamesKept DEF Called
<1>8. Called(freeze)'
  BY <1>2, <1>3, <1>6, <1>7 DEF Called, Whole, NamesOK
<1>9. FreezeOK'
  BY <1>2, <1>3, <1>8 DEF FreezeOK
<1>10. ObjectOK'
  <2>1. \A doc : Whole(doc) => Whole(doc)'
    BY <1>5, WholeKept
  <2>2. \A doc \in abandoned' : Whole(doc)'
    BY <1>2, <2>1 DEF FillInInv, ObjectOK
  <2> QED BY <1>2, <1>7, <2>2 DEF ObjectOK, Whole
<1>11. StateOK'
  BY <1>2, <1>6 DEF FillInInv, StateOK, FillInTypeOK, Filled
<1>12. DoneOK'
  BY <1>2, <1>3, <1>4 DEF DoneOK
<1> QED BY <1>4, <1>9, <1>10, <1>11, <1>12 DEF GoodStep, FillInInv, FrozenStep

-----------------------------------------------------------------------------
(* The commit of the deciding transaction: no hash is there before it, and   *)
(* everything about the frozen document is there after it.                   *)
LEMMA CommitStep ==
  ASSUME FillInInv, FreezeCommit
  PROVE  GoodStep
<1>1. PICK x : x = freeze
  OBVIOUS
<1>2. /\ x.phase = "rendered" /\ status' = "approved"
      /\ signed' = signed \cup {<<review, x.by, "approve">>}
      /\ hashed' = x.vals /\ final' = x.doc /\ freeze' = Idle
      /\ UNCHANGED <<template, creating, snapshot, stored, put, review, object,
                     abandoned, pdf, attempt>>
  BY <1>1 DEF FreezeCommit, WriteFreeze, WriteFinalDocx
<1>3. status = "under_review" /\ Called(x)
  BY <1>1, <1>2, IdlePhase DEF FillInInv, FreezeOK, Resolving
<1>4. hashed = None /\ final = None /\ pdf = None
  BY <1>3 DEF FillInInv, DoneOK
<1>5. Onward /\ Stores
  BY <1>2, FillInAssumption DEF Onward, Stores, FillInInv, StateOK, FillInTypeOK
<1>6. Called(x)'
  BY <1>3, <1>5, CalledKept
<1>7. PICK vals, doc : vals = x.vals /\ doc = x.doc
  OBVIOUS
<1>8. /\ Filled(vals) \subseteq Placeholders /\ vals # None /\ doc # None /\ doc.vals = vals
      /\ Complete(vals)' /\ NamesOK(vals, Placeholders)'
      /\ object \in {doc} \cup abandoned
  <2>1. Whole(doc)' /\ doc.vals = vals
    BY <1>6, <1>7 DEF Called, Whole
  <2>2. doc # None /\ Complete(doc.vals)'
    BY <2>1 DEF Whole
  <2>3. object \in {doc} \cup abandoned
    BY <1>2, <1>3, <1>7 DEF Called
  <2> QED BY <1>6, <1>7, <2>1, <2>2, <2>3, ValuesNotNone DEF Called
<1>9. hashed' = vals /\ final' = doc
  BY <1>2, <1>7
<1>10. Complete(hashed)' /\ NamesOK(hashed, Placeholders)'
  BY <1>8, <1>9 DEF Complete, NamesOK
<1>11. DoneOK'
  BY <1>2, <1>4, <1>8, <1>9, <1>10 DEF DoneOK
<1>12. review \in 1..review /\ review \in 1..MaxReviews /\ x.by \in Approvers
  BY <1>3, FillInAssumption DEF FillInInv, StateOK, FillInTypeOK, Called
<1>13. /\ signed' \subseteq (1..review) \X Approvers \X Decisions
       /\ signed' \subseteq (1..MaxReviews) \X Approvers \X Decisions
  BY <1>2, <1>12 DEF FillInInv, StateOK, FillInTypeOK, Decisions
<1>14. StateOK'
  BY <1>2, <1>3, <1>13, IdlePhase DEF FillInInv, StateOK, FillInTypeOK
<1>15. FreezeOK'
  BY <1>2 DEF FreezeOK
<1>16. ObjectOK'
  BY <1>2, <1>5, ObjectKept DEF FillInInv
<1> QED BY <1>4, <1>11, <1>14, <1>15, <1>16 DEF GoodStep, FillInInv, FrozenStep

-----------------------------------------------------------------------------
(* After the freeze: abandoned calls, PDFs, and reconstructions, which the   *)
(* route refuses.                                                            *)
LEMMA AfterStep ==
  ASSUME FillInInv, LateRendering \/ WritePDF \/ GetReconstruction
  PROVE  GoodStep
<1>1. ~BodySchema(ReadForReconstruction)
  BY DEF BodySchema, ReadForReconstruction
<1>2. /\ UNCHANGED <<status, template, creating, snapshot, stored, put, review, signed,
                     freeze, hashed, final, abandoned>>
      /\ object' \in {object} \cup abandoned
      /\ pdf' = pdf \/ (pdf' = object /\ final # None)
  BY <1>1 DEF LateRendering, putObjectBuffer, WritePDF, ReadFinalDocxS3Key, GetReconstruction
<1>3. pdf' = pdf \/ (pdf' = object /\ hashed # None)
  BY <1>2 DEF FillInInv, DoneOK
<1>4. Onward /\ Stores
  BY <1>2, FillInAssumption DEF Onward, Stores, FillInInv, StateOK, FillInTypeOK
<1>5. StateOK'
  BY <1>2 DEF FillInInv, StateOK, FillInTypeOK, Filled
<1>6. Calm
  BY <1>2, <1>3, <1>4, <1>5 DEF Calm
<1> QED BY <1>6, CalmStep

-----------------------------------------------------------------------------
(* The next-state relation.                                                  *)
LEMMA EveryStep ==
  ASSUME FillInInv, [Next]_fvars
  PROVE  FillInInv' /\ [FrozenStep]_fvars
<1>1. CASE Next
  <2>1. CASE CreateDocument \/ SetRevisionStorageKey \/ SnapshotFromTemplate \/ CreateFails
    BY <2>1, CreationStep DEF GoodStep
  <2>2. CASE \E w \in Writers, p \in Placeholders, text \in Texts : PutPlaceholderValue(w, p, text)
    BY <2>2, PutStep DEF GoodStep
  <2>3. CASE \E w \in Writers : FinishPut(w)
    BY <2>3, FinishPutStep DEF GoodStep
  <2>4. CASE Submit \/ Cancel
    BY <2>4, ReviewStep DEF GoodStep
  <2>5. CASE \E a \in Approvers : FreezeBegin(a) \/ \E v \in Decisions : Signoff(a, v)
    BY <2>5, BeginStep, SignoffStep DEF GoodStep
  <2>6. CASE \/ FreezeResolve \/ FreezeRender \/ FreezeRendered
             \/ FreezeRollback \/ FreezeCommit
    BY <2>6, ResolveStep, RenderStep, RenderedStep, RollbackStep, CommitStep DEF GoodStep
  <2>7. CASE LateRendering \/ WritePDF \/ GetReconstruction
    BY <2>7, AfterStep DEF GoodStep
  <2> QED BY <1>1, <2>1, <2>2, <2>3, <2>4, <2>5, <2>6, <2>7 DEF Next
<1>2. CASE UNCHANGED fvars
  <2>1. UNCHANGED <<status, template, creating, snapshot, stored, put, review, signed,
                    freeze, hashed, final, object, abandoned, pdf, attempt>>
    BY <1>2 DEF fvars
  <2>2. Onward
    BY <2>1, FillInAssumption DEF Onward, FillInInv, StateOK, FillInTypeOK
  <2>3. StateOK'
    BY <2>1 DEF FillInInv, StateOK, FillInTypeOK, Filled
  <2>4. Calm
    BY <2>1, <2>2, <2>3 DEF Calm, Stores
  <2> QED BY <1>2, <2>4, CalmStep DEF GoodStep
<1> QED BY <1>1, <1>2

LEMMA FillInStart == Init => FillInInv
<1> SUFFICES ASSUME Init PROVE FillInInv
  OBVIOUS
<1>1. Filled(stored) = {}
  BY DEF Init, Filled
<1>2. FillInTypeOK
  <2>1. review \in 0..MaxReviews
    BY FillInAssumption DEF Init
  <2>2. freeze.phase \in {"idle", "resolving", "rendering", "rendered"}
    BY IdlePhase DEF Init
  <2> QED BY <1>1, <2>1, <2>2 DEF Init, FillInTypeOK
<1>3. StateOK
  BY <1>2 DEF Init, StateOK, PutState
<1>4. FreezeOK /\ ObjectOK /\ DoneOK
  BY DEF Init, FreezeOK, ObjectOK, DoneOK
<1> QED BY <1>3, <1>4 DEF FillInInv

-----------------------------------------------------------------------------
(* The invariant holds in every reachable state. *)
THEOREM FillInInvariance == FillInSpec => []FillInInv
<1>1. FillInInv /\ [Next]_fvars => FillInInv'
  BY EveryStep
<1> QED BY <1>1, FillInStart, PTL DEF FillInSpec

(* A document is approved exactly when it is frozen and rendered, the        *)
(* rendering is of the hashed values and has every required one, whatever    *)
(* rollbacks, late PUTs and partial creations came before; and what is       *)
(* stored and shown of it is that rendering or an abandoned call's, which is *)
(* complete too.                                                             *)
THEOREM FrozenDocumentsWhole == FillInSpec => []FrozenWhole
<1>1. FillInInv => FrozenWhole
  BY DEF FillInInv, StateOK, ObjectOK, Whole, DoneOK, FrozenWhole, Viewable
<1> QED BY <1>1, FillInInvariance, PTL

(* Whoever a frozen approvers placeholder names has approved the document,   *)
(* although users may PUT a text there and the freeze reads it first.        *)
THEOREM NamedHaveApproved == FillInSpec => []ApproversSigned
<1>1. FillInInv => ApproversSigned
  BY DEF FillInInv, DoneOK, ApproversSigned, NamesOK, AllSigned
<1> QED BY <1>1, FillInInvariance, PTL

(* values_hash, content_hash and the key are written once, and after that    *)
(* only a call abandoned before writes the object under the key.             *)
THEOREM FreezeHappensOnce == FillInSpec => FrozenOnce
<1>1. FillInInv /\ [Next]_fvars => [FrozenStep]_fvars
  BY EveryStep
<1>2. FillInSpec => [][FrozenStep]_fvars
  BY <1>1, FillInInvariance, PTL DEF FillInSpec
<1> QED BY <1>2 DEF FrozenOnce, FrozenStep
=============================================================================
