---------------------------- MODULE CatalogueProofs ----------------------------
(***************************************************************************)
(* Theorems about profiles, areas, controlled documents and their numbers, *)
(* memberships, documents and the startup migration, for any of them, any  *)
(* number of requests in flight and any size of the connection pool.       *)
(*                                                                         *)
(* The invariant says what every table holds, and of a request between two *)
(* statements that the rows it carries the keys of are still there: no row *)
(* is ever deleted.  The number a request carries is the counter's, as     *)
(* only one request of a profile has one.                                  *)
(***************************************************************************)
EXTENDS Catalogue, FiniteSetTheorems, TLAPS

-----------------------------------------------------------------------------
(* The inductive invariant.                                                *)

DocRow == [profile : Profiles, area : Areas, code : ManualCodes,
           seq : 0..MaxDocs, status : Statuses, by : {"registry", "backfill"}]
MadeRow == [cd : Nat, tpl : Versions, key : Versions \cup {None},
            snapshot : Versions \cup {None}]
MemberRow == [user : Users, area : Areas, role : Roles, open : BOOLEAN,
              revokedBy : {None}]

(* Of a row that was written, and of one that a request is to write.       *)
RowOf(refs) == [exists : {TRUE}, archived : BOOLEAN, ref : refs \cup {None}]

TaxOK ==
  /\ profiles \in [Profiles -> RowsOf(Versions)]
  /\ areas \in [Areas -> RowsOf(Areas)]
  /\ \A a \in Areas : areas[a].exists => ParentExists(a, areas[a])
  /\ versions \in [Versions -> {"draft", "published", "obsolete"}]
  /\ released \subseteq Versions
  /\ \A v \in Versions : versions[v] = "published" => v \in released

DocOK(P, A, x) == x \in DocRow /\ P[x.profile].exists /\ A[x.area].exists
CodesOnce(D) ==
  \A i, j \in DOMAIN D : D[i].profile = D[j].profile /\ D[i].code = D[j].code => i = j
DocsOK ==
  /\ docs \in Seq(DocRow) /\ Len(docs) <= MaxDocs /\ CodesOnce(docs)
  /\ \A i \in DOMAIN docs : DocOK(profiles, areas, docs[i])

Given(D, p) == {i \in DOMAIN D : D[i].profile = p /\ D[i].seq # 0}
Seqs(D, p) == {D[i].seq : i \in Given(D, p)}
CountOK ==
  /\ counters \in [Profiles -> 0..(MaxDocs + 1)]
  /\ \A p \in Profiles : /\ Seqs(docs, p) = 1..(ensureCounter(p) - 1)
                         /\ Cardinality(Given(docs, p)) = ensureCounter(p) - 1

MembersOK ==
  /\ members \subseteq MemberRow /\ \A m \in members : areas[m.area].exists
  /\ \A m, n \in members :
       m.open /\ n.open /\ m.user = n.user /\ m.area = n.area => m = n

MadeOK(V, D, x) ==
  /\ x \in MadeRow /\ x.cd \in DOMAIN D /\ x.tpl \in V
  /\ x.key \in {None, x.tpl} /\ (x.snapshot # None => x.key = x.tpl)
DocumentsOK ==
  documents \in Seq(MadeRow) /\ \A i \in DOMAIN documents : MadeOK(released, docs, documents[i])

(* The row with the code of a legacy document; a row the migration made is *)
(* linked to.                                                              *)
Filed(D, l) == {i \in DOMAIN D : D[i].profile = Unassigned /\ D[i].code = LegacyCode(l)}
LegacyOK ==
  /\ legacy \in [Legacy -> 0..MaxDocs]
  /\ \A l \in Legacy : legacy[l] # 0 => legacy[l] \in Filed(docs, l)
  /\ \A i \in DOMAIN docs : docs[i].by = "backfill" => \E l \in Legacy : legacy[l] = i

(* What a request carries.                                                 *)
Shape(x) ==
  /\ x.pc = "profileRow" =>
       x \in [pc : {"profileRow"}, p : Profiles, row : RowOf(Versions)]
  /\ x.pc = "areaRow" => x \in [pc : {"areaRow"}, a : Areas, row : RowOf(Areas)]
  /\ x.pc \in {"begin", "begun"} =>
       x \in [pc : {"begin", "begun"}, p : Profiles, a : Areas, override : BOOLEAN,
              then : {"reply", "create"}]
  /\ x.pc \in {"numbered", "coded"} =>
       x \in [pc : {"numbered", "coded"}, p : Profiles, a : Areas, n : Nat,
              override : BOOLEAN, then : {"reply", "create"}]
  /\ x.pc \in {"manual", "insert"} =>
       x \in [pc : {"manual", "insert"}, p : Profiles, a : Areas, code : ManualCodes,
              override : BOOLEAN]
  /\ x.pc = "status" => x \in [pc : {"status"}, cd : Nat, next : Statuses]
  /\ x.pc = "grant" =>
       x \in [pc : {"grant"}, u : Users, a : Areas, role : Roles, existing : BOOLEAN]
  /\ x.pc = "create" => x \in [pc : {"create"}, cd : Nat]
  /\ x.pc \in {"resolved", "found"} =>
       x \in [pc : {"resolved", "found"}, cd : Nat, tpl : Versions]
  /\ x.pc \in {"stored", "keyed"} =>
       x \in [pc : {"stored", "keyed"}, doc : Nat, tpl : Versions]

(* ... and what it leads to.                                               *)
Coding == {"begin", "begun", "numbered", "coded", "manual", "insert"}
Refs(P, A, V, D, M, x) ==
  /\ x.pc \in Coding => P[x.p].exists /\ A[x.a].exists
  /\ x.pc \in {"create", "resolved", "found", "status"} => x.cd \in DOMAIN D
  /\ x.pc = "found" => x.tpl \in V
  /\ x.pc \in {"stored", "keyed"} => x.doc \in DOMAIN M /\ M[x.doc].tpl = x.tpl
  /\ x.pc = "keyed" => M[x.doc].key = x.tpl
RefsNow(x) == Refs(profiles, areas, released, docs, documents, x)
ReqsOK ==
  DOMAIN reqs = Requests /\ \A r \in Requests : Shape(reqs[r]) /\ RefsNow(reqs[r])

(* The number of a profile is with one request at most, and is the next.   *)
Locks(x) == x.pc \in {"numbered", "coded"}
LockOK ==
  \A r \in Requests : Locks(reqs[r]) =>
    /\ reqs[r].n = ensureCounter(reqs[r].p)
    /\ \A q \in Requests : Locks(reqs[q]) /\ reqs[q].p = reqs[r].p => q = r

CatInv ==
  /\ TaxOK /\ DocsOK /\ CountOK /\ MembersOK /\ DocumentsOK /\ LegacyOK
  /\ ReqsOK /\ LockOK

-----------------------------------------------------------------------------
(* Rows and codes.                                                         *)

LEMMA RowShape ==
  ASSUME NEW S, NEW b \in BOOLEAN, NEW v \in S \cup {None}
  PROVE  Row(b, v) \in RowOf(S) /\ Row(b, v).exists
BY DEF Row, RowOf

LEMMA RowsShape ==
  ASSUME NEW S
  PROVE  /\ \A x \in RowOf(S) : x \in RowsOf(S)
         /\ \A x \in RowsOf(S) : x.exists => x \in RowOf(S)
<1>1. ASSUME NEW x \in RowOf(S) PROVE x \in RowsOf(S)
  <2>1. x = Row(x.archived, x.ref) /\ x.archived \in BOOLEAN /\ x.ref \in S \cup {None}
    BY DEF RowOf, Row
  <2> QED
    BY <2>1 DEF RowsOf
<1>2. ASSUME NEW x \in RowsOf(S), x.exists PROVE x \in RowOf(S)
  <2>1. ~Absent.exists
    BY DEF Absent
  <2>2. PICK b \in BOOLEAN, v \in S \cup {None} : x = Row(b, v)
    BY <1>2, <2>1 DEF RowsOf
  <2> QED
    BY <2>2, RowShape
<1> QED
  BY <1>1, <1>2

LEMMA MigCodes ==
  /\ \A k, l \in Legacy : LegacyCode(k) = LegacyCode(l) <=> Prefix[k] = Prefix[l]
  /\ \A l \in Legacy : LegacyCode(l) \in ManualCodes
BY DEF LegacyCode, Legacies, ManualCodes

LEMMA IdleFacts == Idle.pc = "idle" /\ Shape(Idle) /\ ~Locks(Idle)
                   /\ \A P, A, V, D, M : Refs(P, A, V, D, M, Idle)
<1>1. Idle.pc = "idle"
  BY DEF Idle
<1> QED
  BY <1>1 DEF Shape, Locks, Refs, Coding

-----------------------------------------------------------------------------
(* What no step takes away.                                                *)

Kept ==
  /\ \A p \in Profiles : profiles[p].exists => profiles'[p].exists
  /\ \A a \in Areas : areas[a].exists => areas'[a].exists
  /\ released \subseteq released'
  /\ DOMAIN docs \subseteq DOMAIN docs' /\ DOMAIN documents \subseteq DOMAIN documents'
  /\ \A i \in DOMAIN documents :
       /\ documents'[i].tpl = documents[i].tpl
       /\ documents[i].key = documents[i].tpl => documents'[i].key = documents[i].tpl

LEMMA RefsKept ==
  ASSUME Kept, NEW x, Shape(x), RefsNow(x)
  PROVE  RefsNow(x)'
<1>1. x.pc \in Coding => profiles'[x.p].exists /\ areas'[x.a].exists
  BY DEF Kept, Shape, RefsNow, Refs, Coding
<1>2. x.pc \in {"create", "resolved", "found", "status"} => x.cd \in DOMAIN docs'
  BY DEF Kept, RefsNow, Refs
<1>3. x.pc = "found" => x.tpl \in released'
  BY DEF Kept, Shape, RefsNow, Refs
<1>4. x.pc \in {"stored", "keyed"} => x.doc \in DOMAIN documents' /\ documents'[x.doc].tpl = x.tpl
  BY DEF Kept, RefsNow, Refs
<1>5. x.pc = "keyed" => documents'[x.doc].key = x.tpl
  BY DEF Kept, RefsNow, Refs
<1> QED
  BY <1>1, <1>2, <1>3, <1>4, <1>5 DEF RefsNow, Refs

LEMMA ReqsStep ==
  ASSUME ReqsOK, Kept, NEW r \in Requests, NEW x, Shape(x), RefsNow(x)',
         reqs' = [reqs EXCEPT ![r] = x]
  PROVE  ReqsOK'
<1>1. DOMAIN reqs' = Requests /\ \A q \in Requests : reqs'[q] = IF q = r THEN x ELSE reqs[q]
  BY DEF ReqsOK
<1>2. ASSUME NEW y, Shape(y), RefsNow(y) PROVE RefsNow(y)'
  BY <1>2, RefsKept
<1>3. ASSUME NEW q \in Requests PROVE Shape(reqs'[q]) /\ RefsNow(reqs[q])'
  <2>1. PICK y : y = reqs[q]
    OBVIOUS
  <2>2. PICK z : z = reqs'[q]
    OBVIOUS
  <2>3. Shape(y) /\ RefsNow(y) /\ z = (IF q = r THEN x ELSE y)
    BY <1>1, <2>1, <2>2 DEF ReqsOK
  <2>4. Shape(z) /\ RefsNow(z)'
    BY <1>2, <2>3
  <2> QED
    BY <2>2, <2>4 DEF RefsNow
<1> QED
  BY <1>1, <1>3 DEF ReqsOK

LEMMA ReqsSame ==
  ASSUME ReqsOK, Kept, reqs' = reqs
  PROVE  ReqsOK'
<1>1. ASSUME NEW q \in Requests PROVE Shape(reqs'[q]) /\ RefsNow(reqs[q])'
  <2>1. PICK y : y = reqs[q]
    OBVIOUS
  <2>2. Shape(y) /\ RefsNow(y) /\ reqs'[q] = y
    BY <2>1 DEF ReqsOK
  <2>3. RefsNow(y)'
    BY <2>2, RefsKept
  <2> QED
    BY <2>2, <2>3 DEF RefsNow
<1> QED
  BY <1>1 DEF ReqsOK

(* A request that holds no number afterwards, while the counters stay.     *)
LEMMA LockKept ==
  ASSUME LockOK, UNCHANGED counters, DOMAIN reqs = Requests, NEW r \in Requests, NEW x,
         ~Locks(x), reqs' = [reqs EXCEPT ![r] = x]
  PROVE  LockOK'
<1>1. \A q \in Requests : reqs'[q] = IF q = r THEN x ELSE reqs[q]
  OBVIOUS
<1>2. ASSUME NEW q \in Requests, Locks(reqs'[q]) PROVE q # r /\ reqs'[q] = reqs[q]
  BY <1>1, <1>2
<1>3. \A p : ensureCounter(p)' = ensureCounter(p)
  BY DEF ensureCounter
<1> QED
  BY <1>2, <1>3 DEF LockOK, Locks

(* What a step leaves alone stays good.                                    *)
LEMMA TaxSame ==
  ASSUME TaxOK, UNCHANGED <<profiles, areas, versions, released>>
  PROVE  TaxOK'
BY DEF TaxOK, ParentExists

LEMMA DocsKept ==
  ASSUME DocsOK, Kept, UNCHANGED docs
  PROVE  DocsOK'
<1>1. ASSUME NEW i \in DOMAIN docs PROVE DocOK(profiles', areas', docs[i])
  <2>1. DocOK(profiles, areas, docs[i])
    BY DEF DocsOK
  <2> QED
    BY <2>1 DEF DocOK, DocRow, Kept
<1> QED
  BY <1>1 DEF DocsOK

LEMMA CountSame ==
  ASSUME CountOK, UNCHANGED <<docs, counters>>
  PROVE  CountOK'
<1>1. \A p : ensureCounter(p)' = ensureCounter(p)
  BY DEF ensureCounter
<1> QED
  BY <1>1 DEF CountOK

LEMMA MembersKept ==
  ASSUME MembersOK, Kept, UNCHANGED members
  PROVE  MembersOK'
BY DEF MembersOK, Kept, MemberRow

LEMMA DocumentsKept ==
  ASSUME DocumentsOK, Kept, UNCHANGED documents
  PROVE  DocumentsOK'
<1>1. ASSUME NEW i \in DOMAIN documents PROVE MadeOK(released', docs', documents[i])
  <2>1. MadeOK(released, docs, documents[i])
    BY DEF DocumentsOK
  <2> QED
    BY <2>1 DEF MadeOK, MadeRow, Kept
<1> QED
  BY <1>1 DEF DocumentsOK

LEMMA LegacySame ==
  ASSUME LegacyOK, UNCHANGED <<docs, legacy>>
  PROVE  LegacyOK'
BY DEF LegacyOK

(* No row is touched.                                                      *)
LEMMA NothingLost ==
  ASSUME UNCHANGED <<profiles, areas, versions, released, docs, documents>>
  PROVE  Kept
BY DEF Kept

LEMMA TablesSame ==
  ASSUME CatInv,
         UNCHANGED <<profiles, areas, versions, released, docs, counters, members, documents, legacy>>
  PROVE  /\ TaxOK' /\ DocsOK' /\ CountOK' /\ MembersOK' /\ DocumentsOK' /\ LegacyOK'
         /\ Kept
<1>1. Kept
  BY NothingLost
<1> QED
  BY <1>1, TaxSame, DocsKept, CountSame, MembersKept, DocumentsKept, LegacySame DEF CatInv

(* A request goes on and touches nothing; it holds a number only if it did *)
(* before or if nobody does.                                               *)
LEMMA QuietStep ==
  ASSUME CatInv, NEW r \in Requests, NEW x, Shape(x), RefsNow(x),
         Locks(x) => /\ x.n = ensureCounter(x.p)
                     /\ \A q \in Requests : Locks(reqs[q]) /\ reqs[q].p = x.p => q = r,
         reqs' = [reqs EXCEPT ![r] = x],
         UNCHANGED <<profiles, areas, versions, released, docs, counters, members, documents, legacy>>
  PROVE  CatInv'
<1>1. /\ TaxOK' /\ DocsOK' /\ CountOK' /\ MembersOK' /\ DocumentsOK' /\ LegacyOK'
      /\ Kept
  BY TablesSame
<1>2. ReqsOK'
  <2>1. RefsNow(x)'
    BY <1>1, RefsKept
  <2> QED
    BY <1>1, <2>1, ReqsStep DEF CatInv
<1>3. LockOK'
  <2>1. \A q \in Requests : reqs'[q] = IF q = r THEN x ELSE reqs[q]
    BY DEF CatInv, ReqsOK
  <2>2. \A p : ensureCounter(p)' = ensureCounter(p)
    BY DEF ensureCounter
  <2>3. ASSUME NEW q \in Requests, Locks(reqs'[q])
        PROVE  /\ reqs'[q].n = ensureCounter(reqs'[q].p)
               /\ \A s \in Requests : Locks(reqs'[s]) /\ reqs'[s].p = reqs'[q].p => s = q
    <3>1. CASE q = r
      BY <2>1, <2>3, <3>1
    <3>2. CASE q # r
      <4>1. reqs'[q] = reqs[q] /\ Locks(reqs[q])
        BY <2>1, <2>3, <3>2
      <4>2. /\ reqs[q].n = ensureCounter(reqs[q].p)
            /\ \A s \in Requests : Locks(reqs[s]) /\ reqs[s].p = reqs[q].p => s = q
        BY <4>1 DEF CatInv, LockOK
      <4> QED
        BY <2>1, <3>2, <4>1, <4>2
    <3> QED
      BY <3>1, <3>2
  <2> QED
    BY <2>2, <2>3 DEF LockOK, Locks
<1> QED
  BY <1>1, <1>2, <1>3 DEF CatInv

(* A request that is answered, refused or abandoned.                       *)
LEMMA EndStep ==
  ASSUME CatInv, NEW r \in Requests, reqs' = [reqs EXCEPT ![r] = Idle],
         UNCHANGED <<profiles, areas, versions, released, docs, counters, members, documents, legacy>>
  PROVE  CatInv'
<1>1. Shape(Idle) /\ RefsNow(Idle) /\ ~Locks(Idle)
  BY IdleFacts DEF RefsNow
<1> QED
  BY <1>1, QuietStep

(* The requests when one of them writes and ends, or nobody's does.        *)
LEMMA EndsOrSame ==
  ASSUME CatInv, Kept, UNCHANGED counters,
         reqs' = reqs \/ \E r \in Requests : reqs' = [reqs EXCEPT ![r] = Idle]
  PROVE  ReqsOK' /\ LockOK'
<1>1. CASE reqs' = reqs
  <2>1. \A p : ensureCounter(p)' = ensureCounter(p)
    BY DEF ensureCounter
  <2> QED
    BY <1>1, <2>1, ReqsSame DEF CatInv, LockOK
<1>2. CASE \E r \in Requests : reqs' = [reqs EXCEPT ![r] = Idle]
  <2>1. PICK r \in Requests : reqs' = [reqs EXCEPT ![r] = Idle]
    BY <1>2
  <2>2. Shape(Idle) /\ RefsNow(Idle)' /\ ~Locks(Idle)
    BY IdleFacts DEF RefsNow
  <2>3. ReqsOK'
    BY <2>1, <2>2, ReqsStep DEF CatInv
  <2>4. LockOK'
    BY <2>1, <2>2, LockKept DEF CatInv, ReqsOK
  <2> QED
    BY <2>3, <2>4
<1> QED
  BY <1>1, <1>2

-----------------------------------------------------------------------------
(* Taxonomy.                                                               *)

(* A write of profiles, areas or versions that keeps the rows.             *)
LEMMA TaxStep ==
  ASSUME CatInv, TaxOK', Kept, UNCHANGED <<docs, counters, members, documents, legacy>>,
         reqs' = reqs \/ \E r \in Requests : reqs' = [reqs EXCEPT ![r] = Idle]
  PROVE  CatInv'
<1>1. DocsOK' /\ CountOK' /\ MembersOK' /\ DocumentsOK' /\ LegacyOK'
  BY DocsKept, CountSame, MembersKept, DocumentsKept, LegacySame DEF CatInv
<1>2. ReqsOK' /\ LockOK'
  BY EndsOrSame
<1> QED
  BY <1>1, <1>2 DEF CatInv

LEMMA ProfileStep ==
  ASSUME CatInv, NEW p \in Profiles, NEW row \in RowOf(Versions),
         profiles' = profiles \/ profiles' = [profiles EXCEPT ![p] = row],
         UNCHANGED <<areas, versions, released, docs, counters, members, documents, legacy>>,
         reqs' = reqs \/ \E r \in Requests : reqs' = [reqs EXCEPT ![r] = Idle]
  PROVE  CatInv'
<1>1. row \in RowsOf(Versions) /\ row.exists
  BY RowsShape DEF RowOf
<1>2. TaxOK'
  BY <1>1 DEF CatInv, TaxOK, ParentExists
<1>3. Kept
  BY <1>1 DEF CatInv, TaxOK, Kept
<1> QED
  BY <1>2, <1>3, TaxStep

LEMMA AreaStep ==
  ASSUME CatInv, NEW a \in Areas, NEW row \in RowOf(Areas),
         \/ areas' = areas
         \/ ParentExists(a, row) /\ areas' = [areas EXCEPT ![a] = row],
         UNCHANGED <<profiles, versions, released, docs, counters, members, documents, legacy>>,
         reqs' = reqs \/ \E r \in Requests : reqs' = [reqs EXCEPT ![r] = Idle]
  PROVE  CatInv'
<1>1. row \in RowsOf(Areas) /\ row.exists /\ row.ref \in Areas \cup {None}
  BY RowsShape DEF RowOf
<1>2. \A b \in Areas : areas[b].exists => areas'[b].exists
  BY <1>1 DEF CatInv, TaxOK
<1>3. Kept
  BY <1>2 DEF Kept
<1>4. TaxOK'
  <2>1. areas' \in [Areas -> RowsOf(Areas)]
    BY <1>1 DEF CatInv, TaxOK
  <2>2. ASSUME NEW b \in Areas, areas'[b].exists
        PROVE  areas'[b].ref \notin {None, b} => areas'[areas'[b].ref].exists
    <3>1. CASE areas'[b] = areas[b]
      <4>1. areas[b].ref \notin {None, b} => areas[areas[b].ref].exists
        BY <2>2, <3>1 DEF CatInv, TaxOK, ParentExists
      <4>2. areas[b].ref \in Areas \cup {None}
        <5>1. areas[b] \in RowsOf(Areas) /\ areas[b].exists
          BY <2>2, <3>1 DEF CatInv, TaxOK
        <5>2. areas[b] \in RowOf(Areas)
          BY <5>1, RowsShape
        <5> QED
          BY <5>2 DEF RowOf
      <4> QED
        BY <1>2, <3>1, <4>1, <4>2
    <3>2. CASE areas'[b] # areas[b]
      <4>1. b = a /\ areas'[b] = row /\ ParentExists(a, row)
        BY <2>2, <3>2 DEF CatInv, TaxOK
      <4>2. PICK c : c = row.ref
        OBVIOUS
      <4>3. c \notin {None, a} => c \in Areas /\ areas[c].exists
        BY <1>1, <4>1, <4>2 DEF ParentExists
      <4>4. c \notin {None, a} => areas'[c].exists
        BY <1>2, <4>3
      <4> QED
        BY <4>1, <4>2, <4>4
    <3> QED
      BY <3>1, <3>2
  <2> QED
    BY <2>1, <2>2 DEF CatInv, TaxOK, ParentExists
<1> QED
  BY <1>3, <1>4, TaxStep

(* A version is published, or its row is overwritten; what was published   *)
(* stays so in the history.                                                *)
LEMMA VersionStep ==
  ASSUME CatInv, NEW v \in Versions,
         PublishVersion(v) \/ UpdateVersion(v) \/ ObsoletePreviousPublished(v)
  PROVE  CatInv'
<1>1. /\ UNCHANGED <<profiles, areas, docs, counters, members, documents, legacy, reqs>>
      /\ released \subseteq released'
  BY DEF PublishVersion, UpdateVersion, ObsoletePreviousPublished
<1>2. Kept
  BY <1>1 DEF Kept
<1>3. /\ versions' \in [Versions -> {"draft", "published", "obsolete"}]
      /\ released' \subseteq Versions
      /\ \A w \in Versions : versions'[w] = "published" => w \in released'
  BY DEF CatInv, TaxOK, PublishVersion, UpdateVersion, ObsoletePreviousPublished
<1>4. TaxOK'
  BY <1>1, <1>3 DEF CatInv, TaxOK, ParentExists
<1> QED
  BY <1>1, <1>2, <1>4, TaxStep

LEMMA RowRequestStep ==
  ASSUME CatInv, RowRequest
  PROVE  CatInv'
<1>1. ASSUME NEW p \in Profiles, NEW v \in Versions \cup {None},
             createProfile(p, v) \/ updateProfile(p, v)
      PROVE  CatInv'
  <2>1. PICK row : row = Row(FALSE, v)
    OBVIOUS
  <2>2. row \in RowOf(Versions)
    BY <2>1, RowShape
  <2>3. /\ profiles' = profiles \/ profiles' = [profiles EXCEPT ![p] = row]
        /\ UNCHANGED <<areas, versions, released, docs, counters, members, documents, legacy, reqs>>
    BY <1>1, <2>1 DEF createProfile, updateProfile, InsertProfile, UpdateProfileRow
  <2> QED
    BY <2>2, <2>3, ProfileStep
<1>2. ASSUME NEW a \in Areas, NEW parent \in Areas \cup {None},
             createArea(a, parent) \/ updateArea(a, parent)
      PROVE  CatInv'
  <2>1. PICK row : row = Row(FALSE, parent)
    OBVIOUS
  <2>2. row \in RowOf(Areas)
    BY <2>1, RowShape
  <2>3. /\ areas' = areas \/ (ParentExists(a, row) /\ areas' = [areas EXCEPT ![a] = row])
        /\ UNCHANGED <<profiles, versions, released, docs, counters, members, documents, legacy, reqs>>
    BY <1>2, <2>1 DEF createArea, updateArea, InsertArea, UpdateAreaRow
  <2> QED
    BY <2>2, <2>3, AreaStep
<1> QED
  BY <1>1, <1>2 DEF RowRequest

(* Rows written from what was read in an earlier statement.                *)
LEMMA WriteRowStep ==
  ASSUME CatInv, NEW r \in Requests, WriteProfile(r) \/ WriteArea(r)
  PROVE  CatInv'
<1>1. PICK x : x = reqs[r]
  OBVIOUS
<1>2. Shape(x)
  BY <1>1 DEF CatInv, ReqsOK
<1>3. CASE WriteProfile(r)
  <2>1. x.p \in Profiles /\ x.row \in RowOf(Versions)
    BY <1>1, <1>2, <1>3 DEF WriteProfile, Shape
  <2>2. PICK p \in Profiles : p = x.p
    BY <2>1
  <2>3. PICK row \in RowOf(Versions) : row = x.row
    BY <2>1
  <2>4. /\ profiles' = profiles \/ profiles' = [profiles EXCEPT ![p] = row]
        /\ UNCHANGED <<areas, versions, released, docs, counters, members, documents, legacy>>
        /\ reqs' = [reqs EXCEPT ![r] = Idle]
    BY <1>1, <1>3, <2>2, <2>3 DEF WriteProfile, UpdateProfileRow, End, Go
  <2> QED
    BY <2>4, ProfileStep
<1>4. CASE WriteArea(r)
  <2>1. x.a \in Areas /\ x.row \in RowOf(Areas)
    BY <1>1, <1>2, <1>4 DEF WriteArea, Shape
  <2>2. PICK a \in Areas : a = x.a
    BY <2>1
  <2>3. PICK row \in RowOf(Areas) : row = x.row
    BY <2>1
  <2>4. /\ areas' = areas \/ (ParentExists(a, row) /\ areas' = [areas EXCEPT ![a] = row])
        /\ UNCHANGED <<profiles, versions, released, docs, counters, members, documents, legacy>>
        /\ reqs' = [reqs EXCEPT ![r] = Idle]
    BY <1>1, <1>4, <2>2, <2>3 DEF WriteArea, UpdateAreaRow, End, Go
  <2> QED
    BY <2>4, AreaStep
<1> QED
  BY <1>3, <1>4

-----------------------------------------------------------------------------
(* Controlled documents and their numbers.                                 *)

LEMMA AppendFacts ==
  ASSUME NEW S, NEW s \in Seq(S), NEW d \in S
  PROVE  /\ Append(s, d) \in Seq(S) /\ Len(Append(s, d)) = Len(s) + 1
         /\ Len(s) + 1 \notin DOMAIN s /\ Len(s) \in Nat
         /\ DOMAIN Append(s, d) = DOMAIN s \cup {Len(s) + 1}
         /\ \A i \in DOMAIN s : Append(s, d)[i] = s[i]
         /\ Append(s, d)[Len(s) + 1] = d
<1>1. PICK t : t = Append(s, d)
  OBVIOUS
<1>2. /\ t \in Seq(S) /\ Len(t) = Len(s) + 1 /\ Len(s) \in Nat
      /\ DOMAIN s = 1..Len(s) /\ DOMAIN t = 1..(Len(s) + 1)
  BY <1>1
<1>3. \A i \in 1..Len(s) : t[i] = s[i]
  BY <1>1
<1>4. t[Len(s) + 1] = d
  BY <1>1
<1>5. PICK n \in Nat : n = Len(s)
  BY <1>2
<1>6. 1..(n + 1) = (1..n) \cup {n + 1} /\ n + 1 \notin 1..n
  OBVIOUS
<1> QED
  BY <1>1, <1>2, <1>3, <1>4, <1>5, <1>6

(* A document more.                                                        *)
NewDoc(d) ==
  /\ DocOK(profiles, areas, d) /\ Len(docs) < MaxDocs /\ ~CodeExists(d.profile, d.code)
  /\ docs' = Append(docs, d)

LEMMA NewDocFacts ==
  ASSUME DocsOK, NEW d, NewDoc(d)
  PROVE  /\ docs' \in Seq(DocRow) /\ Len(docs') = Len(docs) + 1
         /\ Len(docs) + 1 \notin DOMAIN docs /\ Len(docs) \in Nat
         /\ DOMAIN docs' = DOMAIN docs \cup {Len(docs) + 1}
         /\ \A i \in DOMAIN docs : docs'[i] = docs[i]
         /\ docs'[Len(docs) + 1] = d /\ Len(docs') <= MaxDocs
<1>1. docs \in Seq(DocRow) /\ d \in DocRow /\ docs' = Append(docs, d)
  BY DEF DocsOK, NewDoc, DocOK
<1>2. /\ docs' \in Seq(DocRow) /\ Len(docs') = Len(docs) + 1
      /\ Len(docs) + 1 \notin DOMAIN docs /\ Len(docs) \in Nat
      /\ DOMAIN docs' = DOMAIN docs \cup {Len(docs) + 1}
      /\ \A i \in DOMAIN docs : docs'[i] = docs[i]
      /\ docs'[Len(docs) + 1] = d
  BY <1>1, AppendFacts
<1>3. Len(docs') <= MaxDocs
  <2>1. PICK n \in Nat : n = Len(docs)
    BY <1>2
  <2>2. n < MaxDocs /\ Len(docs') = n + 1 /\ MaxDocs \in Nat
    BY <1>2, <2>1, CatalogueAssumption DEF NewDoc
  <2> QED
    BY <2>2
<1> QED
  BY <1>2, <1>3

LEMMA NewDocOK ==
  ASSUME DocsOK, NEW d, NewDoc(d), UNCHANGED <<profiles, areas>>
  PROVE  DocsOK'
<1>1. PICK k : k = Len(docs) + 1
  OBVIOUS
<1>2. /\ docs' \in Seq(DocRow) /\ Len(docs') <= MaxDocs /\ k \notin DOMAIN docs
      /\ DOMAIN docs' = DOMAIN docs \cup {k}
      /\ \A i \in DOMAIN docs : docs'[i] = docs[i]
      /\ docs'[k] = d
  BY <1>1, NewDocFacts
<1>3. \A i \in DOMAIN docs' : DocOK(profiles', areas', docs'[i])
  BY <1>2 DEF DocsOK, NewDoc
<1>4. \A i \in DOMAIN docs : docs[i].profile = d.profile => docs[i].code # d.code
  BY DEF NewDoc, CodeExists
<1>5. CodesOnce(docs')
  BY <1>2, <1>4 DEF DocsOK, CodesOnce
<1> QED
  BY <1>2, <1>3, <1>5 DEF DocsOK

LEMMA NewDocKept ==
  ASSUME DocsOK, NEW d, NewDoc(d), UNCHANGED <<profiles, areas, versions, released, documents>>
  PROVE  Kept
BY NewDocFacts DEF Kept

(* A manual or a migrated code spends no number.                           *)
LEMMA NoNumber ==
  ASSUME CatInv, NEW d, NewDoc(d), d.seq = 0, UNCHANGED counters
  PROVE  CountOK'
<1>1. ASSUME NEW p \in Profiles PROVE Given(docs', p) = Given(docs, p) /\ Seqs(docs', p) = Seqs(docs, p)
  <2>1. Given(docs', p) = Given(docs, p)
    BY NewDocFacts DEF Given, CatInv
  <2>2. \A i \in Given(docs, p) : docs'[i] = docs[i]
    BY NewDocFacts DEF Given, CatInv
  <2> QED
    BY <2>1, <2>2 DEF Seqs
<1>2. \A p : ensureCounter(p)' = ensureCounter(p)
  BY DEF ensureCounter
<1> QED
  BY <1>1, <1>2 DEF CatInv, CountOK

(* As many numbers were given as there are documents at most.              *)
LEMMA GivenBound ==
  ASSUME DocsOK, CountOK, NEW p \in Profiles
  PROVE  /\ IsFiniteSet(Given(docs, p)) /\ ensureCounter(p) \in Nat \ {0}
         /\ ensureCounter(p) - 1 <= Len(docs)
<1>1. PICK n \in Nat : n = Len(docs)
  BY DEF DocsOK
<1>2. DOMAIN docs = 1..n /\ IsFiniteSet(1..n) /\ Cardinality(1..n) = n
  <2>1. DOMAIN docs = 1..n
    BY <1>1 DEF DocsOK
  <2>2. 1 \in Int /\ n \in Int
    OBVIOUS
  <2>3. IsFiniteSet(1..n) /\ Cardinality(1..n) = IF 1 > n THEN 0 ELSE n - 1 + 1
    BY <2>2, FS_Interval
  <2> QED
    BY <2>1, <2>3
<1>3. Given(docs, p) \subseteq 1..n
  BY <1>2 DEF Given
<1>4. IsFiniteSet(Given(docs, p)) /\ Cardinality(Given(docs, p)) <= Cardinality(1..n)
  BY <1>2, <1>3, FS_Subset
<1>5. counters[p] \in 0..(MaxDocs + 1)
  BY DEF CountOK
<1>6. ensureCounter(p) \in Nat \ {0}
  BY <1>5, CatalogueAssumption DEF ensureCounter
<1> QED
  BY <1>1, <1>2, <1>4, <1>6 DEF CountOK

LEMMA Interval ==
  ASSUME NEW c \in Nat \ {0}
  PROVE  (1..(c - 1)) \cup {c} = 1..c
OBVIOUS

(* The commit that spends the number c of p.                               *)
LEMMA NumberSpent ==
  ASSUME DocsOK, CountOK, NEW p \in Profiles, NEW c, c = ensureCounter(p), NEW d, NewDoc(d),
         d.profile = p, d.seq = c, counters' = [counters EXCEPT ![p] = c + 1]
  PROVE  CountOK'
<1>1. c \in Nat \ {0} /\ c - 1 <= Len(docs) /\ IsFiniteSet(Given(docs, p))
  BY GivenBound
<1>2. PICK n \in Nat : n = Len(docs)
  BY DEF DocsOK
<1>3. c + 1 \in 0..(MaxDocs + 1)
  BY <1>1, <1>2, CatalogueAssumption DEF NewDoc
<1>4. counters' \in [Profiles -> 0..(MaxDocs + 1)] /\ counters'[p] = c + 1
      /\ \A q \in Profiles \ {p} : counters'[q] = counters[q]
  BY <1>3 DEF CountOK
<1>5. ensureCounter(p)' = c + 1 /\ \A q \in Profiles \ {p} : ensureCounter(q)' = ensureCounter(q)
  BY <1>1, <1>4 DEF ensureCounter
<1>6. PICK k : k = Len(docs) + 1
  OBVIOUS
<1>7. /\ k \notin DOMAIN docs /\ DOMAIN docs' = DOMAIN docs \cup {k}
      /\ (\A i \in DOMAIN docs : docs'[i] = docs[i]) /\ docs'[k] = d
  BY <1>6, NewDocFacts
<1>8. ASSUME NEW q \in Profiles \ {p}
      PROVE  /\ Seqs(docs', q) = 1..(ensureCounter(q)' - 1)
             /\ Cardinality(Given(docs', q)) = ensureCounter(q)' - 1
  <2>1. Given(docs', q) = Given(docs, q)
    BY <1>7 DEF Given
  <2>2. \A i \in Given(docs, q) : docs'[i] = docs[i]
    BY <1>7 DEF Given
  <2>3. Seqs(docs', q) = Seqs(docs, q)
    BY <2>1, <2>2 DEF Seqs
  <2> QED
    BY <1>5, <2>1, <2>3 DEF CountOK
<1>9. /\ Seqs(docs', p) = 1..(ensureCounter(p)' - 1)
      /\ Cardinality(Given(docs', p)) = ensureCounter(p)' - 1
  <2>1. Given(docs', p) = Given(docs, p) \cup {k} /\ k \notin Given(docs, p)
    BY <1>1, <1>7 DEF Given
  <2>2. \A i \in Given(docs, p) : docs'[i] = docs[i]
    BY <1>7 DEF Given
  <2>3. Seqs(docs', p) = Seqs(docs, p) \cup {c}
    BY <1>7, <2>1, <2>2 DEF Seqs
  <2>4. Seqs(docs, p) = 1..(c - 1) /\ Cardinality(Given(docs, p)) = c - 1
    BY DEF CountOK
  <2>5. Seqs(docs', p) = 1..c
    BY <1>1, <2>3, <2>4, Interval
  <2>6. Cardinality(Given(docs', p)) = Cardinality(Given(docs, p)) + 1
    BY <1>1, <2>1, FS_AddElement
  <2>7. Cardinality(Given(docs', p)) = c /\ (c + 1) - 1 = c
    BY <1>1, <2>4, <2>6
  <2> QED
    BY <1>5, <2>5, <2>7
<1>10. \A q \in Profiles : /\ Seqs(docs', q) = 1..(ensureCounter(q)' - 1)
                            /\ Cardinality(Given(docs', q)) = ensureCounter(q)' - 1
  BY <1>8, <1>9
<1> QED
  BY <1>4, <1>10 DEF CountOK

(* A row the registry made.                                                *)
LEMMA NoMigration ==
  ASSUME CatInv, NEW d, NewDoc(d), d.by = "registry", UNCHANGED legacy
  PROVE  LegacyOK'
<1>1. PICK k : k = Len(docs) + 1
  OBVIOUS
<1>2. /\ DOMAIN docs' = DOMAIN docs \cup {k} /\ docs'[k] = d
      /\ \A i \in DOMAIN docs : docs'[i] = docs[i]
  BY <1>1, NewDocFacts DEF CatInv
<1>3. \A l \in Legacy : Filed(docs, l) \subseteq Filed(docs', l)
  BY <1>2 DEF Filed
<1>4. \A i \in DOMAIN docs' : docs'[i].by = "backfill" => i \in DOMAIN docs /\ docs[i].by = "backfill"
  BY <1>2
<1> QED
  BY <1>3, <1>4 DEF CatInv, LegacyOK

(* Documents, memberships and the rest when a document is added and its    *)
(* request ends or goes on.                                                *)
LEMMA NewDocRest ==
  ASSUME CatInv, NEW d, NewDoc(d), UNCHANGED <<profiles, areas, versions, released, members, documents>>
  PROVE  TaxOK' /\ DocsOK' /\ MembersOK' /\ DocumentsOK' /\ Kept
<1>1. Kept
  BY NewDocKept DEF CatInv
<1>2. DocsOK'
  BY NewDocOK DEF CatInv
<1> QED
  BY <1>1, <1>2, TaxSame, MembersKept, DocumentsKept DEF CatInv

(* The row of a controlled document.                                       *)
LEMMA DocumentRow ==
  ASSUME NEW p \in Profiles, NEW a \in Areas, profiles[p].exists, areas[a].exists,
         NEW code \in ManualCodes, NEW n \in 0..MaxDocs, NEW by \in {"registry", "backfill"}
  PROVE  LET d == ControlledDocument(p, a, code, n, by) IN
         /\ DocOK(profiles, areas, d) /\ d.profile = p /\ d.code = code /\ d.seq = n
         /\ d.by = by
<1>1. PICK d : d = ControlledDocument(p, a, code, n, by)
  OBVIOUS
<1>2. d.profile = p /\ d.area = a /\ d.code = code /\ d.seq = n /\ d.by = by /\ d \in DocRow
  BY <1>1 DEF ControlledDocument, DocRow, Statuses
<1>3. DocOK(profiles, areas, d)
  BY <1>2 DEF DocOK
<1> QED
  BY <1>1, <1>2, <1>3

(* The code was looked up in an earlier statement; the unique index of the *)
(* table refuses what was taken since.                                     *)
LEMMA InsertManualStep ==
  ASSUME CatInv, NEW r \in Requests, InsertManual(r)
  PROVE  CatInv'
<1>1. PICK x : x = reqs[r]
  OBVIOUS
<1>2. Shape(x) /\ RefsNow(x) /\ x.pc = "insert"
  BY <1>1 DEF CatInv, ReqsOK, InsertManual
<1>3. x.p \in Profiles /\ x.a \in Areas /\ x.code \in ManualCodes
  BY <1>2 DEF Shape
<1>4. profiles[x.p].exists /\ areas[x.a].exists
  BY <1>2 DEF RefsNow, Refs, Coding
<1>5. PICK d : d = ControlledDocument(x.p, x.a, x.code, 0, "registry")
  OBVIOUS
<1>6. 0 \in 0..MaxDocs
  BY CatalogueAssumption
<1>7. DocOK(profiles, areas, d) /\ d.profile = x.p /\ d.code = x.code /\ d.seq = 0
      /\ d.by = "registry"
  BY <1>3, <1>4, <1>5, <1>6, DocumentRow
<1>8. /\ Len(docs) < MaxDocs /\ reqs' = [reqs EXCEPT ![r] = Idle]
      /\ docs' = IF CodeExists(x.p, x.code) THEN docs ELSE Append(docs, d)
      /\ UNCHANGED <<profiles, areas, versions, released, counters, members, documents, legacy>>
  BY <1>1, <1>5 DEF InsertManual, InsertDoc, End, Go
<1>9. CASE CodeExists(x.p, x.code)
  BY <1>8, <1>9, EndStep
<1>10. CASE ~CodeExists(x.p, x.code)
  <2>1. NewDoc(d)
    BY <1>7, <1>8, <1>10 DEF NewDoc
  <2>2. TaxOK' /\ DocsOK' /\ MembersOK' /\ DocumentsOK' /\ Kept
    BY <1>8, <2>1, NewDocRest
  <2>3. CountOK'
    BY <1>7, <1>8, <2>1, NoNumber
  <2>4. LegacyOK'
    BY <1>7, <1>8, <2>1, NoMigration
  <2>5. ReqsOK' /\ LockOK'
    BY <1>8, <2>2, EndsOrSame
  <2> QED
    BY <2>2, <2>3, <2>4, <2>5 DEF CatInv
<1> QED
  BY <1>9, <1>10

(* The number a request was given is still the counter's when it commits.  *)
LEMMA CommitAutoStep ==
  ASSUME CatInv, NEW r \in Requests, CommitAuto(r)
  PROVE  CatInv'
<1>1. PICK x : x = reqs[r]
  OBVIOUS
<1>2. Shape(x) /\ RefsNow(x) /\ x.pc = "coded" /\ Locks(x)
  BY <1>1 DEF CatInv, ReqsOK, CommitAuto, Locks
<1>3. x.p \in Profiles /\ x.a \in Areas /\ x.n \in Nat
  BY <1>2 DEF Shape
<1>4. profiles[x.p].exists /\ areas[x.a].exists
  BY <1>2 DEF RefsNow, Refs, Coding
<1>5. /\ x.n = ensureCounter(x.p)
      /\ \A q \in Requests : Locks(reqs[q]) /\ reqs[q].p = x.p => q = r
  BY <1>1, <1>2 DEF CatInv, LockOK
<1>6. PICK n \in Nat : n = x.n
  BY <1>3
<1>7. n \in 1..MaxDocs
  <2>1. ensureCounter(x.p) \in Nat \ {0} /\ ensureCounter(x.p) - 1 <= Len(docs)
    BY <1>3, GivenBound DEF CatInv
  <2>2. PICK k \in Nat : k = Len(docs)
    BY DEF CatInv, DocsOK
  <2>3. k < MaxDocs /\ n # 0 /\ n - 1 <= k /\ MaxDocs \in Nat
    BY <1>5, <1>6, <2>1, <2>2, CatalogueAssumption DEF CommitAuto
  <2> QED
    BY <2>3
<1>8. PICK code : code = AutoCode(n)
  OBVIOUS
<1>9. code \in ManualCodes
  BY <1>7, <1>8 DEF ManualCodes
<1>10. PICK d : d = ControlledDocument(x.p, x.a, code, n, "registry")
  OBVIOUS
<1>11. /\ DocOK(profiles, areas, d) /\ d.profile = x.p /\ d.code = code /\ d.seq = n
       /\ d.by = "registry"
  BY <1>3, <1>4, <1>7, <1>9, <1>10, DocumentRow
<1>12. /\ Len(docs) < MaxDocs
       /\ docs' = IF CodeExists(x.p, code) THEN docs ELSE Append(docs, d)
       /\ counters' = IF docs' = docs THEN counters ELSE [counters EXCEPT ![x.p] = n + 1]
       /\ reqs' = [reqs EXCEPT ![r] = IF docs' # docs /\ x.then = "create"
                                      THEN [pc |-> "create", cd |-> Len(docs')] ELSE Idle]
       /\ UNCHANGED <<profiles, areas, versions, released, members, documents, legacy>>
  BY <1>1, <1>6, <1>8, <1>10 DEF CommitAuto, InsertDoc, End, Go
<1>13. CASE CodeExists(x.p, code)
  BY <1>12, <1>13, EndStep
<1>14. CASE ~CodeExists(x.p, code)
  <2>1. NewDoc(d)
    BY <1>11, <1>12, <1>14 DEF NewDoc
  <2>2. TaxOK' /\ DocsOK' /\ MembersOK' /\ DocumentsOK' /\ Kept
    BY <1>12, <2>1, NewDocRest
  <2>3. /\ Len(docs') = Len(docs) + 1 /\ Len(docs) \in Nat /\ Len(docs') \in DOMAIN docs'
        /\ docs' # docs /\ Len(docs') \in Nat
    <3>1. /\ Len(docs') = Len(docs) + 1 /\ Len(docs) \in Nat
          /\ Len(docs) + 1 \notin DOMAIN docs /\ Len(docs) + 1 \in DOMAIN docs'
      BY <2>1, NewDocFacts DEF CatInv
    <3> QED
      BY <3>1
  <2>4. counters' = [counters EXCEPT ![x.p] = n + 1]
    BY <1>12, <2>3
  <2>5. CountOK'
    BY <1>3, <1>5, <1>6, <1>11, <2>1, <2>4, NumberSpent DEF CatInv
  <2>6. LegacyOK'
    BY <1>11, <1>12, <2>1, NoMigration
  <2>7. PICK y : y = IF x.then = "create" THEN [pc |-> "create", cd |-> Len(docs')] ELSE Idle
    OBVIOUS
  <2>8. reqs' = [reqs EXCEPT ![r] = y]
    BY <1>12, <2>3, <2>7
  <2>9. Shape(y) /\ RefsNow(y)' /\ ~Locks(y)
    <3>1. CASE x.then = "create"
      <4>1. PICK k : k = Len(docs')
        OBVIOUS
      <4>2. y = [pc |-> "create", cd |-> k] /\ k \in Nat /\ k \in DOMAIN docs'
        BY <2>3, <2>7, <3>1, <4>1
      <4>3. y.pc = "create" /\ y.cd = k /\ y \in [pc : {"create"}, cd : Nat]
        BY <4>2
      <4> QED
        BY <4>2, <4>3 DEF Shape, RefsNow, Refs, Coding, Locks
    <3>2. CASE x.then # "create"
      BY <2>7, <3>2, IdleFacts DEF RefsNow
    <3> QED
      BY <3>1, <3>2
  <2>10. ReqsOK'
    BY <2>2, <2>8, <2>9, ReqsStep DEF CatInv
  <2>11. LockOK'
    <3>1. DOMAIN reqs = Requests /\ \A q \in Requests : reqs'[q] = IF q = r THEN y ELSE reqs[q]
      BY <2>8 DEF CatInv, ReqsOK
    <3>2. ASSUME NEW q \in Requests, Locks(reqs'[q])
          PROVE  q # r /\ reqs'[q] = reqs[q] /\ Locks(reqs[q]) /\ reqs[q].p \in Profiles \ {x.p}
      <4>1. q # r /\ reqs'[q] = reqs[q] /\ Locks(reqs[q])
        BY <2>9, <3>1, <3>2
      <4>2. Shape(reqs[q])
        BY DEF CatInv, ReqsOK
      <4>3. reqs[q].p \in Profiles
        BY <4>1, <4>2 DEF Shape, Locks
      <4> QED
        BY <1>5, <4>1, <4>3
    <3>3. \A p \in Profiles \ {x.p} : ensureCounter(p)' = ensureCounter(p)
      BY <1>3, <2>4 DEF ensureCounter, CatInv, CountOK
    <3>4. ASSUME NEW q \in Requests, Locks(reqs'[q])
          PROVE  /\ reqs'[q].n = ensureCounter(reqs[q].p)'
                 /\ \A s \in Requests : Locks(reqs'[s]) /\ reqs'[s].p = reqs'[q].p => s = q
      <4>1. reqs'[q] = reqs[q] /\ Locks(reqs[q]) /\ reqs[q].p \in Profiles \ {x.p}
        BY <3>2, <3>4
      <4>2. /\ reqs[q].n = ensureCounter(reqs[q].p)
            /\ \A s \in Requests : Locks(reqs[s]) /\ reqs[s].p = reqs[q].p => s = q
        BY <4>1 DEF CatInv, LockOK
      <4>3. PICK p : p = reqs[q].p
        OBVIOUS
      <4>4. ensureCounter(p)' = ensureCounter(p)
        BY <3>3, <4>1, <4>3
      <4>5. ensureCounter(reqs[q].p)' = ensureCounter(p)'
        BY <4>1, <4>3 DEF ensureCounter
      <4>6. reqs'[q].n = ensureCounter(reqs[q].p)'
        BY <4>1, <4>2, <4>3, <4>4, <4>5
      <4> QED
        BY <3>2, <4>1, <4>2, <4>6
    <3> QED
      BY <3>4 DEF LockOK, Locks
  <2> QED
    BY <2>2, <2>5, <2>6, <2>10, <2>11 DEF CatInv
<1> QED
  BY <1>13, <1>14

(* A status is written without a look at the one it replaces; code and     *)
(* number stay.                                                            *)
LEMMA UpdateStatusStep ==
  ASSUME CatInv, NEW r \in Requests, UpdateStatus(r)
  PROVE  CatInv'
<1>1. PICK x : x = reqs[r]
  OBVIOUS
<1>2. Shape(x) /\ RefsNow(x) /\ x.pc = "status"
  BY <1>1 DEF CatInv, ReqsOK, UpdateStatus
<1>3. x.next \in Statuses /\ x.cd \in DOMAIN docs
  BY <1>2 DEF Shape, RefsNow, Refs
<1>4. PICK k \in DOMAIN docs : k = x.cd
  BY <1>3
<1>5. PICK d : d = [docs[k] EXCEPT !.status = x.next]
  OBVIOUS
<1>6. DocOK(profiles, areas, docs[k]) /\ docs[k] \in DocRow
  BY DEF CatInv, DocsOK, DocOK
<1>7. /\ d \in DocRow /\ d.profile = docs[k].profile /\ d.area = docs[k].area
      /\ d.code = docs[k].code /\ d.seq = docs[k].seq /\ d.by = docs[k].by
  BY <1>3, <1>5, <1>6 DEF DocRow
<1>8. docs \in Seq(DocRow) /\ docs' = [docs EXCEPT ![k] = d]
  BY <1>1, <1>4, <1>5 DEF CatInv, DocsOK, UpdateStatus
<1>9. /\ docs' \in Seq(DocRow) /\ Len(docs') = Len(docs) /\ DOMAIN docs' = DOMAIN docs
      /\ \A i \in DOMAIN docs : docs'[i] = IF i = k THEN d ELSE docs[i]
  BY <1>7, <1>8
<1>10. \A i \in DOMAIN docs : /\ docs'[i].profile = docs[i].profile /\ docs'[i].code = docs[i].code
                               /\ docs'[i].seq = docs[i].seq /\ docs'[i].area = docs[i].area
                               /\ docs'[i].by = docs[i].by
  BY <1>7, <1>9
<1>11. UNCHANGED <<profiles, areas, versions, released, counters, members, documents, legacy>>
       /\ reqs' = [reqs EXCEPT ![r] = Idle]
  BY DEF UpdateStatus, End, Go
<1>12. Kept
  BY <1>9, <1>11 DEF Kept
<1>13. DocsOK'
  <2>1. CodesOnce(docs')
    BY <1>9, <1>10 DEF CatInv, DocsOK, CodesOnce
  <2>2. ASSUME NEW i \in DOMAIN docs PROVE DocOK(profiles, areas, docs'[i])
    <3>1. DocOK(profiles, areas, docs[i]) /\ docs'[i] \in DocRow
      BY <1>7, <1>9 DEF CatInv, DocsOK, DocOK
    <3> QED
      BY <1>10, <3>1 DEF DocOK
  <2> QED
    BY <1>9, <1>11, <2>1, <2>2 DEF CatInv, DocsOK
<1>14. CountOK'
  <2>1. ASSUME NEW p \in Profiles
        PROVE  Given(docs', p) = Given(docs, p) /\ Seqs(docs', p) = Seqs(docs, p)
    <3>1. Given(docs', p) = Given(docs, p)
      BY <1>9, <1>10 DEF Given
    <3>2. \A i \in Given(docs, p) : docs'[i].seq = docs[i].seq
      BY <1>10 DEF Given
    <3> QED
      BY <3>1, <3>2 DEF Seqs
  <2>2. \A p : ensureCounter(p)' = ensureCounter(p)
    BY <1>11 DEF ensureCounter
  <2> QED
    BY <1>11, <2>1, <2>2 DEF CatInv, CountOK
<1>15. LegacyOK'
  <2>1. \A l \in Legacy : Filed(docs', l) = Filed(docs, l)
    BY <1>9, <1>10 DEF Filed
  <2> QED
    BY <1>9, <1>10, <1>11, <2>1 DEF CatInv, LegacyOK
<1>16. ReqsOK' /\ LockOK'
  BY <1>11, <1>12, EndsOrSame
<1> QED
  BY <1>11, <1>12, <1>13, <1>14, <1>15, <1>16, TaxSame, MembersKept, DocumentsKept DEF CatInv

(* A legacy document is filed and linked in one transaction: again, it     *)
(* finds the row with its code.                                            *)
LEMMA BackfillDocumentStep ==
  ASSUME CatInv, NEW l \in Legacy, BackfillDocument(l)
  PROVE  CatInv'
<1>1. UNCHANGED <<profiles, areas, versions, released, counters, members, documents, reqs>>
  BY DEF BackfillDocument
<1>2. PICK code : code = LegacyCode(l)
  OBVIOUS
<1>3. CASE ~(GetProfile(Unassigned) /\ GetArea(Unassigned))
  <2>1. UNCHANGED <<docs, legacy>>
    BY <1>3 DEF BackfillDocument
  <2>2. /\ TaxOK' /\ DocsOK' /\ CountOK' /\ MembersOK' /\ DocumentsOK' /\ LegacyOK'
        /\ Kept
    BY <1>1, <2>1, TablesSame
  <2> QED
    BY <1>1, <2>2, EndsOrSame DEF CatInv
<1>4. CASE GetProfile(Unassigned) /\ GetArea(Unassigned)
  <2>1. PICK d : d = ControlledDocument(Unassigned, Unassigned, code, 0, "backfill")
    OBVIOUS
  <2>2. code \in ManualCodes /\ 0 \in 0..MaxDocs
    BY <1>2, MigCodes, CatalogueAssumption
  <2>3. Unassigned \in Profiles /\ Unassigned \in Areas
    BY CatalogueAssumption
  <2>4. profiles[Unassigned].exists /\ areas[Unassigned].exists
    BY <1>4 DEF GetProfile, GetArea
  <2>5. DocOK(profiles, areas, d) /\ d.profile = Unassigned /\ d.code = code /\ d.seq = 0
    BY <2>1, <2>2, <2>3, <2>4, DocumentRow
  <2>6. /\ Len(docs) < MaxDocs
        /\ docs' = IF CodeExists(Unassigned, code) THEN docs ELSE Append(docs, d)
        /\ legacy' = IF legacy[l] # 0 THEN legacy
                     ELSE [legacy EXCEPT ![l] = IF Filed(docs, l) = {} THEN Len(docs')
                                                ELSE CHOOSE i \in Filed(docs, l) : TRUE]
    BY <1>2, <1>4, <2>1 DEF BackfillDocument, InsertDoc, Filed
  <2>7. /\ CodeExists(Unassigned, code) <=> Filed(docs, l) # {}
        /\ \A m \in Legacy : legacy[m] # 0 => legacy[m] \in Filed(docs, m)
        /\ \A i \in DOMAIN docs : docs[i].by = "backfill" => \E m \in Legacy : legacy[m] = i
        /\ \A i \in DOMAIN docs : i # 0 /\ i \in 0..MaxDocs
    <3>1. PICK n \in Nat : n = Len(docs) /\ DOMAIN docs = 1..n /\ n <= MaxDocs
      BY DEF CatInv, DocsOK
    <3>2. \A i \in DOMAIN docs : i # 0 /\ i \in 0..MaxDocs
      BY <3>1, CatalogueAssumption
    <3> QED
      BY <1>2, <3>2 DEF CodeExists, Filed, CatInv, LegacyOK
  <2>8. CASE legacy[l] # 0
    <3>1. CodeExists(Unassigned, code)
      BY <2>7, <2>8
    <3>2. UNCHANGED <<docs, legacy>>
      BY <2>6, <2>8, <3>1
    <3>3. /\ TaxOK' /\ DocsOK' /\ CountOK' /\ MembersOK' /\ DocumentsOK' /\ LegacyOK'
          /\ Kept
      BY <1>1, <3>2, TablesSame
    <3> QED
      BY <1>1, <3>3, EndsOrSame DEF CatInv
  <2>9. CASE legacy[l] = 0 /\ CodeExists(Unassigned, code)
    <3>1. PICK k \in Filed(docs, l) : UNCHANGED docs /\ legacy' = [legacy EXCEPT ![l] = k]
      <4>1. (CHOOSE i \in Filed(docs, l) : TRUE) \in Filed(docs, l)
        BY <2>7, <2>9
      <4> QED
        BY <2>6, <2>7, <2>9, <4>1
    <3>2. k \in 0..MaxDocs /\ legacy' \in [Legacy -> 0..MaxDocs] /\ legacy'[l] = k
          /\ \A m \in Legacy \ {l} : legacy'[m] = legacy[m]
      BY <2>7, <3>1 DEF CatInv, LegacyOK, Filed
    <3>3. \A m \in Legacy : legacy'[m] # 0 => legacy'[m] \in Filed(docs', m)
      BY <2>7, <3>1, <3>2
    <3>4. \A i \in DOMAIN docs' : docs'[i].by = "backfill" => \E m \in Legacy : legacy'[m] = i
      BY <2>7, <2>9, <3>1, <3>2
    <3>5. LegacyOK'
      BY <3>2, <3>3, <3>4 DEF LegacyOK
    <3>6. Kept
      BY <1>1, <3>1, NothingLost
    <3> QED
      BY <1>1, <3>1, <3>5, <3>6, TaxSame, DocsKept, CountSame, MembersKept, DocumentsKept,
         EndsOrSame DEF CatInv
  <2>10. CASE legacy[l] = 0 /\ ~CodeExists(Unassigned, code)
    <3>1. NewDoc(d) /\ Filed(docs, l) = {}
      BY <2>5, <2>6, <2>7, <2>10 DEF NewDoc
    <3>2. TaxOK' /\ DocsOK' /\ MembersOK' /\ DocumentsOK' /\ Kept
      BY <1>1, <3>1, NewDocRest
    <3>3. CountOK'
      BY <1>1, <2>5, <3>1, NoNumber
    <3>4. PICK k : k = Len(docs')
      OBVIOUS
    <3>5. /\ DOMAIN docs' = DOMAIN docs \cup {k} /\ k \notin DOMAIN docs
          /\ (\A i \in DOMAIN docs : docs'[i] = docs[i]) /\ docs'[k] = d
      BY <3>1, <3>4, NewDocFacts DEF CatInv
    <3>6. k \in 0..MaxDocs /\ k # 0
      <4>1. PICK n \in Nat : n = Len(docs)
        BY DEF CatInv, DocsOK
      <4>2. k = n + 1 /\ k <= MaxDocs
        BY <3>1, <3>4, <4>1, NewDocFacts DEF CatInv
      <4> QED
        BY <4>2, CatalogueAssumption
    <3>7. legacy' = [legacy EXCEPT ![l] = k]
      BY <2>6, <2>10, <3>1, <3>4
    <3>8. legacy' \in [Legacy -> 0..MaxDocs] /\ legacy'[l] = k
          /\ \A m \in Legacy \ {l} : legacy'[m] = legacy[m]
      BY <3>6, <3>7 DEF CatInv, LegacyOK
    <3>9. \A m \in Legacy : legacy'[m] # 0 => legacy'[m] \in Filed(docs', m)
      <4>1. \A m \in Legacy : Filed(docs, m) \subseteq Filed(docs', m)
        BY <3>5 DEF Filed
      <4>2. k \in Filed(docs', l)
        BY <1>2, <2>5, <3>5 DEF Filed
      <4> QED
        BY <2>7, <3>8, <4>1, <4>2
    <3>10. \A i \in DOMAIN docs' : docs'[i].by = "backfill" => \E m \in Legacy : legacy'[m] = i
      BY <2>7, <2>10, <3>5, <3>8
    <3>11. LegacyOK'
      BY <3>8, <3>9, <3>10 DEF LegacyOK
    <3> QED
      BY <1>1, <3>2, <3>3, <3>11, EndsOrSame DEF CatInv
  <2> QED
    BY <2>8, <2>9, <2>10
<1> QED
  BY <1>3, <1>4

LEMMA RestartStep ==
  ASSUME CatInv, Restart
  PROVE  CatInv'
<1>1. UNCHANGED <<profiles, areas, versions, released, docs, counters, members, documents, legacy>>
      /\ reqs' = [r \in Requests |-> Idle]
  BY DEF Restart
<1>2. TaxOK' /\ DocsOK' /\ CountOK' /\ MembersOK' /\ DocumentsOK' /\ LegacyOK'
  BY <1>1, TablesSame
<1>3. DOMAIN reqs' = Requests /\ \A r \in Requests : reqs'[r] = Idle
  BY <1>1
<1>4. ReqsOK'
  <2>1. Shape(Idle) /\ RefsNow(Idle)'
    BY IdleFacts DEF RefsNow
  <2>2. ASSUME NEW r \in Requests PROVE RefsNow(reqs[r])'
    BY <1>3, <2>1 DEF RefsNow
  <2> QED
    BY <1>3, <2>1, <2>2 DEF ReqsOK
<1>5. LockOK'
  <2>1. \A r \in Requests : ~Locks(reqs'[r])
    BY <1>3, IdleFacts
  <2> QED
    BY <2>1 DEF LockOK, Locks
<1> QED
  BY <1>2, <1>4, <1>5 DEF CatInv

LEMMA BackfillStep ==
  ASSUME CatInv, BackfillStart \/ BackfillEnd
  PROVE  CatInv'
<1>1. UNCHANGED <<profiles, areas, versions, released, docs, counters, members, documents, legacy, reqs>>
  BY DEF BackfillStart, BackfillEnd
<1>2. /\ TaxOK' /\ DocsOK' /\ CountOK' /\ MembersOK' /\ DocumentsOK' /\ LegacyOK'
      /\ Kept
  BY <1>1, TablesSame
<1> QED
  BY <1>1, <1>2, EndsOrSame DEF CatInv

-----------------------------------------------------------------------------
(* Memberships.                                                            *)

(* A row is never closed: nothing says who closed it.                      *)
LEMMA NeverClosed ==
  ASSUME MembersOK, NEW u, NEW a, ActiveRows(u, a) # {}
  PROVE  ~RevokedByGiven(Closed(ActiveRows(u, a)))
<1>1. PICK m \in ActiveRows(u, a) : TRUE
  OBVIOUS
<1>2. m \in MemberRow
  BY DEF MembersOK, ActiveRows
<1>3. PICK n : n = [m EXCEPT !.open = FALSE]
  OBVIOUS
<1>4. ~n.open /\ n.revokedBy = None
  BY <1>2, <1>3 DEF MemberRow
<1>5. n \in Closed(ActiveRows(u, a))
  BY <1>3 DEF Closed
<1> QED
  BY <1>4, <1>5 DEF RevokedByGiven

LEMMA MemberWriteStep ==
  ASSUME CatInv, NEW r \in Requests, WriteGrant(r) \/ WriteRevoke(r)
  PROVE  CatInv'
<1>1. PICK x : x = reqs[r]
  OBVIOUS
<1>2. UNCHANGED <<profiles, areas, versions, released, docs, counters, documents, legacy>>
      /\ reqs' = [reqs EXCEPT ![r] = Idle]
  BY DEF WriteGrant, WriteRevoke, End, Go
<1>3. \/ members' = members
      \/ /\ x.pc = "grant" /\ ActiveRows(x.u, x.a) = {} /\ areas[x.a].exists
         /\ members' = members \cup {Member(x.u, x.a, x.role)}
  <2>1. CASE WriteRevoke(r)
    <3>1. PICK old : old = ActiveRows(x.u, x.a)
      OBVIOUS
    <3>2. members' = IF RevokedByGiven(Closed(old)) THEN (members \ old) \cup Closed(old)
                     ELSE members
      BY <1>1, <2>1, <3>1 DEF WriteRevoke, CloseActive
    <3>3. CASE old = {}
      BY <3>2, <3>3 DEF Closed
    <3>4. CASE old # {}
      BY <3>1, <3>2, <3>4, NeverClosed DEF CatInv
    <3> QED
      BY <3>3, <3>4
  <2>2. CASE WriteGrant(r)
    <3>1. CASE x.existing
      <4>1. PICK old : old = ActiveRows(x.u, x.a)
        OBVIOUS
      <4>2. members' = IF old # {} /\ RevokedByGiven(Closed(old))
                       THEN (members \ old) \cup Closed(old) \cup {Member(x.u, x.a, x.role)}
                       ELSE members
        BY <1>1, <2>2, <3>1, <4>1 DEF WriteGrant, GrantAtomic
      <4> QED
        BY <4>1, <4>2, NeverClosed DEF CatInv
    <3>2. CASE ~x.existing
      BY <1>1, <2>2, <3>2 DEF WriteGrant, InsertMember
    <3> QED
      BY <3>1, <3>2
  <2> QED
    BY <2>1, <2>2
<1>4. Kept
  BY <1>2, NothingLost
<1>5. MembersOK'
  <2>1. CASE members' = members
    BY <1>4, <2>1, MembersKept DEF CatInv
  <2>2. CASE /\ x.pc = "grant" /\ ActiveRows(x.u, x.a) = {} /\ areas[x.a].exists
             /\ members' = members \cup {Member(x.u, x.a, x.role)}
    <3>1. x.u \in Users /\ x.a \in Areas /\ x.role \in Roles
      BY <1>1, <2>2 DEF CatInv, ReqsOK, Shape
    <3>2. PICK m : m = Member(x.u, x.a, x.role)
      OBVIOUS
    <3>3. m \in MemberRow /\ m.user = x.u /\ m.area = x.a
      BY <3>1, <3>2 DEF Member, MemberRow
    <3>4. \A n \in members : n.open => ~(n.user = x.u /\ n.area = x.a)
      BY <2>2 DEF ActiveRows
    <3>5. members' = members \cup {m} /\ areas' = areas
      BY <1>2, <2>2, <3>2
    <3>6. members' \subseteq MemberRow /\ \A n \in members' : areas'[n.area].exists
      BY <2>2, <3>3, <3>5 DEF CatInv, MembersOK
    <3>7. ASSUME NEW n \in members', NEW k \in members', n.open, k.open,
                 n.user = k.user, n.area = k.area
          PROVE  n = k
      BY <3>3, <3>4, <3>5, <3>7 DEF CatInv, MembersOK
    <3> QED
      BY <3>6, <3>7 DEF MembersOK
  <2> QED
    BY <1>3, <2>1, <2>2
<1>6. ReqsOK' /\ LockOK'
  BY <1>2, <1>4, EndsOrSame
<1> QED
  BY <1>2, <1>4, <1>5, <1>6, TaxSame, DocsKept, CountSame, DocumentsKept, LegacySame DEF CatInv

-----------------------------------------------------------------------------
(* Documents made from a template.                                         *)

LEMMA MadeStep ==
  ASSUME CatInv, Kept, UNCHANGED <<profiles, areas, versions, released, docs, counters, members, legacy>>,
         documents' \in Seq(MadeRow),
         \A i \in DOMAIN documents' : MadeOK(released, docs, documents'[i]),
         NEW r \in Requests, NEW y, Shape(y), RefsNow(y)', ~Locks(y),
         reqs' = [reqs EXCEPT ![r] = y]
  PROVE  CatInv'
<1>1. DocumentsOK'
  BY DEF DocumentsOK
<1>2. ReqsOK'
  BY ReqsStep DEF CatInv
<1>3. LockOK'
  BY LockKept DEF CatInv, ReqsOK
<1> QED
  BY <1>1, <1>2, <1>3, TaxSame, DocsKept, CountSame, MembersKept, LegacySame DEF CatInv

(* The version was published when it was looked up.                        *)
LEMMA InsertDocumentStep ==
  ASSUME CatInv, NEW r \in Requests, InsertDocument(r)
  PROVE  CatInv'
<1>1. PICK x : x = reqs[r]
  OBVIOUS
<1>2. Shape(x) /\ RefsNow(x) /\ x.pc = "found"
  BY <1>1 DEF CatInv, ReqsOK, InsertDocument
<1>3. x.cd \in Nat /\ x.tpl \in Versions
  BY <1>2 DEF Shape
<1>4. x.cd \in DOMAIN docs /\ x.tpl \in released
  BY <1>2 DEF RefsNow, Refs
<1>5. PICK d : d = [cd |-> x.cd, tpl |-> x.tpl, key |-> None, snapshot |-> None]
  OBVIOUS
<1>6. d.cd = x.cd /\ d.tpl = x.tpl /\ d.key = None /\ d.snapshot = None /\ d \in MadeRow
  BY <1>3, <1>5 DEF MadeRow
<1>7. MadeOK(released, docs, d)
  BY <1>4, <1>6 DEF MadeOK
<1>8. documents \in Seq(MadeRow) /\ documents' = Append(documents, d)
  BY <1>1, <1>5 DEF CatInv, DocumentsOK, InsertDocument
<1>9. PICK k : k = Len(documents) + 1
  OBVIOUS
<1>10. /\ documents' \in Seq(MadeRow) /\ Len(documents') = k /\ k \in Nat
       /\ DOMAIN documents' = DOMAIN documents \cup {k}
       /\ (\A i \in DOMAIN documents : documents'[i] = documents[i]) /\ documents'[k] = d
  BY <1>6, <1>8, <1>9, AppendFacts
<1>11. PICK y : y = [pc |-> "stored", doc |-> k, tpl |-> x.tpl]
  OBVIOUS
<1>12. UNCHANGED <<profiles, areas, versions, released, docs, counters, members, legacy>>
       /\ reqs' = [reqs EXCEPT ![r] = y]
  BY <1>1, <1>10, <1>11 DEF InsertDocument, Go
<1>13. Kept
  BY <1>10, <1>12 DEF Kept
<1>14. y.pc = "stored" /\ y.doc = k /\ y.tpl = x.tpl
       /\ y \in [pc : {"stored", "keyed"}, doc : Nat, tpl : Versions]
  BY <1>3, <1>10, <1>11
<1>15. Shape(y) /\ ~Locks(y)
  BY <1>14 DEF Shape, Locks
<1>16. RefsNow(y)'
  BY <1>6, <1>10, <1>14 DEF RefsNow, Refs, Coding
<1>17. \A i \in DOMAIN documents' : MadeOK(released, docs, documents'[i])
  BY <1>7, <1>10 DEF CatInv, DocumentsOK
<1> QED
  BY <1>10, <1>12, <1>13, <1>15, <1>16, <1>17, MadeStep

(* The key and the snapshot of a document the request made.                *)
LEMMA RowSet ==
  ASSUME CatInv, NEW k \in DOMAIN documents, NEW d \in MadeRow, MadeOK(released, docs, d),
         d.tpl = documents[k].tpl, documents[k].key = d.tpl => d.key = d.tpl,
         documents' = [documents EXCEPT ![k] = d],
         UNCHANGED <<profiles, areas, versions, released, docs>>
  PROVE  /\ Kept /\ documents' \in Seq(MadeRow) /\ DOMAIN documents' = DOMAIN documents
         /\ documents'[k] = d
         /\ \A i \in DOMAIN documents' : MadeOK(released, docs, documents'[i])
<1>1. documents \in Seq(MadeRow)
  BY DEF CatInv, DocumentsOK
<1>2. /\ documents' \in Seq(MadeRow) /\ DOMAIN documents' = DOMAIN documents
      /\ \A i \in DOMAIN documents : documents'[i] = IF i = k THEN d ELSE documents[i]
  BY <1>1
<1>3. \A i \in DOMAIN documents' : MadeOK(released, docs, documents'[i])
  BY <1>2 DEF CatInv, DocumentsOK
<1>4. \A i \in DOMAIN documents :
        /\ documents'[i].tpl = documents[i].tpl
        /\ documents[i].key = documents[i].tpl => documents'[i].key = documents[i].tpl
  BY <1>2
<1>5. Kept
  BY <1>2, <1>4 DEF Kept
<1> QED
  BY <1>2, <1>3, <1>5

LEMMA SetRevisionStorageKeyStep ==
  ASSUME CatInv, NEW r \in Requests, SetRevisionStorageKey(r)
  PROVE  CatInv'
<1>1. PICK x : x = reqs[r]
  OBVIOUS
<1>2. Shape(x) /\ RefsNow(x) /\ x.pc = "stored"
  BY <1>1 DEF CatInv, ReqsOK, SetRevisionStorageKey
<1>3. x \in [pc : {"stored", "keyed"}, doc : Nat, tpl : Versions]
  BY <1>2 DEF Shape
<1>4. x.doc \in DOMAIN documents /\ documents[x.doc].tpl = x.tpl
  BY <1>2 DEF RefsNow, Refs
<1>5. PICK k \in DOMAIN documents : k = x.doc
  BY <1>4
<1>6. PICK d : d = [documents[k] EXCEPT !.key = x.tpl]
  OBVIOUS
<1>7. MadeOK(released, docs, documents[k]) /\ documents[k] \in MadeRow
  BY DEF CatInv, DocumentsOK, MadeOK
<1>8. /\ d \in MadeRow /\ d.cd = documents[k].cd /\ d.tpl = documents[k].tpl
      /\ d.key = x.tpl /\ d.snapshot = documents[k].snapshot
  BY <1>3, <1>6, <1>7 DEF MadeRow
<1>9. MadeOK(released, docs, d)
  BY <1>4, <1>5, <1>7, <1>8 DEF MadeOK
<1>10. PICK y : y = [x EXCEPT !.pc = "keyed"]
  OBVIOUS
<1>11. /\ documents' = [documents EXCEPT ![k] = d] /\ reqs' = [reqs EXCEPT ![r] = y]
       /\ UNCHANGED <<profiles, areas, versions, released, docs, counters, members, legacy>>
  BY <1>1, <1>5, <1>6, <1>10 DEF SetRevisionStorageKey, Go
<1>12. /\ Kept /\ documents' \in Seq(MadeRow) /\ DOMAIN documents' = DOMAIN documents
       /\ documents'[k] = d
       /\ \A i \in DOMAIN documents' : MadeOK(released, docs, documents'[i])
  BY <1>4, <1>5, <1>8, <1>9, <1>11, RowSet
<1>13. y.pc = "keyed" /\ y.doc = k /\ y.tpl = x.tpl
       /\ y \in [pc : {"stored", "keyed"}, doc : Nat, tpl : Versions]
  BY <1>3, <1>5, <1>10
<1>14. Shape(y) /\ ~Locks(y)
  BY <1>13 DEF Shape, Locks
<1>15. RefsNow(y)'
  BY <1>4, <1>5, <1>8, <1>12, <1>13 DEF RefsNow, Refs, Coding
<1> QED
  BY <1>11, <1>12, <1>14, <1>15, MadeStep

LEMMA SnapshotStep ==
  ASSUME CatInv, NEW r \in Requests, SnapshotFromTemplate(r)
  PROVE  CatInv'
<1>1. PICK x : x = reqs[r]
  OBVIOUS
<1>2. Shape(x) /\ RefsNow(x) /\ x.pc = "keyed"
  BY <1>1 DEF CatInv, ReqsOK, SnapshotFromTemplate
<1>3. x \in [pc : {"stored", "keyed"}, doc : Nat, tpl : Versions]
  BY <1>2 DEF Shape
<1>4. /\ x.doc \in DOMAIN documents /\ documents[x.doc].tpl = x.tpl
      /\ documents[x.doc].key = x.tpl
  BY <1>2 DEF RefsNow, Refs
<1>5. PICK k \in DOMAIN documents : k = x.doc
  BY <1>4
<1>6. PICK d : d = [documents[k] EXCEPT !.snapshot = x.tpl]
  OBVIOUS
<1>7. MadeOK(released, docs, documents[k]) /\ documents[k] \in MadeRow
  BY DEF CatInv, DocumentsOK, MadeOK
<1>8. /\ d \in MadeRow /\ d.cd = documents[k].cd /\ d.tpl = documents[k].tpl
      /\ d.key = documents[k].key
  BY <1>3, <1>6, <1>7 DEF MadeRow
<1>9. MadeOK(released, docs, d)
  BY <1>4, <1>5, <1>7, <1>8 DEF MadeOK
<1>10. /\ documents' = [documents EXCEPT ![k] = d] /\ reqs' = [reqs EXCEPT ![r] = Idle]
       /\ UNCHANGED <<profiles, areas, versions, released, docs, counters, members, legacy>>
  BY <1>1, <1>5, <1>6 DEF SnapshotFromTemplate, End, Go
<1>11. /\ Kept /\ documents' \in Seq(MadeRow)
       /\ \A i \in DOMAIN documents' : MadeOK(released, docs, documents'[i])
  BY <1>4, <1>5, <1>8, <1>9, <1>10, RowSet
<1>12. Shape(Idle) /\ ~Locks(Idle) /\ RefsNow(Idle)'
  BY IdleFacts DEF RefsNow
<1> QED
  BY <1>10, <1>11, <1>12, MadeStep

-----------------------------------------------------------------------------
(* The statements of a request that only read.                             *)

LEMMA CheckManualCodeStep ==
  ASSUME CatInv, NEW r \in Requests, CheckManualCode(r)
  PROVE  CatInv'
<1>1. PICK x : x = reqs[r]
  OBVIOUS
<1>2. Shape(x) /\ RefsNow(x) /\ x.pc = "manual"
  BY <1>1 DEF CatInv, ReqsOK, CheckManualCode
<1>3. UNCHANGED <<profiles, areas, versions, released, docs, counters, members, documents, legacy>>
  BY DEF CheckManualCode
<1>4. PICK y : y = [x EXCEPT !.pc = "insert"]
  OBVIOUS
<1>5. x \in [pc : {"manual", "insert"}, p : Profiles, a : Areas, code : ManualCodes,
             override : BOOLEAN]
  BY <1>2 DEF Shape
<1>6. /\ y.pc = "insert" /\ y.p = x.p /\ y.a = x.a
      /\ y \in [pc : {"manual", "insert"}, p : Profiles, a : Areas, code : ManualCodes,
                override : BOOLEAN]
  BY <1>4, <1>5
<1>7. Shape(y) /\ RefsNow(y) /\ ~Locks(y)
  BY <1>2, <1>6 DEF Shape, RefsNow, Refs, Coding, Locks
<1>8. reqs' = [reqs EXCEPT ![r] = Idle] \/ reqs' = [reqs EXCEPT ![r] = y]
  BY <1>1, <1>4 DEF CheckManualCode, End, Go
<1> QED
  BY <1>3, <1>7, <1>8, EndStep, QuietStep

LEMMA BeginTxStep ==
  ASSUME CatInv, NEW r \in Requests, BeginTx(r)
  PROVE  CatInv'
<1>1. PICK x : x = reqs[r]
  OBVIOUS
<1>2. Shape(x) /\ RefsNow(x) /\ x.pc = "begin"
  BY <1>1 DEF CatInv, ReqsOK, BeginTx
<1>3. PICK y : y = [x EXCEPT !.pc = "begun"]
  OBVIOUS
<1>4. x \in [pc : {"begin", "begun"}, p : Profiles, a : Areas, override : BOOLEAN,
             then : {"reply", "create"}]
  BY <1>2 DEF Shape
<1>5. /\ y.pc = "begun" /\ y.p = x.p /\ y.a = x.a
      /\ y \in [pc : {"begin", "begun"}, p : Profiles, a : Areas, override : BOOLEAN,
                then : {"reply", "create"}]
  BY <1>3, <1>4
<1>6. Shape(y) /\ RefsNow(y) /\ ~Locks(y)
  BY <1>2, <1>5 DEF Shape, RefsNow, Refs, Coding, Locks
<1>7. /\ reqs' = [reqs EXCEPT ![r] = y]
      /\ UNCHANGED <<profiles, areas, versions, released, docs, counters, members, documents, legacy>>
  BY <1>1, <1>3 DEF BeginTx, Go
<1> QED
  BY <1>6, <1>7, QuietStep

(* The number is taken when no other request of the profile has one.       *)
LEMMA NextAndIncrementStep ==
  ASSUME CatInv, NEW r \in Requests, NextAndIncrement(r)
  PROVE  CatInv'
<1>1. PICK x : x = reqs[r]
  OBVIOUS
<1>2. Shape(x) /\ RefsNow(x) /\ x.pc = "begun"
  BY <1>1 DEF CatInv, ReqsOK, NextAndIncrement
<1>3. /\ x.p \in Profiles /\ x.a \in Areas /\ x.override \in BOOLEAN
      /\ x.then \in {"reply", "create"}
  BY <1>2 DEF Shape
<1>4. PICK n : n = ensureCounter(x.p)
  OBVIOUS
<1>5. n \in Nat
  BY <1>3, <1>4, GivenBound DEF CatInv
<1>6. PICK y : y = [pc |-> "numbered", p |-> x.p, a |-> x.a, n |-> n, override |-> x.override,
                    then |-> x.then]
  OBVIOUS
<1>7. /\ y.pc = "numbered" /\ y.p = x.p /\ y.a = x.a /\ y.n = n
      /\ y \in [pc : {"numbered", "coded"}, p : Profiles, a : Areas, n : Nat,
                override : BOOLEAN, then : {"reply", "create"}]
  BY <1>3, <1>5, <1>6
<1>8. Shape(y) /\ RefsNow(y)
  BY <1>2, <1>7 DEF Shape, RefsNow, Refs, Coding
<1>9. /\ reqs' = [reqs EXCEPT ![r] = y]
      /\ UNCHANGED <<profiles, areas, versions, released, docs, counters, members, documents, legacy>>
  BY <1>1, <1>4, <1>6 DEF NextAndIncrement, Go
<1>10. \A q \in Requests : Locks(reqs[q]) => reqs[q].p # x.p
  BY <1>1 DEF NextAndIncrement, CounterFree, Locks
<1>11. y.n = ensureCounter(y.p) /\ \A q \in Requests : Locks(reqs[q]) /\ reqs[q].p = y.p => q = r
  BY <1>4, <1>7, <1>10
<1> QED
  BY <1>8, <1>9, <1>11, QuietStep

LEMMA CheckAutoCodeStep ==
  ASSUME CatInv, NEW r \in Requests, CheckAutoCode(r)
  PROVE  CatInv'
<1>1. PICK x : x = reqs[r]
  OBVIOUS
<1>2. Shape(x) /\ RefsNow(x) /\ x.pc = "numbered" /\ Locks(x)
  BY <1>1 DEF CatInv, ReqsOK, CheckAutoCode, Locks
<1>3. x \in [pc : {"numbered", "coded"}, p : Profiles, a : Areas, n : Nat,
             override : BOOLEAN, then : {"reply", "create"}]
  BY <1>2 DEF Shape
<1>4. PICK y : y = [x EXCEPT !.pc = "coded"]
  OBVIOUS
<1>5. /\ y.pc = "coded" /\ y.p = x.p /\ y.a = x.a /\ y.n = x.n
      /\ y \in [pc : {"numbered", "coded"}, p : Profiles, a : Areas, n : Nat,
                override : BOOLEAN, then : {"reply", "create"}]
  BY <1>3, <1>4
<1>6. Shape(y) /\ RefsNow(y)
  BY <1>2, <1>5 DEF Shape, RefsNow, Refs, Coding
<1>7. UNCHANGED <<profiles, areas, versions, released, docs, counters, members, documents, legacy>>
  BY DEF CheckAutoCode
<1>8. reqs' = [reqs EXCEPT ![r] = Idle] \/ reqs' = [reqs EXCEPT ![r] = y]
  BY <1>1, <1>4 DEF CheckAutoCode, End, Go
<1>9. y.n = ensureCounter(y.p) /\ \A q \in Requests : Locks(reqs[q]) /\ reqs[q].p = y.p => q = r
  BY <1>1, <1>2, <1>5 DEF CatInv, LockOK
<1> QED
  BY <1>6, <1>7, <1>8, <1>9, EndStep, QuietStep

LEMMA CreateDocumentStep ==
  ASSUME CatInv, NEW r \in Requests, CreateDocument(r)
  PROVE  CatInv'
<1>1. PICK x : x = reqs[r]
  OBVIOUS
<1>2. Shape(x) /\ RefsNow(x) /\ x.pc = "create"
  BY <1>1 DEF CatInv, ReqsOK, CreateDocument
<1>3. x.cd \in Nat /\ x.cd \in DOMAIN docs
  BY <1>2 DEF Shape, RefsNow, Refs
<1>4. PICK p : p = docs[x.cd].profile
  OBVIOUS
<1>5. p \in Profiles /\ profiles[p].exists
  BY <1>3, <1>4 DEF CatInv, DocsOK, DocOK, DocRow
<1>6. PICK tpl : tpl = Resolve(GetDefaultTemplateVersionID(p))
  OBVIOUS
<1>7. tpl \in Versions \cup {None}
  <2>1. profiles[p] \in RowOf(Versions)
    BY <1>5, RowsShape DEF CatInv, TaxOK
  <2>2. profiles[p].ref \in Versions \cup {None}
    BY <2>1 DEF RowOf
  <2>3. tpl = profiles[p].ref \/ tpl = None
    BY <1>6 DEF Resolve, GetDefaultTemplateVersionID
  <2> QED
    BY <2>2, <2>3
<1>8. UNCHANGED <<profiles, areas, versions, released, docs, counters, members, documents, legacy>>
  BY DEF CreateDocument
<1>9. PICK y : y = [pc |-> "resolved", cd |-> x.cd, tpl |-> tpl]
  OBVIOUS
<1>10. \/ reqs' = [reqs EXCEPT ![r] = Idle]
       \/ tpl # None /\ reqs' = [reqs EXCEPT ![r] = y]
  BY <1>1, <1>4, <1>6, <1>9 DEF CreateDocument, GetByID, End, Go
<1>11. CASE reqs' = [reqs EXCEPT ![r] = Idle]
  BY <1>8, <1>11, EndStep
<1>12. CASE tpl # None /\ reqs' = [reqs EXCEPT ![r] = y]
  <2>1. y.pc = "resolved" /\ y.cd = x.cd
        /\ y \in [pc : {"resolved", "found"}, cd : Nat, tpl : Versions]
    BY <1>3, <1>7, <1>9, <1>12
  <2>2. Shape(y) /\ RefsNow(y) /\ ~Locks(y)
    BY <1>3, <2>1 DEF Shape, RefsNow, Refs, Coding, Locks
  <2> QED
    BY <1>8, <1>12, <2>2, QuietStep
<1> QED
  BY <1>10, <1>11, <1>12

LEMMA LookUpTemplateStep ==
  ASSUME CatInv, NEW r \in Requests, LookUpTemplate(r)
  PROVE  CatInv'
<1>1. PICK x : x = reqs[r]
  OBVIOUS
<1>2. Shape(x) /\ RefsNow(x) /\ x.pc = "resolved"
  BY <1>1 DEF CatInv, ReqsOK, LookUpTemplate
<1>3. x \in [pc : {"resolved", "found"}, cd : Nat, tpl : Versions] /\ x.cd \in DOMAIN docs
  BY <1>2 DEF Shape, RefsNow, Refs
<1>4. PICK y : y = [x EXCEPT !.pc = "found"]
  OBVIOUS
<1>5. y.pc = "found" /\ y.cd = x.cd /\ y.tpl = x.tpl
      /\ y \in [pc : {"resolved", "found"}, cd : Nat, tpl : Versions]
  BY <1>3, <1>4
<1>6. UNCHANGED <<profiles, areas, versions, released, docs, counters, members, documents, legacy>>
  BY DEF LookUpTemplate
<1>7. \/ reqs' = [reqs EXCEPT ![r] = Idle]
      \/ versions[x.tpl] = "published" /\ reqs' = [reqs EXCEPT ![r] = y]
  BY <1>1, <1>4 DEF LookUpTemplate, GetPublishedVersion, End, Go
<1>8. CASE reqs' = [reqs EXCEPT ![r] = Idle]
  BY <1>6, <1>8, EndStep
<1>9. CASE versions[x.tpl] = "published" /\ reqs' = [reqs EXCEPT ![r] = y]
  <2>1. Shape(y) /\ RefsNow(y) /\ ~Locks(y)
    <3>1. x.tpl \in released
      BY <1>3, <1>9 DEF CatInv, TaxOK
    <3> QED
      BY <1>3, <1>5, <3>1 DEF Shape, RefsNow, Refs, Coding, Locks
  <2> QED
    BY <1>6, <1>9, <2>1, QuietStep
<1> QED
  BY <1>7, <1>8, <1>9

-----------------------------------------------------------------------------
(* The requests.                                                           *)

LEMMA FreshStep ==
  ASSUME CatInv, NEW r \in Requests, NEW x, Shape(x), RefsNow(x), ~Locks(x), Begin(r, x),
         UNCHANGED <<profiles, areas, versions, released, docs, counters, members, documents, legacy>>
  PROVE  CatInv'
<1>1. reqs' = [reqs EXCEPT ![r] = x]
  BY DEF Begin
<1> QED
  BY <1>1, QuietStep

(* The automatic numbering, of a new document or of a duplicate.           *)
LEMMA NumberingRequest ==
  ASSUME CatInv, NEW r \in Requests, NEW p \in Profiles, NEW a \in Areas,
         NEW o \in BOOLEAN, NEW t \in {"reply", "create"}, Create(p, a),
         Begin(r, [pc |-> "begin", p |-> p, a |-> a, override |-> o, then |-> t]),
         UNCHANGED <<profiles, areas, versions, released, docs, counters, members, documents, legacy>>
  PROVE  CatInv'
<1>1. PICK x : x = [pc |-> "begin", p |-> p, a |-> a, override |-> o, then |-> t]
  OBVIOUS
<1>2. /\ x.pc = "begin" /\ x.p = p /\ x.a = a
      /\ x \in [pc : {"begin", "begun"}, p : Profiles, a : Areas, override : BOOLEAN,
                then : {"reply", "create"}]
  BY <1>1
<1>3. profiles[p].exists /\ areas[a].exists
  BY DEF Create, GetProfile, GetArea
<1>4. Shape(x) /\ RefsNow(x) /\ ~Locks(x)
  BY <1>2, <1>3 DEF Shape, RefsNow, Refs, Coding, Locks
<1> QED
  BY <1>1, <1>4, FreshStep

LEMMA CreateDocStep ==
  ASSUME CatInv, NEW r \in Requests, createDoc(r)
  PROVE  CatInv'
<1>1. ASSUME NEW p \in Profiles, NEW a \in Areas, NEW o \in BOOLEAN, createAuto(r, p, a, o)
      PROVE  CatInv'
  <2>1. /\ Create(p, a)
        /\ Begin(r, [pc |-> "begin", p |-> p, a |-> a, override |-> o, then |-> "reply"])
        /\ UNCHANGED <<profiles, areas, versions, released, docs, counters, members, documents, legacy>>
    BY <1>1 DEF createAuto
  <2> QED
    BY <2>1, NumberingRequest
<1>2. ASSUME NEW p \in Profiles, NEW a \in Areas, NEW o \in BOOLEAN, NEW code \in ManualCodes,
             createManual(r, p, a, code, o)
      PROVE  CatInv'
  <2>1. PICK x : x = [pc |-> "manual", p |-> p, a |-> a, code |-> code, override |-> o]
    OBVIOUS
  <2>2. /\ x.pc = "manual" /\ x.p = p /\ x.a = a
        /\ x \in [pc : {"manual", "insert"}, p : Profiles, a : Areas, code : ManualCodes,
                  override : BOOLEAN]
    BY <2>1
  <2>3. profiles[p].exists /\ areas[a].exists
    BY <1>2 DEF createManual, Create, GetProfile, GetArea
  <2>4. Shape(x) /\ RefsNow(x) /\ ~Locks(x)
    BY <2>2, <2>3 DEF Shape, RefsNow, Refs, Coding, Locks
  <2>5. /\ Begin(r, x)
        /\ UNCHANGED <<profiles, areas, versions, released, docs, counters, members, documents, legacy>>
    BY <1>2, <2>1 DEF createManual
  <2> QED
    BY <2>4, <2>5, FreshStep
<1> QED
  BY <1>1, <1>2 DEF createDoc

LEMMA DuplicateStep ==
  ASSUME CatInv, NEW r \in Requests, NEW i \in DOMAIN documents, duplicateDocument(r, i)
  PROVE  CatInv'
<1>1. PICK k : k = documents[i].cd
  OBVIOUS
<1>2. k \in DOMAIN docs
  BY <1>1 DEF CatInv, DocumentsOK, MadeOK
<1>3. docs[k].profile \in Profiles /\ docs[k].area \in Areas
  BY <1>2 DEF CatInv, DocsOK, DocOK, DocRow
<1>4. PICK p \in Profiles : p = docs[k].profile
  BY <1>3
<1>5. PICK a \in Areas : a = docs[k].area
  BY <1>3
<1>6. PICK cd : cd = DuplicateControlledDocument(documents[i].cd)
  OBVIOUS
<1>7. cd.profile = p /\ cd.area = a
  BY <1>1, <1>4, <1>5, <1>6 DEF DuplicateControlledDocument, GetByID
<1>8. /\ Create(p, a)
      /\ Begin(r, [pc |-> "begin", p |-> p, a |-> a, override |-> FALSE, then |-> "create"])
      /\ UNCHANGED <<profiles, areas, versions, released, docs, counters, members, documents, legacy>>
  BY <1>6, <1>7 DEF duplicateDocument
<1> QED
  BY <1>8, NumberingRequest

LEMMA RetireStep ==
  ASSUME CatInv, NEW r \in Requests, obsoleteDoc(r) \/ supersedeDoc(r)
  PROVE  CatInv'
<1>1. PICK i \in DOMAIN docs, next \in Statuses : changeStatus(r, i, next)
  BY DEF obsoleteDoc, supersedeDoc, Statuses
<1>2. PICK x : x = [pc |-> "status", cd |-> i, next |-> next]
  OBVIOUS
<1>3. i \in Nat
  BY <1>1 DEF CatInv, DocsOK
<1>4. x.pc = "status" /\ x.cd = i /\ x \in [pc : {"status"}, cd : Nat, next : Statuses]
  BY <1>2, <1>3
<1>5. Shape(x) /\ RefsNow(x) /\ ~Locks(x)
  BY <1>1, <1>4 DEF Shape, RefsNow, Refs, Coding, Locks
<1>6. /\ Begin(r, x)
      /\ UNCHANGED <<profiles, areas, versions, released, docs, counters, members, documents, legacy>>
  BY <1>1, <1>2 DEF changeStatus
<1> QED
  BY <1>5, <1>6, FreshStep

LEMMA NewDocumentStep ==
  ASSUME CatInv, NEW r \in Requests, NEW i \in DOMAIN docs, createDocument(r, i)
  PROVE  CatInv'
<1>1. PICK x : x = [pc |-> "create", cd |-> i]
  OBVIOUS
<1>2. i \in Nat
  BY DEF CatInv, DocsOK
<1>3. x.pc = "create" /\ x.cd = i /\ x \in [pc : {"create"}, cd : Nat]
  BY <1>1, <1>2
<1>4. Shape(x) /\ RefsNow(x) /\ ~Locks(x)
  BY <1>3 DEF Shape, RefsNow, Refs, Coding, Locks
<1>5. /\ Begin(r, x)
      /\ UNCHANGED <<profiles, areas, versions, released, docs, counters, members, documents, legacy>>
  BY <1>1 DEF createDocument
<1> QED
  BY <1>4, <1>5, FreshStep

LEMMA TaxRequestStep ==
  ASSUME CatInv, NEW r \in Requests, setDefaultTemplate(r) \/ archiveProfile(r) \/ archiveArea(r)
  PROVE  CatInv'
<1>1. ASSUME NEW p \in Profiles, NEW row \in RowOf(Versions),
             Begin(r, [pc |-> "profileRow", p |-> p, row |-> row]),
             UNCHANGED <<profiles, areas, versions, released, docs, counters, members, documents, legacy>>
      PROVE  CatInv'
  <2>1. PICK x : x = [pc |-> "profileRow", p |-> p, row |-> row]
    OBVIOUS
  <2>2. x.pc = "profileRow" /\ x \in [pc : {"profileRow"}, p : Profiles, row : RowOf(Versions)]
    BY <2>1
  <2>3. Shape(x) /\ RefsNow(x) /\ ~Locks(x)
    BY <2>2 DEF Shape, RefsNow, Refs, Coding, Locks
  <2> QED
    BY <1>1, <2>1, <2>3, FreshStep
<1>2. CASE setDefaultTemplate(r)
  <2>1. PICK p \in Profiles, v \in Versions : SetDefaultTemplate(r, p, v)
    BY <1>2 DEF setDefaultTemplate
  <2>2. Row(FALSE, v) \in RowOf(Versions)
    BY RowShape
  <2> QED
    BY <1>1, <2>1, <2>2 DEF SetDefaultTemplate
<1>3. CASE archiveProfile(r)
  <2>1. PICK p \in Profiles : ArchiveProfile(r, p)
    BY <1>3 DEF archiveProfile
  <2>2. profiles[p] \in RowOf(Versions)
    BY <2>1, RowsShape DEF ArchiveProfile, GetProfile, CatInv, TaxOK
  <2>3. profiles[p].ref \in Versions \cup {None}
    BY <2>2 DEF RowOf
  <2>4. Row(TRUE, profiles[p].ref) \in RowOf(Versions)
    BY <2>3, RowShape
  <2> QED
    BY <1>1, <2>1, <2>4 DEF ArchiveProfile
<1>4. CASE archiveArea(r)
  <2>1. PICK a \in Areas : ArchiveArea(r, a)
    BY <1>4 DEF archiveArea
  <2>2. areas[a] \in RowOf(Areas)
    BY <2>1, RowsShape DEF ArchiveArea, GetArea, CatInv, TaxOK
  <2>3. areas[a].ref \in Areas \cup {None}
    BY <2>2 DEF RowOf
  <2>4. PICK row : row = Row(TRUE, areas[a].ref)
    OBVIOUS
  <2>5. row \in RowOf(Areas)
    BY <2>3, <2>4, RowShape
  <2>6. PICK x : x = [pc |-> "areaRow", a |-> a, row |-> row]
    OBVIOUS
  <2>7. x.pc = "areaRow" /\ x \in [pc : {"areaRow"}, a : Areas, row : RowOf(Areas)]
    BY <2>5, <2>6
  <2>8. Shape(x) /\ RefsNow(x) /\ ~Locks(x)
    BY <2>7 DEF Shape, RefsNow, Refs, Coding, Locks
  <2>9. /\ Begin(r, x)
        /\ UNCHANGED <<profiles, areas, versions, released, docs, counters, members, documents, legacy>>
    BY <2>1, <2>4, <2>6 DEF ArchiveArea
  <2> QED
    BY <2>8, <2>9, FreshStep
<1> QED
  BY <1>2, <1>3, <1>4

LEMMA MembershipRequestStep ==
  ASSUME CatInv, NEW r \in Requests, grantMembership(r) \/ revokeMembership(r)
  PROVE  CatInv'
<1>1. CASE grantMembership(r)
  <2>1. PICK u \in Users, a \in Areas, role \in Roles : Grant(r, u, a, role)
    BY <1>1 DEF grantMembership
  <2>2. PICK e \in BOOLEAN : e = (ActiveRows(u, a) # {})
    OBVIOUS
  <2>3. PICK x : x = [pc |-> "grant", u |-> u, a |-> a, role |-> role, existing |-> e]
    OBVIOUS
  <2>4. x.pc = "grant" /\ x \in [pc : {"grant"}, u : Users, a : Areas, role : Roles,
                                 existing : BOOLEAN]
    BY <2>3
  <2>5. Shape(x) /\ RefsNow(x) /\ ~Locks(x)
    BY <2>4 DEF Shape, RefsNow, Refs, Coding, Locks
  <2>6. /\ Begin(r, x)
        /\ UNCHANGED <<profiles, areas, versions, released, docs, counters, members, documents, legacy>>
    BY <2>1, <2>2, <2>3 DEF Grant
  <2> QED
    BY <2>5, <2>6, FreshStep
<1>2. CASE revokeMembership(r)
  <2>1. PICK u \in Users, a \in Areas : Revoke(r, u, a)
    BY <1>2 DEF revokeMembership
  <2>2. PICK x : x = [pc |-> "revoke", u |-> u, a |-> a]
    OBVIOUS
  <2>3. x.pc = "revoke"
    BY <2>2
  <2>4. Shape(x) /\ RefsNow(x) /\ ~Locks(x)
    BY <2>3 DEF Shape, RefsNow, Refs, Coding, Locks
  <2>5. /\ Begin(r, x)
        /\ UNCHANGED <<profiles, areas, versions, released, docs, counters, members, documents, legacy>>
    BY <2>1, <2>2 DEF Revoke
  <2> QED
    BY <2>4, <2>5, FreshStep
<1> QED
  BY <1>1, <1>2

-----------------------------------------------------------------------------
(* The invariant and the theorems.                                         *)

LEMMA RequestStep ==
  ASSUME CatInv, NEW r \in Requests, Request(r)
  PROVE  CatInv'
BY CreateDocStep, RetireStep, TaxRequestStep, MembershipRequestStep, NewDocumentStep,
   DuplicateStep DEF Request

LEMMA StatementStep ==
  ASSUME CatInv, NEW r \in Requests, Step(r)
  PROVE  CatInv'
<1>1. CASE WriteProfile(r) \/ WriteArea(r) \/ WriteGrant(r) \/ WriteRevoke(r)
  BY <1>1, WriteRowStep, MemberWriteStep
<1>2. CASE CheckManualCode(r) \/ InsertManual(r) \/ BeginTx(r) \/ NextAndIncrement(r)
  BY <1>2, CheckManualCodeStep, InsertManualStep, BeginTxStep, NextAndIncrementStep
<1>3. CASE CheckAutoCode(r) \/ CommitAuto(r) \/ UpdateStatus(r)
  BY <1>3, CheckAutoCodeStep, CommitAutoStep, UpdateStatusStep
<1>4. CASE CreateDocument(r) \/ LookUpTemplate(r) \/ InsertDocument(r)
           \/ SetRevisionStorageKey(r) \/ SnapshotFromTemplate(r)
  BY <1>4, CreateDocumentStep, LookUpTemplateStep, InsertDocumentStep,
     SetRevisionStorageKeyStep, SnapshotStep
<1> QED
  BY <1>1, <1>2, <1>3, <1>4 DEF Step

LEMMA AbandonStep ==
  ASSUME CatInv, NEW r \in Requests, Abandon(r)
  PROVE  CatInv'
<1>1. /\ reqs' = [reqs EXCEPT ![r] = Idle]
      /\ UNCHANGED <<profiles, areas, versions, released, docs, counters, members, documents, legacy>>
  BY DEF Abandon, End, Go
<1> QED
  BY <1>1, EndStep

LEMMA CatStart ==
  ASSUME CatInit
  PROVE  CatInv
<1>1. TaxOK
  <2>1. None \in Versions \cup {None} /\ None \in Areas \cup {None} /\ FALSE \in BOOLEAN
    OBVIOUS
  <2>2. Row(FALSE, None) \in RowsOf(Versions) /\ Row(FALSE, None) \in RowsOf(Areas)
        /\ Absent \in RowsOf(Versions) /\ Absent \in RowsOf(Areas)
    <3>1. Row(FALSE, None) \in RowOf(Versions) /\ Row(FALSE, None) \in RowOf(Areas)
      BY <2>1, RowShape
    <3>2. Row(FALSE, None) \in RowsOf(Versions) /\ Row(FALSE, None) \in RowsOf(Areas)
      BY <3>1, RowsShape
    <3>3. Absent \in RowsOf(Versions) /\ Absent \in RowsOf(Areas)
      BY DEF RowsOf
    <3> QED
      BY <3>2, <3>3
  <2>3. Row(FALSE, None).ref = None /\ ~Absent.exists
    BY DEF Row, Absent
  <2>4. profiles \in [Profiles -> RowsOf(Versions)] /\ areas \in [Areas -> RowsOf(Areas)]
    BY <2>2 DEF CatInit
  <2>5. \A a \in Areas : areas[a].exists => ParentExists(a, areas[a])
    BY <2>3 DEF CatInit, ParentExists
  <2> QED
    BY <2>4, <2>5 DEF CatInit, TaxOK
<1>2. docs = <<>> /\ documents = <<>> /\ DOMAIN docs = {} /\ DOMAIN documents = {}
      /\ Len(docs) = 0
  BY DEF CatInit
<1>3. DocsOK /\ DocumentsOK
  BY <1>2, CatalogueAssumption DEF DocsOK, DocumentsOK, CodesOnce
<1>4. CountOK
  <2>1. \A p \in Profiles : ensureCounter(p) = 1
    BY DEF CatInit, ensureCounter
  <2>2. \A p \in Profiles : Given(docs, p) = {} /\ Seqs(docs, p) = {}
    BY <1>2 DEF Given, Seqs
  <2>3. Cardinality({}) = 0 /\ 1..(1 - 1) = {} /\ 1 - 1 = 0
    BY FS_EmptySet
  <2>4. counters \in [Profiles -> 0..(MaxDocs + 1)]
    BY CatalogueAssumption DEF CatInit
  <2>5. ASSUME NEW p \in Profiles
        PROVE  /\ Seqs(docs, p) = 1..(ensureCounter(p) - 1)
               /\ Cardinality(Given(docs, p)) = ensureCounter(p) - 1
    <3>1. ensureCounter(p) = 1 /\ Given(docs, p) = {} /\ Seqs(docs, p) = {}
      BY <2>1, <2>2
    <3>2. ensureCounter(p) - 1 = 0 /\ 1..0 = {}
      BY <3>1
    <3>3. Cardinality(Given(docs, p)) = 0
      BY <2>3, <3>1
    <3> QED
      BY <3>1, <3>2, <3>3
  <2> QED
    BY <2>4, <2>5 DEF CountOK
<1>5. MembersOK
  BY DEF CatInit, MembersOK
<1>6. LegacyOK
  BY <1>2, CatalogueAssumption DEF CatInit, LegacyOK, Filed
<1>7. ReqsOK /\ LockOK
  BY IdleFacts DEF CatInit, ReqsOK, LockOK, RefsNow
<1> QED
  BY <1>1, <1>3, <1>4, <1>5, <1>6, <1>7 DEF CatInv

LEMMA CatStep ==
  ASSUME CatInv, [CatNext]_vars
  PROVE  CatInv'
<1>1. CASE UNCHANGED vars
  <2>1. UNCHANGED <<profiles, areas, versions, released, docs, counters, members, documents, legacy, reqs>>
    BY <1>1 DEF vars
  <2>2. /\ TaxOK' /\ DocsOK' /\ CountOK' /\ MembersOK' /\ DocumentsOK' /\ LegacyOK'
        /\ Kept
    BY <2>1, TablesSame
  <2> QED
    BY <2>1, <2>2, EndsOrSame DEF CatInv
<1>2. ASSUME NEW r \in Requests, Step(r) \/ Abandon(r) \/ Request(r) PROVE CatInv'
  BY <1>2, StatementStep, AbandonStep, RequestStep
<1> QED
  BY <1>1, <1>2, RowRequestStep, VersionStep, BackfillStep, RestartStep,
     BackfillDocumentStep DEF CatNext

(* CatInv holds always: the tables, and what a request carries from one    *)
(* statement to the next.                                                  *)
THEOREM CatInvariance == CatSpec => []CatInv
BY CatStart, CatStep, PTL DEF CatSpec

(* Numbered: the numbers of a profile are 1, 2, 3, ... without a gap, each *)
(* given once, and no code is used twice, however requests race, are       *)
(* refused or abandoned (registry: repository.go, service.go).             *)
THEOREM NumbersGapless == CatSpec => []Numbered
<1>1. ASSUME CatInv PROVE Numbered
  <2>1. CatTypeOK
    <3>1. /\ profiles \in [Profiles -> RowsOf(Versions)] /\ areas \in [Areas -> RowsOf(Areas)]
          /\ versions \in [Versions -> {"draft", "published", "obsolete"}]
          /\ released \subseteq Versions
          /\ counters \in [Profiles -> 0..(MaxDocs + 1)]
          /\ \A a \in Areas : areas[a].exists => ParentExists(a, areas[a])
          /\ legacy \in [Legacy -> 0..MaxDocs]
      BY <1>1 DEF CatInv, TaxOK, CountOK, LegacyOK
    <3>2. \A i \in DOMAIN docs :
            /\ GetProfile(docs[i].profile) /\ GetArea(docs[i].area)
            /\ docs[i].status \in Statuses /\ docs[i].seq \in 0..MaxDocs
            /\ docs[i].code \in ManualCodes
      BY <1>1 DEF CatInv, DocsOK, DocOK, DocRow, GetProfile, GetArea
    <3>3. /\ \A m \in members : m.role \in Roles /\ GetArea(m.area)
          /\ \A m, n \in members :
               m.open /\ n.open /\ m.user = n.user /\ m.area = n.area => m = n
      BY <1>1 DEF CatInv, MembersOK, MemberRow, GetArea
    <3>4. \A i \in DOMAIN documents : documents[i].cd \in DOMAIN docs
      BY <1>1 DEF CatInv, DocumentsOK, MadeOK
    <3>5. \A r \in Requests : reqs[r].pc \in {"create", "resolved", "status"}
                              => reqs[r].cd \in DOMAIN docs
      BY <1>1 DEF CatInv, ReqsOK, RefsNow, Refs
    <3> QED
      BY <3>1, <3>2, <3>3, <3>4, <3>5 DEF CatTypeOK
  <2>2. \A p \in Profiles : /\ Seqs(docs, p) = 1..(ensureCounter(p) - 1)
                             /\ Cardinality(Given(docs, p)) = ensureCounter(p) - 1
    BY <1>1 DEF CatInv, CountOK
  <2>3. \A p \in Profiles :
          LET given == {i \in DOMAIN docs : docs[i].profile = p /\ docs[i].seq # 0}
          IN  /\ {docs[i].seq : i \in given} = 1..(ensureCounter(p) - 1)
              /\ Cardinality(given) = ensureCounter(p) - 1
    BY <2>2 DEF Seqs, Given
  <2>4. \A i, j \in DOMAIN docs :
          docs[i].profile = docs[j].profile /\ docs[i].code = docs[j].code => i = j
    BY <1>1 DEF CatInv, DocsOK, CodesOnce
  <2> QED
    BY <2>1, <2>3, <2>4 DEF Numbered
<1> QED
  BY <1>1, CatInvariance, PTL

(* FromPublished: no document is made from a version that was never        *)
(* published, although the default of a profile is not checked by the      *)
(* update of its row and a published version may be overwritten by a stale *)
(* row (templates_v2_reader.go, documents_v2: repository.go, templates_v2: *)
(* postgres.go).                                                           *)
THEOREM MadeFromPublished == CatSpec => []FromPublished
<1>1. CatInv => FromPublished
  BY DEF CatInv, DocumentsOK, MadeOK, FromPublished
<1> QED
  BY <1>1, CatInvariance, PTL

(* BackfillWhole: the migration leaves no row of its making unlinked; an   *)
(* old document hangs on the row with its code, and shares it with those   *)
(* of the same eight digits only, wherever the migration was stopped and   *)
(* however often it was run (registry: migration.go).                      *)
THEOREM BackfillLinksOnce == CatSpec => []BackfillWhole
<1>1. ASSUME CatInv PROVE BackfillWhole
  <2>1. \A l \in Legacy : legacy[l] # 0 =>
          /\ legacy[l] \in DOMAIN docs /\ docs[legacy[l]].profile = Unassigned
          /\ docs[legacy[l]].code = LegacyCode(l)
    BY <1>1 DEF CatInv, LegacyOK, Filed
  <2>2. \A i \in DOMAIN docs : docs[i].by = "backfill" => \E l \in Legacy : legacy[l] = i
    BY <1>1 DEF CatInv, LegacyOK
  <2>3. ASSUME NEW k \in Legacy, NEW l \in Legacy, legacy[k] # 0, legacy[l] # 0
        PROVE  legacy[k] = legacy[l] <=> Prefix[k] = Prefix[l]
    <3>1. CodesOnce(docs)
      BY <1>1 DEF CatInv, DocsOK
    <3> QED
      BY <2>1, <2>3, <3>1, MigCodes DEF CodesOnce
  <2> QED
    BY <2>1, <2>2, <2>3 DEF BackfillWhole
<1> QED
  BY <1>1, CatInvariance, PTL
=============================================================================
