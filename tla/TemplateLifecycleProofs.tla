------------------------ MODULE TemplateLifecycleProofs ------------------------
(***************************************************************************)
(* Theorems about one template and its versions, for any users, roles,     *)
(* configurations, finite schemas and number of concurrent requests and    *)
(* versions.  The search for cycles in a schema is shown to be right for   *)
(* every finite schema; the invariant then says of every row that a        *)
(* request has built, and has not written yet, what it says of the rows.   *)
(***************************************************************************)
EXTENDS TemplateLifecycle, FiniteSetTheorems, WellFoundedInduction, TLAPS

-----------------------------------------------------------------------------
(* The search for cycles.                                                  *)

(* C is closed along visibleIf and has no cycle.                           *)
Chain(s, C) ==
  /\ \A j \in C : s[j].visibleIf = "" \/ s[j].visibleIf \in C
  /\ \A X \in SUBSET C : X # {} => \E j \in X : s[j].visibleIf \notin X

(* The walk from i ends without meeting g.                                 *)
Ends(s, g, i) == \E C \in SUBSET (DOMAIN s \ g) : i \in C /\ Chain(s, C)

(* What can reach i within C.                                              *)
Before(s, C, i) ==
  {k \in C : \A Z \in SUBSET C :
     i \in Z /\ (\A m \in C : s[m].visibleIf \in Z => m \in Z) => k \in Z}

LEMMA BeforeClosed ==
  ASSUME NEW s, NEW C, NEW i \in C
  PROVE  /\ i \in Before(s, C, i) /\ Before(s, C, i) \subseteq C
         /\ \A m \in C : s[m].visibleIf \in Before(s, C, i) => m \in Before(s, C, i)
BY DEF Before

(* On a chain nothing after i reaches i.                                   *)
LEMMA AfterNotBefore ==
  ASSUME NEW s, NEW C, Chain(s, C), NEW i \in C
  PROVE  s[i].visibleIf \notin Before(s, C, i)
<1> SUFFICES ASSUME s[i].visibleIf \in Before(s, C, i) PROVE FALSE
  OBVIOUS
<1>1. PICK R : R = Before(s, C, i)
  OBVIOUS
<1>2. i \in R /\ R \in SUBSET C /\ \A m \in C : s[m].visibleIf \in R => m \in R
  BY <1>1, BeforeClosed
<1>3. PICK Z : Z = {m \in R : s[m].visibleIf \in R}
  OBVIOUS
<1>4. Z \in SUBSET C /\ i \in Z /\ \A m \in C : s[m].visibleIf \in Z => m \in Z
  BY <1>1, <1>2, <1>3
<1>5. R \subseteq Z
  BY <1>1, <1>4 DEF Before
<1>6. \A m \in R : s[m].visibleIf \in R
  BY <1>3, <1>5
<1> QED
  BY <1>2, <1>6 DEF Chain

LEMMA EndsStep ==
  ASSUME NEW s, "" \notin DOMAIN s, NEW g \in SUBSET DOMAIN s, NEW i \in DOMAIN s
  PROVE  Ends(s, g, i) <=>
           /\ i \notin g
           /\ s[i].visibleIf # "" =>
                s[i].visibleIf \in DOMAIN s /\ Ends(s, g \cup {i}, s[i].visibleIf)
<1>1. PICK j : j = s[i].visibleIf
  OBVIOUS
<1>2. ASSUME Ends(s, g, i)
      PROVE  i \notin g /\ (j # "" => j \in DOMAIN s /\ Ends(s, g \cup {i}, j))
  <2>1. PICK C \in SUBSET (DOMAIN s \ g) : i \in C /\ Chain(s, C)
    BY <1>2 DEF Ends
  <2>2. i \notin g
    BY <2>1
  <2>3. ASSUME j # "" PROVE j \in DOMAIN s /\ Ends(s, g \cup {i}, j)
    <3>1. PICK R : R = Before(s, C, i)
      OBVIOUS
    <3>2. /\ i \in R /\ R \subseteq C /\ j \notin R
          /\ \A m \in C : s[m].visibleIf \in R => m \in R
      BY <1>1, <2>1, <3>1, BeforeClosed, AfterNotBefore
    <3>3. j \in C
      BY <1>1, <2>1, <2>3 DEF Chain
    <3>4. PICK D : D = C \ R
      OBVIOUS
    <3>5. D \in SUBSET (DOMAIN s \ (g \cup {i})) /\ j \in D
      BY <2>1, <3>2, <3>3, <3>4
    <3>6. \A m \in D : s[m].visibleIf = "" \/ s[m].visibleIf \in D
      BY <2>1, <3>2, <3>4 DEF Chain
    <3>7. \A X \in SUBSET D : X # {} => \E m \in X : s[m].visibleIf \notin X
      BY <2>1, <3>4 DEF Chain
    <3> QED
      BY <2>1, <3>3, <3>5, <3>6, <3>7 DEF Ends, Chain
  <2> QED
    BY <2>2, <2>3
<1>3. ASSUME i \notin g, j # "" => j \in DOMAIN s /\ Ends(s, g \cup {i}, j)
      PROVE  Ends(s, g, i)
  <2>1. CASE j = ""
    <3>1. PICK C : C = {i}
      OBVIOUS
    <3>2. C \in SUBSET (DOMAIN s \ g) /\ i \in C
      BY <1>3, <3>1
    <3>3. \A m \in C : s[m].visibleIf = ""
      BY <1>1, <2>1, <3>1
    <3>4. \A X \in SUBSET C : X # {} => \E m \in X : s[m].visibleIf \notin X
      BY <3>2, <3>3
    <3> QED
      BY <3>2, <3>3, <3>4 DEF Ends, Chain
  <2>2. CASE j # ""
    <3>1. PICK D \in SUBSET (DOMAIN s \ (g \cup {i})) : j \in D /\ Chain(s, D)
      BY <1>3, <2>2 DEF Ends
    <3>2. PICK C : C = D \cup {i}
      OBVIOUS
    <3>3. C \in SUBSET (DOMAIN s \ g) /\ i \in C /\ i \notin D
      BY <1>3, <3>1, <3>2
    <3>4. \A m \in C : s[m].visibleIf = "" \/ s[m].visibleIf \in C
      BY <1>1, <3>1, <3>2 DEF Chain
    <3>5. ASSUME NEW X \in SUBSET C, X # {} PROVE \E m \in X : s[m].visibleIf \notin X
      <4>1. CASE X \cap D = {}
        <5>1. X = {i} /\ j # i
          BY <3>1, <3>2, <3>3, <3>5, <4>1
        <5> QED
          BY <1>1, <5>1
      <4>2. CASE X \cap D # {}
        <5>1. PICK m \in X \cap D : s[m].visibleIf \notin X \cap D
          BY <3>1, <4>2 DEF Chain
        <5>2. s[m].visibleIf = "" \/ s[m].visibleIf \in D
          BY <3>1, <5>1 DEF Chain
        <5>3. "" \notin X
          BY <3>3
        <5> QED
          BY <5>1, <5>2, <5>3
      <4> QED
        BY <4>1, <4>2
    <3> QED
      BY <3>3, <3>4, <3>5 DEF Ends, Chain
  <2> QED
    BY <2>1, <2>2
<1> QED
  BY <1>1, <1>2, <1>3

(* The recursive function of Visit solves its equation, as there is a      *)
(* function that does.                                                     *)
Steps(s, f) ==
  [gray \in SUBSET DOMAIN s |->
     {i \in DOMAIN s \ gray :
        s[i].visibleIf # "" => s[i].visibleIf \in f[gray \cup {i}]}]
Solves(s, f) == f = Steps(s, f)

LEMMA SolutionExists ==
  ASSUME NEW s, "" \notin DOMAIN s
  PROVE  \E f : Solves(s, f)
<1>1. PICK f : f = [g \in SUBSET DOMAIN s |-> {i \in DOMAIN s : Ends(s, g, i)}]
  OBVIOUS
<1>2. ASSUME NEW g \in SUBSET DOMAIN s
      PROVE  f[g] = {i \in DOMAIN s \ g :
                       s[i].visibleIf # "" => s[i].visibleIf \in f[g \cup {i}]}
  <2>1. \A i \in DOMAIN s : i \in f[g] <=> Ends(s, g, i)
    BY <1>1
  <2>2. \A i \in DOMAIN s : \A j : j \in f[g \cup {i}] <=> j \in DOMAIN s /\ Ends(s, g \cup {i}, j)
    BY <1>1
  <2>3. f[g] \subseteq DOMAIN s
    BY <1>1
  <2>4. ASSUME NEW i \in DOMAIN s
        PROVE  i \in f[g] <=> /\ i \notin g
                              /\ s[i].visibleIf # "" => s[i].visibleIf \in f[g \cup {i}]
    <3>1. PICK j : j = s[i].visibleIf
      OBVIOUS
    <3>2. Ends(s, g, i) <=> i \notin g /\ (j # "" => j \in DOMAIN s /\ Ends(s, g \cup {i}, j))
      BY <3>1, EndsStep
    <3>3. j \in f[g \cup {i}] <=> j \in DOMAIN s /\ Ends(s, g \cup {i}, j)
      BY <2>2
    <3> QED
      BY <2>1, <3>1, <3>2, <3>3
  <2>5. PICK S : S = {i \in DOMAIN s \ g :
                        s[i].visibleIf # "" => s[i].visibleIf \in f[g \cup {i}]}
    OBVIOUS
  <2>6. \A i : i \in S <=> i \in f[g]
    BY <2>3, <2>4, <2>5
  <2>7. S = f[g]
    BY <2>6
  <2> QED
    BY <2>5, <2>7
<1>3. Solves(s, f)
  BY <1>1, <1>2 DEF Solves, Steps
<1> QED
  BY <1>3

LEMMA VisitSolves ==
  ASSUME NEW s, "" \notin DOMAIN s
  PROVE  \E f : Solves(s, f) /\ \A i : Visit(s, i) <=> i \in f[{}]
<1>1. PICK f : f = CHOOSE h : Solves(s, h)
  OBVIOUS
<1>2. Solves(s, f)
  BY <1>1, SolutionExists, Zenon
<1>3. \A i : Visit(s, i) <=> i \in f[{}]
  BY <1>1 DEF Visit, Solves, Steps
<1> QED
  BY <1>2, <1>3

LEMMA Less ==
  ASSUME NEW m \in Nat, NEW n \in Nat
  PROVE  (m <= n => n - m \in Nat) /\ n - (m + 1) < n - m
OBVIOUS

(* A walk in a finite set that is never left cannot end: with every step   *)
(* the stack grows.                                                        *)
LEMMA NoEndlessWalk ==
  ASSUME NEW s, NEW f, Solves(s, f), NEW X \in SUBSET DOMAIN s, IsFiniteSet(X),
         "" \notin DOMAIN s, \A i \in X : s[i].visibleIf \in X
  PROVE  \A i \in X : i \notin f[{}]
<1> SUFFICES ASSUME NEW i0 \in X, i0 \in f[{}] PROVE FALSE
  OBVIOUS
<1>1. ASSUME NEW g \in SUBSET X, NEW i \in X, i \in f[g]
      PROVE  i \notin g /\ s[i].visibleIf \in f[g \cup {i}]
  <2>1. g \in SUBSET DOMAIN s
    OBVIOUS
  <2>2. f[g] = {k \in DOMAIN s \ g :
                  s[k].visibleIf # "" => s[k].visibleIf \in f[g \cup {k}]}
    BY <2>1 DEF Solves, Steps
  <2>3. s[i].visibleIf # ""
    OBVIOUS
  <2> QED
    BY <1>1, <2>2, <2>3
<1> DEFINE Left(g) == Cardinality(X) - Cardinality(g)
           T == {g \in SUBSET X : \E i \in X : i \in f[g]}
           U == {Left(g) : g \in T}
           R == {ss \in Nat \X Nat : ss[1] < ss[2]}
<1>2. \A g \in SUBSET X : Left(g) \in Nat
  <2> SUFFICES ASSUME NEW g \in SUBSET X PROVE Left(g) \in Nat
    OBVIOUS
  <2>1. IsFiniteSet(g) /\ Cardinality(g) <= Cardinality(X)
    BY FS_Subset
  <2>2. Cardinality(g) \in Nat /\ Cardinality(X) \in Nat
    BY <2>1, FS_CardinalityType
  <2> QED
    BY <2>1, <2>2, Less
<1>3. U \subseteq Nat /\ U # {}
  <2>1. {} \in T
    OBVIOUS
  <2> QED
    BY <1>2, <2>1
<1>4. PICK x \in U : \A y \in U : ~(<<y, x>> \in R)
  <2>1. IsWellFoundedOn(R, Nat)
    BY NatLessThanWellFounded, Zenon DEF OpToRel
  <2> HIDE DEF U, R
  <2> QED
    BY <1>3, <2>1, WFMin
<1>5. PICK g \in T : x = Left(g)
  BY <1>4
<1>6. PICK i \in X : i \in f[g]
  BY <1>5
<1>7. i \notin g /\ s[i].visibleIf \in f[g \cup {i}] /\ g \in SUBSET X
  BY <1>1, <1>5, <1>6
<1>8. PICK h : h = g \cup {i}
  OBVIOUS
<1>9. h \in SUBSET X /\ h \in T
  BY <1>6, <1>7, <1>8
<1>10. Left(h) \in U /\ Left(h) \in Nat /\ Left(g) \in Nat
  BY <1>2, <1>5, <1>7, <1>9
<1>11. Left(h) < Left(g)
  <2>1. IsFiniteSet(g)
    BY <1>7, FS_Subset
  <2>2. Cardinality(h) = Cardinality(g) + 1
    BY <1>7, <1>8, <2>1, FS_AddElement
  <2>3. Cardinality(g) \in Nat /\ Cardinality(X) \in Nat
    BY <2>1, FS_CardinalityType
  <2> QED
    BY <2>2, <2>3, Less
<1> QED
  <2> HIDE DEF Left, U, T
  <2> QED
    BY <1>4, <1>5, <1>10, <1>11

(* What is stored of a schema.                                             *)
Sound(s) ==
  /\ Acyclic(s)
  /\ \A i \in DOMAIN s : s[i].visibleIf \in DOMAIN s \cup {""}
  /\ \A i, j \in DOMAIN s : i # j /\ s[i].name # "" => s[i].name # s[j].name

(* ValidatePlaceholders is right for every finite schema: what it accepts  *)
(* has no cycle along visibleIf, no unknown id and no name twice           *)
(* (visibility_graph.go, schema.go).                                       *)
THEOREM ValidSchemasSound ==
  ASSUME NEW s, IsFiniteSet(DOMAIN s), ValidatePlaceholders(s)
  PROVE  Sound(s)
<1>1. "" \notin DOMAIN s /\ \A i \in DOMAIN s : Visit(s, i)
  BY DEF ValidatePlaceholders, DetectVisibilityCycle
<1>2. PICK f : Solves(s, f) /\ \A i \in DOMAIN s : i \in f[{}]
  BY <1>1, VisitSolves
<1>3. Acyclic(s)
  <2> SUFFICES ASSUME NEW X \in SUBSET DOMAIN s, X # {}, \A i \in X : s[i].visibleIf \in X
               PROVE  FALSE
    BY DEF Acyclic
  <2>1. IsFiniteSet(X)
    BY FS_Subset
  <2> QED
    BY <1>1, <1>2, <2>1, NoEndlessWalk
<1>4. ASSUME NEW i \in DOMAIN s PROVE s[i].visibleIf \in DOMAIN s \cup {""}
  <2>1. f[{}] = {k \in DOMAIN s \ {} :
                   s[k].visibleIf # "" => s[k].visibleIf \in f[{} \cup {k}]}
    BY <1>2 DEF Solves, Steps
  <2>2. f[{i}] \subseteq DOMAIN s
    BY <1>2 DEF Solves, Steps
  <2>3. {} \cup {i} = {i}
    OBVIOUS
  <2> QED
    BY <1>2, <2>1, <2>2, <2>3
<1>5. \A i, j \in DOMAIN s : i # j /\ s[i].name # "" => s[i].name # s[j].name
  BY DEF ValidatePlaceholders
<1> QED
  BY <1>3, <1>4, <1>5 DEF Sound

-----------------------------------------------------------------------------
(* The inductive invariant.                                                *)

TplRow == [latest : Numbers, published : Numbers \cup {0}, archived : BOOLEAN, by : Users]

(* What SignedOff says of one row.                                         *)
Signed(v) ==
  /\ v.status = "approved" => Reviewed(v)
  /\ v.status \in {"published", "obsolete"} =>
       /\ v.approver \in Users /\ v.appRole \in RolesOf[v.approver]
       /\ v.approver \notin {v.author, v.reviewer}
       /\ v.revRole # NoRole => Reviewed(v)

(* A row of a version, wherever it is: stored, or built and to be written. *)
RowOK(v) == v \in VersionRow /\ Signed(v) /\ Sound(v.schema)

Statement ==
  [do : {"new", "template"}, row : TplRow]
    \cup [do : {"insert", "version"}, n : Numbers, row : VersionRow]
    \cup [do : {"obsolete"}, n : Numbers]
    \cup [do : {"head"}, n : Numbers, expected : Contents]
    \cup [do : {"config"}, cfg : Configs]

(* The row of a template when the versions E exist: a template whose       *)
(* creation failed has latest_version 1 and no version.                    *)
TplOK(E, t) == t \in TplRow /\ (t.latest = 1 \/ t.latest \in E) /\ t.published \in E \cup {0}

(* Statement k of the list q may be done once those before it are: the     *)
(* version that a template row counts exists, or is inserted before.       *)
StmtOK(E, q, k) ==
  /\ q[k].do \in {"new", "template"} =>
       /\ q[k].row.published \in E \cup {0}
       /\ \/ q[k].row.latest = 1 \/ q[k].row.latest \in E
          \/ \E j \in 1..(k - 1) : q[j].do = "insert" /\ q[j].n = q[k].row.latest
  /\ q[k].do \in {"insert", "version"} => RowOK(q[k].row)
  /\ q[k].do = "insert" => 1..(q[k].n - 1) \subseteq E
  /\ q[k].do \in {"version", "head"} => q[k].n \in E
TodoOK(E, q) == q \in Seq(Statement) /\ Len(q) > 0 /\ \A k \in 1..Len(q) : StmtOK(E, q, k)

ReqOK(E, x) ==
  \/ x = Idle
  \/ \E t : x = [phase |-> "read", tpl |-> t] /\ TplOK(E, t)
  \/ \E q : x = [phase |-> "write", todo |-> q] /\ TodoOK(E, q)
ReqsOK == DOMAIN req = Requests /\ \A r \in Requests : ReqOK(Existing, req[r])

VersOK ==
  /\ DOMAIN ver = Numbers
  /\ \A n \in Existing : RowOK(ver[n]) /\ 1..n \subseteq Existing
RestOK ==
  /\ tpl # NoTemplate => TplOK(Existing, tpl)
  /\ config # NoConfig => config \in Configs
  /\ object \in [Numbers -> Contents \cup {NoHash}] /\ urls \subseteq Existing

TplInv == VersOK /\ RestOK /\ ReqsOK

-----------------------------------------------------------------------------
(* Lists of statements.                                                    *)

LEMMA Phases ==
  /\ Idle.phase = "idle"
  /\ \A t : [phase |-> "read", tpl |-> t].phase = "read"
  /\ \A q : [phase |-> "write", todo |-> q].phase = "write"
BY DEF Idle

(* A list stays good when versions are created.                            *)
LEMMA TodoKept ==
  ASSUME NEW E, NEW F, E \subseteq F, NEW q, TodoOK(E, q)
  PROVE  TodoOK(F, q)
BY DEF TodoOK, StmtOK

LEMMA ReqKept ==
  ASSUME NEW E, NEW F, E \subseteq F, NEW x, ReqOK(E, x)
  PROVE  ReqOK(F, x)
<1>1. CASE x = Idle
  BY <1>1 DEF ReqOK
<1>2. CASE \E t : x = [phase |-> "read", tpl |-> t] /\ TplOK(E, t)
  BY <1>2 DEF ReqOK, TplOK
<1>3. CASE \E q : x = [phase |-> "write", todo |-> q] /\ TodoOK(E, q)
  BY <1>3, TodoKept DEF ReqOK
<1> QED
  BY <1>1, <1>2, <1>3 DEF ReqOK

(* What is left of a list when its first statement is done.                *)
LEMMA TailOK ==
  ASSUME NEW E, NEW F, E \subseteq F, NEW q, TodoOK(E, q), Len(q) # 1,
         q[1].do = "insert" => q[1].n \in F
  PROVE  TodoOK(F, Tail(q))
<1>1. q \in Seq(Statement) /\ Len(q) \in Nat /\ Len(q) > 1
  <2>1. q \in Seq(Statement) /\ Len(q) > 0
    BY DEF TodoOK
  <2>2. PICK n \in Nat : n = Len(q)
    BY <2>1
  <2>3. n > 0 /\ n # 1
    BY <2>1, <2>2
  <2>4. n > 1
    BY <2>3
  <2> QED
    BY <2>1, <2>2, <2>4
<1>2. PICK p : p = Tail(q)
  OBVIOUS
<1>3. p \in Seq(Statement) /\ Len(p) = Len(q) - 1 /\ Len(p) > 0
      /\ \A k \in 1..Len(p) : p[k] = q[k + 1]
  BY <1>1, <1>2
<1>4. ASSUME NEW k \in 1..Len(p) PROVE StmtOK(F, p, k)
  <2>1. k + 1 \in 1..Len(q) /\ p[k] = q[k + 1] /\ k \in Nat
    BY <1>1, <1>3
  <2>2. StmtOK(E, q, k + 1)
    BY <2>1 DEF TodoOK
  <2>3. ASSUME NEW j \in 1..((k + 1) - 1), q[j].do = "insert", q[j].n = p[k].row.latest
        PROVE  \/ p[k].row.latest \in F
               \/ \E i \in 1..(k - 1) : p[i].do = "insert" /\ p[i].n = p[k].row.latest
    <3>1. CASE j = 1
      BY <2>3, <3>1
    <3>2. CASE j # 1
      <4>1. j - 1 \in 1..(k - 1) /\ j - 1 \in 1..Len(p) /\ (j - 1) + 1 = j
        BY <1>1, <1>3, <2>1, <2>3, <3>2
      <4>2. p[j - 1] = q[j]
        BY <1>3, <4>1
      <4> QED
        BY <2>3, <4>1, <4>2
    <3> QED
      BY <3>1, <3>2
  <2>4. p[k].do \in {"new", "template"} =>
          /\ p[k].row.published \in F \cup {0}
          /\ \/ p[k].row.latest = 1 \/ p[k].row.latest \in F
             \/ \E j \in 1..(k - 1) : p[j].do = "insert" /\ p[j].n = p[k].row.latest
    BY <2>1, <2>2, <2>3 DEF StmtOK
  <2>5. /\ p[k].do \in {"insert", "version"} => RowOK(p[k].row)
        /\ p[k].do = "insert" => 1..(p[k].n - 1) \subseteq F
        /\ p[k].do \in {"version", "head"} => p[k].n \in F
    BY <2>1, <2>2 DEF StmtOK
  <2> QED
    BY <2>4, <2>5 DEF StmtOK
<1> QED
  BY <1>2, <1>3, <1>4 DEF TodoOK

(* A request that is at a statement, and what is left for it.              *)
LEMMA AtStmt ==
  ASSUME ReqsOK, NEW r \in Requests, req[r].phase = "write"
  PROVE  /\ TodoOK(Existing, req[r].todo) /\ Stmt(r) = req[r].todo[1]
         /\ Stmt(r) \in Statement /\ StmtOK(Existing, req[r].todo, 1)
         /\ req[r] = [phase |-> "write", todo |-> req[r].todo]
<1>1. PICK q : req[r] = [phase |-> "write", todo |-> q] /\ TodoOK(Existing, q)
  BY Phases DEF ReqsOK, ReqOK
<1>2. req[r].todo = q
  BY <1>1
<1>3. q \in Seq(Statement) /\ Len(q) \in Nat /\ Len(q) > 0
  BY <1>1 DEF TodoOK
<1>4. Head(q) = q[1] /\ q[1] \in Statement /\ 1 \in 1..Len(q)
  BY <1>3
<1> QED
  BY <1>1, <1>2, <1>4 DEF Stmt, TodoOK

LEMMA DoneOK ==
  ASSUME ReqsOK, NEW r \in Requests, req[r].phase = "write", Done(r),
         Existing \subseteq Existing',
         Stmt(r).do = "insert" => Stmt(r).n \in Existing'
  PROVE  ReqsOK'
<1>1. PICK E : E = Existing
  OBVIOUS
<1>2. PICK F : F = Existing'
  OBVIOUS
<1>3. PICK q : q = req[r].todo
  OBVIOUS
<1>4. TodoOK(E, q) /\ Stmt(r) = q[1] /\ req[r] = [phase |-> "write", todo |-> q]
  BY <1>1, <1>3, AtStmt
<1>5. PICK y : y = Rest(r)
  OBVIOUS
<1>6. ReqOK(F, y)
  <2>1. CASE Len(q) = 1
    BY <1>3, <1>5, <2>1 DEF Rest, ReqOK
  <2>2. CASE Len(q) # 1
    <3>1. y = [phase |-> "write", todo |-> Tail(q)]
      BY <1>3, <1>4, <1>5, <2>2 DEF Rest
    <3>2. TodoOK(F, Tail(q))
      BY <1>1, <1>2, <1>4, <2>2, TailOK
    <3> QED
      BY <3>1, <3>2 DEF ReqOK
  <2> QED
    BY <2>1, <2>2
<1>7. req' = [req EXCEPT ![r] = y] /\ DOMAIN req = Requests
  BY <1>5 DEF Done, ReqsOK
<1>8. ASSUME NEW p \in Requests PROVE ReqOK(F, req'[p])
  <2>1. CASE p = r
    BY <1>6, <1>7, <2>1
  <2>2. CASE p # r
    <3>1. req'[p] = req[p] /\ ReqOK(E, req[p])
      BY <1>1, <1>7, <2>2 DEF ReqsOK
    <3> QED
      BY <1>1, <1>2, <3>1, ReqKept
  <2> QED
    BY <2>1, <2>2
<1> QED
  BY <1>2, <1>7, <1>8 DEF ReqsOK

(* A request that takes a step while versions stay.                        *)
LEMMA ReqSet ==
  ASSUME ReqsOK, NEW r \in Requests, UNCHANGED ver, NEW y, ReqOK(Existing, y),
         req' = [req EXCEPT ![r] = y]
  PROVE  ReqsOK'
<1>1. PICK E : E = Existing
  OBVIOUS
<1>2. Existing' = E
  BY <1>1 DEF Existing
<1>3. DOMAIN req' = Requests /\ \A p \in Requests : req'[p] = IF p = r THEN y ELSE req[p]
  BY DEF ReqsOK
<1>4. \A p \in Requests : ReqOK(E, req'[p])
  BY <1>1, <1>3 DEF ReqsOK
<1> QED
  BY <1>2, <1>3, <1>4 DEF ReqsOK

(* A step that touches nothing but a request.                              *)
LEMMA QuietStep ==
  ASSUME TplInv, UNCHANGED <<tpl, ver, config, object, urls>>, NEW r \in Requests,
         NEW y, ReqOK(Existing, y), req' = [req EXCEPT ![r] = y]
  PROVE  TplInv'
<1>1. ReqsOK'
  BY ReqSet DEF TplInv
<1>2. Existing' = Existing
  BY DEF Existing
<1>3. VersOK'
  BY <1>2 DEF TplInv, VersOK
<1>4. RestOK'
  BY <1>2 DEF TplInv, RestOK
<1> QED
  BY <1>1, <1>3, <1>4 DEF TplInv

LEMMA PlanStep ==
  ASSUME TplInv, NEW r \in Requests, NEW q, TodoOK(Existing, q), Plan(r, q)
  PROVE  TplInv'
<1>1. PICK y : y = [phase |-> "write", todo |-> q]
  OBVIOUS
<1>2. ReqOK(Existing, y)
  BY <1>1 DEF ReqOK
<1>3. UNCHANGED <<tpl, ver, config, object, urls>> /\ req' = [req EXCEPT ![r] = y]
  BY <1>1 DEF Plan
<1> QED
  BY <1>2, <1>3, QuietStep

-----------------------------------------------------------------------------
(* The rows that the operations build.                                     *)

LEMMA EmptySound == Sound(EmptySchema)
BY TemplateAssumption DEF Sound, Acyclic

LEMMA FreshRow ==
  ASSUME NEW a \in Users, NEW rr \in STRING \cup {NoRole}, NEW ar \in STRING \cup {""},
         NEW s \in Schemas, Sound(s)
  PROVE  RowOK(Version(a, rr, ar, s))
<1>1. PICK v : v = Version(a, rr, ar, s)
  OBVIOUS
<1>2. v \in VersionRow
  BY <1>1 DEF Version, VersionRow, Statuses
<1>3. v.status = "draft" /\ v.schema = s
  BY <1>1 DEF Version
<1> QED
  BY <1>1, <1>2, <1>3 DEF RowOK, Signed

LEMMA HashRow ==
  ASSUME NEW v, RowOK(v), NEW h \in Contents
  PROVE  RowOK([v EXCEPT !.hash = h])
<1>1. v \in VersionRow
  BY DEF RowOK
<1>2. PICK w : w = [v EXCEPT !.hash = h]
  OBVIOUS
<1>3. /\ w \in VersionRow /\ w.status = v.status /\ w.schema = v.schema
      /\ w.author = v.author /\ w.reviewer = v.reviewer /\ w.approver = v.approver
      /\ w.revRole = v.revRole /\ w.appRole = v.appRole
  BY <1>1, <1>2 DEF VersionRow
<1> QED
  BY <1>2, <1>3 DEF RowOK, Signed, Reviewed

LEMMA SchemaRow ==
  ASSUME NEW v, RowOK(v), v.status = "draft", NEW s \in Schemas, Sound(s)
  PROVE  RowOK([v EXCEPT !.schema = s])
<1>1. v \in VersionRow
  BY DEF RowOK
<1>2. PICK w : w = [v EXCEPT !.schema = s]
  OBVIOUS
<1>3. w \in VersionRow /\ w.status = "draft" /\ w.schema = s
  BY <1>1, <1>2 DEF VersionRow
<1> QED
  BY <1>2, <1>3 DEF RowOK, Signed

LEMMA SubmittedRow ==
  ASSUME NEW v, RowOK(v), NEW rr \in STRING \cup {NoRole}, NEW ar \in STRING \cup {""}
  PROVE  RowOK([v EXCEPT !.status = "in_review", !.revRole = rr, !.appRole = ar])
<1>1. v \in VersionRow
  BY DEF RowOK
<1>2. PICK w : w = [v EXCEPT !.status = "in_review", !.revRole = rr, !.appRole = ar]
  OBVIOUS
<1>3. w \in VersionRow /\ w.status = "in_review" /\ w.schema = v.schema
  BY <1>1, <1>2 DEF VersionRow, Statuses
<1> QED
  BY <1>2, <1>3 DEF RowOK, Signed

(* A version sent back keeps who reviewed it, but is a draft.              *)
LEMMA RefusedRow ==
  ASSUME NEW v, RowOK(v), NEW w,
         w = [v EXCEPT !.status = "draft"] \/ w = [v EXCEPT !.status = "draft", !.reviewer = @]
  PROVE  RowOK(w)
<1>1. v \in VersionRow
  BY DEF RowOK
<1>2. w \in VersionRow /\ w.status = "draft" /\ w.schema = v.schema
  BY <1>1 DEF VersionRow, Statuses
<1> QED
  BY <1>2 DEF RowOK, Signed

LEMMA ReviewedRow ==
  ASSUME NEW v, RowOK(v), NEW a \in Users, v.revRole # NoRole, v.revRole \in RolesOf[a],
         a # v.author
  PROVE  RowOK([v EXCEPT !.status = "approved", !.reviewer = a])
<1>1. v \in VersionRow
  BY DEF RowOK
<1>2. PICK w : w = [v EXCEPT !.status = "approved", !.reviewer = a]
  OBVIOUS
<1>3. /\ w \in VersionRow /\ w.status = "approved" /\ w.schema = v.schema
      /\ w.author = v.author /\ w.reviewer = a /\ w.revRole = v.revRole
  BY <1>1, <1>2 DEF VersionRow, Statuses
<1> QED
  BY <1>2, <1>3 DEF RowOK, Signed, Reviewed

LEMMA PublishedRow ==
  ASSUME NEW v, RowOK(v), MayApprove(v), NEW a \in Users, v.appRole \in RolesOf[a],
         CheckSegregation(a, v.author, v.reviewer)
  PROVE  RowOK([v EXCEPT !.status = "published", !.approver = a])
<1>1. v \in VersionRow
  BY DEF RowOK
<1>2. PICK w : w = [v EXCEPT !.status = "published", !.approver = a]
  OBVIOUS
<1>3. /\ w \in VersionRow /\ w.status = "published" /\ w.schema = v.schema
      /\ w.author = v.author /\ w.reviewer = v.reviewer /\ w.approver = a
      /\ w.revRole = v.revRole /\ w.appRole = v.appRole
  BY <1>1, <1>2 DEF VersionRow, Statuses
<1>4. a \notin {v.author, v.reviewer}
  BY TemplateAssumption DEF CheckSegregation
<1>5. v.revRole # NoRole => Reviewed(v)
  BY DEF MayApprove, RowOK, Signed
<1> QED
  BY <1>2, <1>3, <1>4, <1>5 DEF RowOK, Signed, Reviewed

LEMMA ObsoleteRow ==
  ASSUME NEW v, RowOK(v), v.status = "published"
  PROVE  RowOK([v EXCEPT !.status = "obsolete"])
<1>1. v \in VersionRow
  BY DEF RowOK
<1>2. PICK w : w = [v EXCEPT !.status = "obsolete"]
  OBVIOUS
<1>3. /\ w \in VersionRow /\ w.status = "obsolete" /\ w.schema = v.schema
      /\ w.author = v.author /\ w.reviewer = v.reviewer /\ w.approver = v.approver
      /\ w.revRole = v.revRole /\ w.appRole = v.appRole
  BY <1>1, <1>2 DEF VersionRow, Statuses
<1> QED
  BY <1>2, <1>3 DEF RowOK, Signed, Reviewed

(* No row is the marker for "none".                                        *)
LEMMA NotNone ==
  /\ \A v \in VersionRow : v # NoVersion
  /\ \A t \in TplRow : t # NoTemplate
<1>1. ASSUME NEW v \in VersionRow PROVE v # NoVersion
  <2>1. "status" \in DOMAIN v
    BY DEF VersionRow
  <2>2. DOMAIN NoVersion = {"none"}
    BY DEF NoVersion
  <2> QED
    BY <2>1, <2>2
<1>2. ASSUME NEW t \in TplRow PROVE t # NoTemplate
  <2>1. "latest" \in DOMAIN t
    BY DEF TplRow
  <2>2. DOMAIN NoTemplate = {"none"}
    BY DEF NoTemplate
  <2> QED
    BY <2>1, <2>2
<1> QED
  BY <1>1, <1>2

-----------------------------------------------------------------------------
(* The operations, which plan statements.                                  *)

(* What a request has read.                                                *)
LEMMA ReadOK ==
  ASSUME TplInv, NEW r \in Requests, Read(r)
  PROVE  TplOK(Existing, req[r].tpl)
<1>1. PICK t : req[r] = [phase |-> "read", tpl |-> t] /\ TplOK(Existing, t)
  BY Phases DEF TplInv, ReqsOK, ReqOK, Read
<1> QED
  BY <1>1

LEMMA VersionRead ==
  ASSUME TplInv, NEW n \in Numbers, ver[n] # NoVersion
  PROVE  n \in Existing /\ RowOK(ver[n]) /\ ver[n] \in VersionRow
BY DEF TplInv, VersOK, Existing, RowOK

(* A list of one statement.                                                *)
LEMMA OneStmt ==
  ASSUME NEW E, NEW x \in Statement,
         x.do \notin {"insert", "new"},
         x.do = "template" => x.row.published \in E \cup {0}
                              /\ (x.row.latest = 1 \/ x.row.latest \in E),
         x.do = "version" => RowOK(x.row),
         x.do \in {"version", "head"} => x.n \in E
  PROVE  TodoOK(E, <<x>>)
<1>1. PICK q : q = <<x>>
  OBVIOUS
<1>2. q \in Seq(Statement) /\ Len(q) = 1 /\ q[1] = x
  BY <1>1
<1>3. StmtOK(E, q, 1)
  BY <1>2 DEF StmtOK
<1>4. \A k \in 1..Len(q) : k = 1
  BY <1>2
<1> QED
  BY <1>1, <1>2, <1>3, <1>4 DEF TodoOK

LEMMA SetVersionStep ==
  ASSUME TplInv, NEW r \in Requests, NEW n \in Existing, NEW row, RowOK(row),
         Plan(r, <<SetVersion(n, row)>>)
  PROVE  TplInv'
<1>1. PICK x : x = SetVersion(n, row)
  OBVIOUS
<1>2. x.do = "version" /\ x.n = n /\ x.row = row /\ x \in Statement
  BY <1>1 DEF SetVersion, Statement, RowOK, Existing
<1>3. TodoOK(Existing, <<x>>)
  BY <1>2, OneStmt
<1> QED
  BY <1>1, <1>3, PlanStep

LEMMA CommitAutosaveStep ==
  ASSUME TplInv, NEW r \in Requests, NEW n \in Numbers, NEW c \in Contents,
         CommitAutosave(r, n, c)
  PROVE  TplInv'
<1>1. PICK row : row = [ver[n] EXCEPT !.hash = c]
  OBVIOUS
<1>2. n \in Existing /\ RowOK(row) /\ row \in VersionRow
  BY <1>1, VersionRead, HashRow DEF CommitAutosave, GetVersion, RowOK
<1>3. PICK x : x = [do |-> "head", n |-> n, expected |-> c]
  OBVIOUS
<1>4. PICK y : y = SetVersion(n, row)
  OBVIOUS
<1>5. x.do = "head" /\ x.n = n /\ x \in Statement
  BY <1>3 DEF Statement
<1>6. y.do = "version" /\ y.n = n /\ y.row = row /\ y \in Statement
  BY <1>2, <1>4 DEF Statement, SetVersion
<1>7. PICK q : q = <<x, y>>
  OBVIOUS
<1>8. q \in Seq(Statement) /\ Len(q) = 2 /\ q[1] = x /\ q[2] = y
  BY <1>5, <1>6, <1>7
<1>9. StmtOK(Existing, q, 1) /\ StmtOK(Existing, q, 2)
  BY <1>2, <1>5, <1>6, <1>8 DEF StmtOK
<1>10. \A k \in 1..Len(q) : k = 1 \/ k = 2
  BY <1>8
<1>11. TodoOK(Existing, q)
  BY <1>8, <1>9, <1>10 DEF TodoOK
<1>12. Plan(r, q)
  BY <1>1, <1>3, <1>4, <1>7 DEF CommitAutosave
<1> QED
  BY <1>11, <1>12, PlanStep

LEMMA UpdateSchemasStep ==
  ASSUME TplInv, NEW r \in Requests, NEW n \in Numbers, NEW s \in Schemas, NEW c,
         UpdateSchemas(r, n, s, c)
  PROVE  TplInv'
<1>1. PICK row : row = [ver[n] EXCEPT !.schema = s]
  OBVIOUS
<1>2. Sound(s)
  BY ValidSchemasSound, TemplateAssumption DEF UpdateSchemas
<1>3. n \in Existing /\ RowOK(row)
  BY <1>1, <1>2, VersionRead, SchemaRow DEF UpdateSchemas, GetVersion
<1>4. Plan(r, <<SetVersion(n, row)>>)
  BY <1>1 DEF UpdateSchemas
<1> QED
  BY <1>3, <1>4, SetVersionStep

LEMMA SubmitStep ==
  ASSUME TplInv, NEW r \in Requests, NEW n \in Numbers, SubmitForReview(r, n)
  PROVE  TplInv'
<1>1. config.rev \in STRING \cup {NoRole} /\ config.app \in STRING
  BY TemplateAssumption DEF SubmitForReview, TplInv, RestOK
<1>2. PICK rr \in STRING \cup {NoRole} : rr = config.rev
  BY <1>1
<1>3. PICK ar \in STRING \cup {""} : ar = config.app
  BY <1>1
<1>4. PICK row : row = [ver[n] EXCEPT !.status = "in_review", !.revRole = rr, !.appRole = ar]
  OBVIOUS
<1>5. n \in Existing /\ RowOK(row)
  BY <1>4, VersionRead, SubmittedRow DEF SubmitForReview, GetVersion
<1>6. Plan(r, <<SetVersion(n, row)>>)
  BY <1>2, <1>3, <1>4 DEF SubmitForReview
<1> QED
  BY <1>5, <1>6, SetVersionStep

LEMMA ReviewStep ==
  ASSUME TplInv, NEW r \in Requests, NEW n \in Numbers, NEW a \in Users,
         NEW accept \in BOOLEAN, Review(r, n, a, accept)
  PROVE  TplInv'
<1>1. PICK v : v = ver[n]
  OBVIOUS
<1>2. n \in Existing /\ RowOK(v)
  BY <1>1, VersionRead DEF Review, GetVersion
<1>3. v.revRole # NoRole /\ v.revRole \in RolesOf[a] /\ a # v.author
  BY <1>1 DEF Review, ContainsRole, CheckSegregation
<1>4. CASE accept
  <2>1. PICK row : row = [v EXCEPT !.status = "approved", !.reviewer = a]
    OBVIOUS
  <2>2. RowOK(row)
    BY <1>2, <1>3, <2>1, ReviewedRow
  <2>3. Plan(r, <<SetVersion(n, row)>>)
    BY <1>1, <1>4, <2>1 DEF Review
  <2> QED
    BY <1>2, <2>2, <2>3, SetVersionStep
<1>5. CASE ~accept
  <2>1. PICK row : row = [v EXCEPT !.status = "draft", !.reviewer = @]
    OBVIOUS
  <2>2. RowOK(row)
    BY <1>2, <2>1, RefusedRow
  <2>3. Plan(r, <<SetVersion(n, row)>>)
    BY <1>1, <1>5, <2>1 DEF Review
  <2> QED
    BY <1>2, <2>2, <2>3, SetVersionStep
<1> QED
  BY <1>4, <1>5

(* The statements that publish: the previous version becomes obsolete, the *)
(* template names the version, and the version is published last.          *)
LEMMA ApproveStep ==
  ASSUME TplInv, NEW r \in Requests, NEW n \in Numbers, NEW a \in Users,
         NEW accept \in BOOLEAN, Approve(r, n, a, accept)
  PROVE  TplInv'
<1>1. PICK v : v = ver[n]
  OBVIOUS
<1>2. n \in Existing /\ RowOK(v) /\ Read(r)
  BY <1>1, VersionRead DEF Approve, GetVersion
<1>3. /\ MayApprove(v) /\ v.appRole \in RolesOf[a]
      /\ CheckSegregation(a, v.author, v.reviewer)
  BY <1>1 DEF Approve, ContainsRole
<1>4. CASE accept
  <2>1. PICK row : row = [v EXCEPT !.status = "published", !.approver = a]
    OBVIOUS
  <2>2. RowOK(row) /\ row \in VersionRow
    BY <1>2, <1>3, <2>1, PublishedRow DEF RowOK
  <2>3. PICK t : t = req[r].tpl
    OBVIOUS
  <2>4. TplOK(Existing, t)
    BY <1>2, <2>3, ReadOK
  <2>5. PICK u : u = [t EXCEPT !.published = n]
    OBVIOUS
  <2>6. u \in TplRow /\ u.published = n /\ u.latest = t.latest
    BY <2>4, <2>5 DEF TplOK, TplRow
  <2>7. PICK x : x = [do |-> "obsolete", n |-> n]
    OBVIOUS
  <2>8. PICK y : y = SetTemplate(u)
    OBVIOUS
  <2>9. PICK z : z = SetVersion(n, row)
    OBVIOUS
  <2>10. x.do = "obsolete" /\ x \in Statement
    BY <2>7 DEF Statement
  <2>11. y.do = "template" /\ y.row = u /\ y \in Statement
    BY <2>6, <2>8 DEF Statement, SetTemplate
  <2>12. z.do = "version" /\ z.n = n /\ z.row = row /\ z \in Statement
    BY <2>2, <2>9 DEF Statement, SetVersion
  <2>13. PICK q : q = <<x, y, z>>
    OBVIOUS
  <2>14. q \in Seq(Statement) /\ Len(q) = 3 /\ q[1] = x /\ q[2] = y /\ q[3] = z
    BY <2>10, <2>11, <2>12, <2>13
  <2>15. StmtOK(Existing, q, 1)
    BY <2>10, <2>14 DEF StmtOK
  <2>16. StmtOK(Existing, q, 2)
    BY <1>2, <2>4, <2>6, <2>11, <2>14 DEF StmtOK, TplOK
  <2>17. StmtOK(Existing, q, 3)
    BY <1>2, <2>2, <2>12, <2>14 DEF StmtOK
  <2>18. \A k \in 1..Len(q) : k = 1 \/ k = 2 \/ k = 3
    BY <2>14
  <2>19. TodoOK(Existing, q)
    BY <2>14, <2>15, <2>16, <2>17, <2>18 DEF TodoOK
  <2>20. Plan(r, q)
    BY <1>1, <1>4, <2>1, <2>3, <2>5, <2>7, <2>8, <2>9, <2>13 DEF Approve
  <2> QED
    BY <2>19, <2>20, PlanStep
<1>5. CASE ~accept
  <2>1. PICK row : row = [v EXCEPT !.status = "draft"]
    OBVIOUS
  <2>2. RowOK(row)
    BY <1>2, <2>1, RefusedRow
  <2>3. Plan(r, <<SetVersion(n, row)>>)
    BY <1>1, <1>5, <2>1 DEF Approve
  <2> QED
    BY <1>2, <2>2, <2>3, SetVersionStep
<1> QED
  BY <1>4, <1>5

(* A failure that leaves the rest undone: the request is over.             *)
LEMMA IdleStep ==
  ASSUME TplInv, NEW r \in Requests, UNCHANGED <<tpl, ver, config, object, urls>>,
         req' = [req EXCEPT ![r] = Idle]
  PROVE  TplInv'
<1>1. ReqOK(Existing, Idle)
  BY DEF ReqOK
<1> QED
  BY <1>1, QuietStep

LEMMA BeginStep ==
  ASSUME TplInv, NEW r \in Requests, Begin(r)
  PROVE  TplInv'
<1>1. PICK t : t = tpl
  OBVIOUS
<1>2. TplOK(Existing, t)
  BY <1>1 DEF Begin, TplInv, RestOK
<1>3. PICK y : y = [phase |-> "read", tpl |-> t]
  OBVIOUS
<1>4. ReqOK(Existing, y)
  BY <1>2, <1>3 DEF ReqOK
<1>5. UNCHANGED <<tpl, ver, config, object, urls>> /\ req' = [req EXCEPT ![r] = y]
  BY <1>1, <1>3 DEF Begin
<1> QED
  BY <1>4, <1>5, QuietStep

LEMMA CreateTemplateStep ==
  ASSUME TplInv, NEW r \in Requests, NEW a \in Writers, NEW cfg \in Configs,
         CreateTemplate(r, a, cfg)
  PROVE  TplInv'
<1>1. a \in Users /\ cfg.rev \in STRING \cup {NoRole} /\ cfg.app \in STRING
      /\ EmptySchema \in Schemas /\ 1 \in Numbers
  BY TemplateAssumption DEF Numbers
<1>2. PICK row : row = Version(a, cfg.rev, cfg.app, EmptySchema)
  OBVIOUS
<1>3. RowOK(row) /\ row \in VersionRow
  BY <1>1, <1>2, EmptySound, FreshRow DEF RowOK
<1>4. PICK u : u = [latest |-> 1, published |-> 0, archived |-> FALSE, by |-> a]
  OBVIOUS
<1>5. u \in TplRow /\ u.latest = 1 /\ u.published = 0
  BY <1>1, <1>4 DEF TplRow
<1>6. PICK x : x = [do |-> "new", row |-> u]
  OBVIOUS
<1>7. PICK y : y = [do |-> "insert", n |-> 1, row |-> row]
  OBVIOUS
<1>8. PICK z : z = [do |-> "config", cfg |-> cfg]
  OBVIOUS
<1>9. x.do = "new" /\ x.row = u /\ x \in Statement
  BY <1>5, <1>6 DEF Statement
<1>10. y.do = "insert" /\ y.n = 1 /\ y.row = row /\ y \in Statement
  BY <1>1, <1>3, <1>7 DEF Statement
<1>11. z.do = "config" /\ z \in Statement
  BY <1>8 DEF Statement
<1>12. PICK q : q = <<x, y, z>>
  OBVIOUS
<1>13. q \in Seq(Statement) /\ Len(q) = 3 /\ q[1] = x /\ q[2] = y /\ q[3] = z
  BY <1>9, <1>10, <1>11, <1>12
<1>14. StmtOK(Existing, q, 1)
  BY <1>5, <1>9, <1>13 DEF StmtOK
<1>15. StmtOK(Existing, q, 2)
  BY <1>3, <1>10, <1>13 DEF StmtOK
<1>16. StmtOK(Existing, q, 3)
  BY <1>11, <1>13 DEF StmtOK
<1>17. \A k \in 1..Len(q) : k = 1 \/ k = 2 \/ k = 3
  BY <1>13
<1>18. TodoOK(Existing, q)
  BY <1>13, <1>14, <1>15, <1>16, <1>17 DEF TodoOK
<1>19. PICK w : w = [phase |-> "write", todo |-> q]
  OBVIOUS
<1>20. ReqOK(Existing, w)
  BY <1>18, <1>19 DEF ReqOK
<1>21. UNCHANGED <<tpl, ver, config, object, urls>> /\ req' = [req EXCEPT ![r] = w]
  BY <1>2, <1>4, <1>6, <1>7, <1>8, <1>12, <1>19 DEF CreateTemplate
<1> QED
  BY <1>20, <1>21, QuietStep

(* The next version is inserted before latest_version counts it, and only  *)
(* when the versions up to the latest exist.                               *)
LEMMA CreateNextVersionStep ==
  ASSUME TplInv, NEW r \in Requests, NEW a \in Writers, CreateNextVersion(r, a)
  PROVE  TplInv'
<1>1. PICK t : t = req[r].tpl
  OBVIOUS
<1>2. PICK from : from = IF t.published # 0 THEN t.published ELSE t.latest
  OBVIOUS
<1>3. PICK n : n = t.latest + 1
  OBVIOUS
<1>4. Read(r) /\ n \in Numbers /\ from \in Existing
  BY <1>1, <1>2, <1>3 DEF CreateNextVersion
<1>5. TplOK(Existing, t)
  BY <1>1, <1>4, ReadOK
<1>6. t \in TplRow /\ t.latest \in Nat /\ n - 1 = t.latest
  BY <1>3, <1>5 DEF TplOK, TplRow, Numbers
<1>7. 1 \in Existing
  <2>1. from \in Nat /\ from >= 1
    BY <1>4 DEF Existing, Numbers
  <2>2. 1 \in 1..from
    BY <2>1
  <2> QED
    BY <1>4, <2>2 DEF TplInv, VersOK
<1>8. 1..(n - 1) \subseteq Existing
  BY <1>5, <1>6, <1>7 DEF TplOK, TplInv, VersOK
<1>9. PICK s : s = ver[from].schema
  OBVIOUS
<1>10. s \in Schemas /\ Sound(s) /\ a \in Users
  BY <1>4, <1>9, TemplateAssumption DEF TplInv, VersOK, RowOK, VersionRow
<1>11. PICK row : row = Version(a, NoRole, "", s)
  OBVIOUS
<1>12. RowOK(row) /\ row \in VersionRow
  <2>1. NoRole \in STRING \cup {NoRole}
    OBVIOUS
  <2>2. "" \in STRING \cup {""}
    OBVIOUS
  <2>3. RowOK(Version(a, NoRole, "", s))
    BY <1>10, <2>1, <2>2, FreshRow
  <2> QED
    BY <1>11, <2>3 DEF RowOK
<1>13. PICK u : u = [t EXCEPT !.latest = n]
  OBVIOUS
<1>14. u \in TplRow /\ u.latest = n /\ u.published = t.published
  BY <1>4, <1>6, <1>13 DEF TplRow
<1>15. PICK x : x = [do |-> "insert", n |-> n, row |-> row]
  OBVIOUS
<1>16. PICK y : y = SetTemplate(u)
  OBVIOUS
<1>17. x.do = "insert" /\ x.n = n /\ x.row = row /\ x \in Statement
  BY <1>4, <1>12, <1>15 DEF Statement
<1>18. y.do = "template" /\ y.row = u /\ y \in Statement
  BY <1>14, <1>16 DEF Statement, SetTemplate
<1>19. PICK q : q = <<x, y>>
  OBVIOUS
<1>20. q \in Seq(Statement) /\ Len(q) = 2 /\ q[1] = x /\ q[2] = y
  BY <1>17, <1>18, <1>19
<1>21. StmtOK(Existing, q, 1)
  BY <1>8, <1>12, <1>17, <1>20 DEF StmtOK
<1>22. 1 \in 1..(2 - 1) /\ q[1].do = "insert" /\ q[1].n = q[2].row.latest
  BY <1>14, <1>17, <1>18, <1>20
<1>23. StmtOK(Existing, q, 2)
  BY <1>5, <1>14, <1>18, <1>20, <1>22 DEF StmtOK, TplOK
<1>24. \A k \in 1..Len(q) : k = 1 \/ k = 2
  BY <1>20
<1>25. TodoOK(Existing, q)
  BY <1>20, <1>21, <1>23, <1>24 DEF TodoOK
<1>26. Plan(r, q)
  BY <1>1, <1>2, <1>3, <1>9, <1>11, <1>13, <1>15, <1>16, <1>19 DEF CreateNextVersion
<1> QED
  BY <1>25, <1>26, PlanStep

LEMMA PresignStep ==
  ASSUME TplInv, NEW r \in Requests, NEW n \in Numbers, PresignAutosave(r, n)
  PROVE  TplInv'
<1>1. Existing' = Existing /\ n \in Existing
  BY DEF Existing, PresignAutosave, GetVersion
<1>2. ReqOK(Existing, Idle)
  BY DEF ReqOK
<1>3. UNCHANGED ver /\ req' = [req EXCEPT ![r] = Idle]
  BY DEF PresignAutosave
<1>4. ReqsOK'
  BY <1>2, <1>3, ReqSet DEF TplInv
<1>5. VersOK'
  BY <1>1, <1>3 DEF TplInv, VersOK
<1>6. RestOK'
  BY <1>1 DEF TplInv, RestOK, PresignAutosave
<1> QED
  BY <1>4, <1>5, <1>6 DEF TplInv

LEMMA ArchiveStep ==
  ASSUME TplInv, NEW r \in Requests, ArchiveTemplate(r)
  PROVE  TplInv'
<1>1. PICK t : t = req[r].tpl
  OBVIOUS
<1>2. TplOK(Existing, t)
  BY <1>1, ReadOK DEF ArchiveTemplate
<1>3. PICK u : u = [t EXCEPT !.archived = TRUE]
  OBVIOUS
<1>4. u \in TplRow /\ u.latest = t.latest /\ u.published = t.published
  BY <1>2, <1>3 DEF TplOK, TplRow
<1>5. PICK x : x = SetTemplate(u)
  OBVIOUS
<1>6. x.do = "template" /\ x.row = u /\ x \in Statement
  BY <1>4, <1>5 DEF Statement, SetTemplate
<1>7. TodoOK(Existing, <<x>>)
  BY <1>2, <1>4, <1>6, OneStmt DEF TplOK
<1>8. Plan(r, <<x>>)
  BY <1>1, <1>3, <1>5 DEF ArchiveTemplate
<1> QED
  BY <1>7, <1>8, PlanStep

LEMMA UpsertApprovalConfigStep ==
  ASSUME TplInv, NEW r \in Requests, NEW a, NEW cfg \in Configs,
         UpsertApprovalConfig(r, a, cfg)
  PROVE  TplInv'
<1>1. PICK x : x = [do |-> "config", cfg |-> cfg]
  OBVIOUS
<1>2. x.do = "config" /\ x \in Statement
  BY <1>1 DEF Statement
<1>3. TodoOK(Existing, <<x>>)
  BY <1>2, OneStmt
<1>4. Plan(r, <<x>>)
  BY <1>1 DEF UpsertApprovalConfig
<1> QED
  BY <1>3, <1>4, PlanStep

-----------------------------------------------------------------------------
(* The statements.                                                         *)

(* What a statement carries.                                               *)
LEMMA Carries ==
  ASSUME NEW x \in Statement
  PROVE  /\ x.do \in {"new", "template"} => x.row \in TplRow
         /\ x.do \in {"insert", "version"} => x.n \in Numbers
         /\ x.do = "config" => x.cfg \in Configs
         /\ x.do = "head" => x.n \in Numbers /\ x.expected \in Contents
BY DEF Statement

(* A template row is written when the version it counts is there, although *)
(* the row may be an old one.                                              *)
LEMMA TemplateStmtStep ==
  ASSUME TplInv, NEW r \in Requests, At(r, "new") \/ At(r, "template"),
         tpl' = Stmt(r).row, Done(r), UNCHANGED <<ver, config, object, urls>>
  PROVE  TplInv'
<1>1. PICK x : x = Stmt(r)
  OBVIOUS
<1>2. req[r].phase = "write" /\ x.do \in {"new", "template"} /\ x.do # "insert"
  BY <1>1 DEF At, Stmt
<1>3. PICK q : q = req[r].todo
  OBVIOUS
<1>4. x = q[1] /\ x \in Statement /\ StmtOK(Existing, q, 1)
  BY <1>1, <1>2, <1>3, AtStmt DEF TplInv
<1>5. Existing' = Existing
  BY DEF Existing
<1>6. ReqsOK'
  BY <1>1, <1>2, <1>5, DoneOK DEF TplInv
<1>7. TplOK(Existing, x.row)
  <2>1. ~\E j \in 1..(1 - 1) : TRUE
    OBVIOUS
  <2>2. x.row \in TplRow
    BY <1>2, <1>4, Carries
  <2> QED
    BY <1>2, <1>4, <2>1, <2>2 DEF StmtOK, TplOK
<1>8. VersOK'
  BY <1>5 DEF TplInv, VersOK
<1>9. RestOK'
  BY <1>1, <1>5, <1>7 DEF TplInv, RestOK
<1> QED
  BY <1>6, <1>8, <1>9 DEF TplInv

LEMMA CreateVersionStep ==
  ASSUME TplInv, NEW r \in Requests, CreateVersion(r)
  PROVE  TplInv'
<1>1. PICK x : x = Stmt(r)
  OBVIOUS
<1>2. req[r].phase = "write" /\ x.do = "insert"
  BY <1>1 DEF CreateVersion, At, Stmt
<1>3. PICK q : q = req[r].todo
  OBVIOUS
<1>4. x = q[1] /\ x \in Statement /\ StmtOK(Existing, q, 1)
  BY <1>1, <1>2, <1>3, AtStmt DEF TplInv
<1>5. PICK n : n = x.n
  OBVIOUS
<1>6. PICK row : row = x.row
  OBVIOUS
<1>7. n \in Numbers /\ RowOK(row) /\ 1..(n - 1) \subseteq Existing
  BY <1>2, <1>4, <1>5, <1>6, Carries DEF StmtOK
<1>8. ver' = [ver EXCEPT ![n] = row] /\ DOMAIN ver = Numbers /\ row # NoVersion
  BY <1>1, <1>5, <1>6, <1>7, NotNone DEF CreateVersion, TplInv, VersOK, RowOK
<1>9. Existing' = Existing \cup {n}
  BY <1>7, <1>8 DEF Existing
<1>10. ReqsOK'
  <2>1. Existing \subseteq Existing' /\ (Stmt(r).do = "insert" => Stmt(r).n \in Existing')
    BY <1>1, <1>5, <1>9
  <2>2. Done(r) /\ ReqsOK
    BY DEF CreateVersion, TplInv
  <2> QED
    BY <1>2, <2>1, <2>2, DoneOK
<1>11. VersOK'
  <2>1. 1..n \subseteq Existing \cup {n}
    <3>1. \A k \in 1..n : k = n \/ k \in 1..(n - 1)
      BY <1>7 DEF Numbers
    <3> QED
      BY <1>7, <3>1
  <2>2. ASSUME NEW m \in Existing \cup {n}
        PROVE  RowOK(ver'[m]) /\ 1..m \subseteq Existing \cup {n}
    <3>1. CASE m = n
      BY <1>7, <1>8, <2>1, <3>1
    <3>2. CASE m # n
      BY <1>8, <3>2 DEF TplInv, VersOK
    <3> QED
      BY <3>1, <3>2
  <2>3. DOMAIN ver' = Numbers
    BY <1>8
  <2> QED
    BY <1>9, <2>2, <2>3 DEF VersOK
<1>12. RestOK'
  BY <1>9 DEF TplInv, RestOK, CreateVersion, TplOK
<1> QED
  BY <1>10, <1>11, <1>12 DEF TplInv

LEMMA UpdateVersionStep ==
  ASSUME TplInv, NEW r \in Requests, UpdateVersion(r)
  PROVE  TplInv'
<1>1. PICK x : x = Stmt(r)
  OBVIOUS
<1>2. req[r].phase = "write" /\ x.do = "version" /\ x.do # "insert"
  BY <1>1 DEF UpdateVersion, At, Stmt
<1>3. PICK q : q = req[r].todo
  OBVIOUS
<1>4. x = q[1] /\ x \in Statement /\ StmtOK(Existing, q, 1)
  BY <1>1, <1>2, <1>3, AtStmt DEF TplInv
<1>5. PICK n : n = x.n
  OBVIOUS
<1>6. PICK row : row = x.row
  OBVIOUS
<1>7. n \in Existing /\ RowOK(row)
  BY <1>2, <1>4, <1>5, <1>6 DEF StmtOK
<1>8. ver' = [ver EXCEPT ![n] = row] /\ DOMAIN ver = Numbers /\ row # NoVersion
  BY <1>1, <1>5, <1>6, <1>7, NotNone DEF UpdateVersion, TplInv, VersOK, RowOK
<1>9. Existing' = Existing
  BY <1>7, <1>8 DEF Existing
<1>10. ReqsOK'
  BY <1>1, <1>2, <1>9, DoneOK DEF UpdateVersion, TplInv
<1>11. VersOK'
  <2>1. ASSUME NEW m \in Existing PROVE RowOK(ver'[m]) /\ 1..m \subseteq Existing
    <3>1. CASE m = n
      BY <1>7, <1>8, <3>1 DEF TplInv, VersOK, Existing
    <3>2. CASE m # n
      BY <1>8, <3>2 DEF TplInv, VersOK
    <3> QED
      BY <3>1, <3>2
  <2>2. DOMAIN ver' = Numbers
    BY <1>8
  <2> QED
    BY <1>9, <2>1, <2>2 DEF VersOK
<1>12. RestOK'
  BY <1>9 DEF TplInv, RestOK, UpdateVersion
<1> QED
  BY <1>10, <1>11, <1>12 DEF TplInv

LEMMA ObsoleteStep ==
  ASSUME TplInv, NEW r \in Requests, ObsoletePreviousPublished(r)
  PROVE  TplInv'
<1>1. PICK k : k = Stmt(r).n
  OBVIOUS
<1>2. req[r].phase = "write" /\ Stmt(r).do # "insert"
  BY DEF ObsoletePreviousPublished, At, Stmt
<1>3. /\ DOMAIN ver' = Numbers
      /\ \A n \in Numbers :
           ver'[n] = IF n \in Existing /\ n # k /\ ver[n].status = "published"
                     THEN [ver[n] EXCEPT !.status = "obsolete"] ELSE ver[n]
  BY <1>1 DEF ObsoletePreviousPublished
<1>4. ASSUME NEW n \in Existing PROVE RowOK(ver'[n])
  <2>1. RowOK(ver[n]) /\ n \in Numbers
    BY DEF TplInv, VersOK, Existing
  <2>2. CASE n # k /\ ver[n].status = "published"
    <3>1. ver'[n] = [ver[n] EXCEPT !.status = "obsolete"]
      BY <1>3, <2>1, <2>2
    <3> QED
      BY <2>1, <2>2, <3>1, ObsoleteRow
  <2>3. CASE ~(n # k /\ ver[n].status = "published")
    BY <1>3, <2>1, <2>3
  <2> QED
    BY <2>2, <2>3
<1>5. \A n \in Numbers : n \notin Existing => ver'[n] = NoVersion
  BY <1>3 DEF Existing
<1>6. \A n \in Existing : ver'[n] # NoVersion
  BY <1>4, NotNone DEF RowOK
<1>7. Existing' = Existing
  BY <1>5, <1>6 DEF Existing
<1>8. ReqsOK'
  BY <1>2, <1>7, DoneOK DEF ObsoletePreviousPublished, TplInv
<1>9. VersOK'
  BY <1>3, <1>4, <1>7 DEF TplInv, VersOK
<1>10. RestOK'
  BY <1>7 DEF TplInv, RestOK, ObsoletePreviousPublished
<1> QED
  BY <1>8, <1>9, <1>10 DEF TplInv

LEMMA SaveApprovalConfigStep ==
  ASSUME TplInv, NEW r \in Requests, SaveApprovalConfig(r)
  PROVE  TplInv'
<1>1. PICK x : x = Stmt(r)
  OBVIOUS
<1>2. req[r].phase = "write" /\ x.do = "config" /\ x.do # "insert"
  BY <1>1 DEF SaveApprovalConfig, At, Stmt
<1>3. x.cfg \in Configs
  BY <1>1, <1>2, AtStmt, Carries DEF TplInv
<1>4. Existing' = Existing
  BY DEF Existing, SaveApprovalConfig
<1>5. ReqsOK'
  BY <1>1, <1>2, <1>4, DoneOK DEF SaveApprovalConfig, TplInv
<1>6. VersOK'
  BY <1>4 DEF TplInv, VersOK, SaveApprovalConfig
<1>7. RestOK'
  BY <1>1, <1>3, <1>4 DEF TplInv, RestOK, SaveApprovalConfig
<1> QED
  BY <1>5, <1>6, <1>7 DEF TplInv

LEMMA HeadContentHashStep ==
  ASSUME TplInv, NEW r \in Requests, HeadContentHash(r)
  PROVE  TplInv'
<1>1. req[r].phase = "write" /\ Stmt(r).do # "insert"
  BY DEF HeadContentHash, At, Stmt
<1>2. Existing' = Existing /\ UNCHANGED <<tpl, ver, config, urls>>
  BY DEF Existing, HeadContentHash
<1>3. ReqsOK'
  <2>1. CASE Done(r)
    BY <1>1, <1>2, <2>1, DoneOK DEF TplInv
  <2>2. CASE req' = [req EXCEPT ![r] = Idle]
    <3>1. ReqOK(Existing, Idle)
      BY DEF ReqOK
    <3> QED
      BY <1>2, <2>2, <3>1, ReqSet DEF TplInv
  <2> QED
    BY <2>1, <2>2 DEF HeadContentHash
<1>4. object' \in [Numbers -> Contents \cup {NoHash}]
  BY DEF HeadContentHash, TplInv, RestOK
<1>5. VersOK'
  BY <1>2 DEF TplInv, VersOK
<1>6. RestOK'
  BY <1>2, <1>4 DEF TplInv, RestOK
<1> QED
  BY <1>3, <1>5, <1>6 DEF TplInv

(* What the client's storage does.                                         *)
LEMMA StorageStep ==
  ASSUME TplInv, NEW n \in Numbers, ExpireURL(n) \/ \E c \in Contents : Upload(n, c)
  PROVE  TplInv'
<1>1. UNCHANGED <<tpl, ver, config, req>> /\ Existing' = Existing
  BY DEF ExpireURL, Upload, Existing
<1>2. object' \in [Numbers -> Contents \cup {NoHash}] /\ urls' \subseteq Existing
  BY DEF ExpireURL, Upload, TplInv, RestOK
<1>3. VersOK'
  BY <1>1 DEF TplInv, VersOK
<1>4. RestOK'
  BY <1>1, <1>2 DEF TplInv, RestOK
<1>5. ReqsOK'
  BY <1>1 DEF TplInv, ReqsOK
<1> QED
  BY <1>3, <1>4, <1>5 DEF TplInv

-----------------------------------------------------------------------------
(* The invariant and the theorems.                                         *)

LEMMA RoutesStep ==
  ASSUME TplInv, NEW r \in Requests, Routes(r)
  PROVE  TplInv'
<1>1. CASE PostArchive(r)
  BY <1>1, ArchiveStep DEF PostArchive
<1>2. ASSUME NEW n \in Numbers,
             PostPresign(r, n) \/ PostCommit(r, n) \/ PutSchema(r, n) \/ PostSubmit(r, n)
      PROVE  TplInv'
  <2>1. CASE PostPresign(r, n)
    BY <2>1, PresignStep DEF PostPresign
  <2>2. CASE PostCommit(r, n)
    BY <2>2, CommitAutosaveStep DEF PostCommit
  <2>3. CASE PutSchema(r, n)
    BY <2>3, UpdateSchemasStep DEF PutSchema
  <2>4. CASE PostSubmit(r, n)
    BY <2>4, SubmitStep DEF PostSubmit
  <2> QED
    BY <1>2, <2>1, <2>2, <2>3, <2>4
<1>3. ASSUME NEW a \in Writers, PostTemplate(r, a) \/ PostVersion(r, a)
      PROVE  TplInv'
  BY <1>3, CreateTemplateStep, CreateNextVersionStep DEF PostTemplate, PostVersion
<1>4. ASSUME NEW a \in Users, PutApprovalConfig(r, a)
      PROVE  TplInv'
  BY <1>4, UpsertApprovalConfigStep DEF PutApprovalConfig
<1>5. ASSUME NEW a \in Users, NEW n \in Numbers, PostReview(r, n, a) \/ PostApprove(r, n, a)
      PROVE  TplInv'
  BY <1>5, ReviewStep, ApproveStep DEF PostReview, PostApprove
<1> QED
  BY <1>1, <1>2, <1>3, <1>4, <1>5 DEF Routes

LEMMA StatementsStep ==
  ASSUME TplInv, NEW r \in Requests, Statements(r)
  PROVE  TplInv'
<1>1. CASE InsertTemplate(r)
  BY <1>1, TemplateStmtStep DEF InsertTemplate
<1>2. CASE UpdateTemplate(r)
  BY <1>2, TemplateStmtStep DEF UpdateTemplate
<1>3. CASE CreateVersion(r)
  BY <1>3, CreateVersionStep
<1>4. CASE UpdateVersion(r)
  BY <1>4, UpdateVersionStep
<1>5. CASE ObsoletePreviousPublished(r)
  BY <1>5, ObsoleteStep
<1>6. CASE SaveApprovalConfig(r)
  BY <1>6, SaveApprovalConfigStep
<1>7. CASE HeadContentHash(r)
  BY <1>7, HeadContentHashStep
<1> QED
  BY <1>1, <1>2, <1>3, <1>4, <1>5, <1>6, <1>7 DEF Statements

LEMMA TplStart ==
  ASSUME TplInit
  PROVE  TplInv
<1>1. Existing = {}
  BY DEF TplInit, Existing
<1>2. VersOK /\ RestOK
  BY <1>1 DEF TplInit, VersOK, RestOK
<1>3. ReqsOK
  BY DEF TplInit, ReqsOK, ReqOK
<1> QED
  BY <1>2, <1>3 DEF TplInv

LEMMA TplStep ==
  ASSUME TplInv, [TplNext]_tvars
  PROVE  TplInv'
<1>1. ASSUME NEW r \in Requests, Begin(r) \/ Fail(r) PROVE TplInv'
  BY <1>1, BeginStep, IdleStep DEF Fail
<1>2. ASSUME NEW r \in Requests, Routes(r) \/ Statements(r) PROVE TplInv'
  BY <1>2, RoutesStep, StatementsStep
<1>3. ASSUME NEW n \in Numbers, ExpireURL(n) \/ \E c \in Contents : Upload(n, c)
      PROVE  TplInv'
  BY <1>3, StorageStep
<1>4. CASE UNCHANGED tvars
  BY <1>4 DEF tvars, TplInv, VersOK, RestOK, ReqsOK, Existing
<1> QED
  BY <1>1, <1>2, <1>3, <1>4 DEF TplNext

(* TplInv holds always: of what is stored and of what is yet to be         *)
(* written, whichever requests came between and whichever failed.          *)
THEOREM TplInvariance == TplSpec => []TplInv
BY TplStart, TplStep, PTL DEF TplSpec

(* SignedOff: no interleaving of requests that write stale rows publishes  *)
(* a version that its author, or its reviewer, approved, or whose approver *)
(* or reviewer lacks the role (lifecycle.go).                              *)
THEOREM PublishedSignedOff == TplSpec => []SignedOff
<1>1. TplInv => SignedOff
  BY DEF TplInv, VersOK, RowOK, Signed, SignedOff
<1> QED
  BY <1>1, TplInvariance, PTL

(* SchemasSound: no stored schema has a cycle, an unknown id or a name     *)
(* twice, for finite schemas of any size (schema.go, visibility_graph.go). *)
THEOREM StoredSchemasSound == TplSpec => []SchemasSound
<1>1. TplInv => SchemasSound
  BY DEF TplInv, VersOK, RowOK, Sound, SchemasSound
<1> QED
  BY <1>1, TplInvariance, PTL

(* Contiguous: version numbers have no holes, and latest_version and       *)
(* published_version name versions that exist (create.go, lifecycle.go).   *)
THEOREM VersionsContiguous == TplSpec => []Contiguous
<1>1. ASSUME TplInv PROVE Contiguous
  <2>1. TplTypeOK
    <3>1. tpl # NoTemplate => tpl \in [latest : Numbers, published : Numbers \cup {0},
                                       archived : BOOLEAN, by : Users]
      BY <1>1 DEF TplInv, RestOK, TplOK, TplRow
    <3>2. \A n \in Existing : ver[n] \in VersionRow
      BY <1>1 DEF TplInv, VersOK, RowOK
    <3>3. \A r \in Requests : req[r].phase \in {"idle", "read", "write"}
      BY <1>1, Phases DEF TplInv, ReqsOK, ReqOK
    <3> QED
      BY <1>1, <3>1, <3>2, <3>3 DEF TplInv, RestOK, TplTypeOK
  <2>2. \A n \in Existing : 1..n \subseteq Existing
    BY <1>1 DEF TplInv, VersOK
  <2>3. ASSUME tpl # NoTemplate, Existing # {} PROVE tpl.latest \in Existing
    <3>1. PICK n \in Existing : TRUE
      BY <2>3
    <3>2. 1 \in 1..n
      BY <3>1 DEF Existing, Numbers
    <3> QED
      BY <1>1, <2>2, <2>3, <3>1, <3>2 DEF TplInv, RestOK, TplOK
  <2>4. tpl # NoTemplate => tpl.published \in Existing \cup {0}
    BY <1>1 DEF TplInv, RestOK, TplOK
  <2> QED
    BY <2>1, <2>2, <2>3, <2>4 DEF Contiguous
<1> QED
  BY <1>1, TplInvariance, PTL
=============================================================================
