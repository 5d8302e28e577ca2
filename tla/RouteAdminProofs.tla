--------------------------- MODULE RouteAdminProofs ---------------------------
(***************************************************************************)
(* Proofs about RouteAdmin, for any routes, stage lists, administrators    *)
(* and submissions and any bound on versions.                              *)
(***************************************************************************)
EXTENDS RouteAdmin, TLAPS, SequenceTheorems

-----------------------------------------------------------------------------
(* The records the state is made of.                                         *)

(* A row of approval_routes is told from the absence of one by its version. *)
LEMMA RowFields ==
  /\ NoRoute.version = 0
  /\ \A x \in Row : /\ x # NoRoute /\ x.profile \in Profiles
                    /\ x.version \in 1..MaxVersion
BY RouteAssumption DEF NoRoute, Row

LEMMA RowVersion ==
  ASSUME NEW x \in Row, NEW v \in 1..MaxVersion
  PROVE  LET y == [x EXCEPT !.version = v]
         IN y \in Row /\ y.version = v /\ y.profile = x.profile
BY DEF Row

LEMMA RowInactive ==
  ASSUME NEW x \in Row
  PROVE  LET y == [x EXCEPT !.active = FALSE]
         IN y \in Row /\ y.version = x.version /\ y.profile = x.profile
BY DEF Row

(* mapStageRequests loses nothing of a stage list. *)
LEMMA SameList ==
  ASSUME NEW l \in Lists
  PROVE  mapStageRequests(l) = l
<1>1. l \in Seq(StageRequest)
  BY RouteAssumption
<1>2. \A k \in 1..Len(l) : l[k] \in StageRequest
  BY <1>1
<1>3. \A k \in 1..Len(l) : l[k] = [order |-> l[k].order, name |-> l[k].name,
                                   quorum |-> l[k].quorum, m |-> l[k].m]
  BY <1>2 DEF StageRequest
<1>4. mapStageRequests(l) = [k \in 1..Len(l) |-> l[k]]
  BY <1>3 DEF mapStageRequests
<1>5. l = [k \in 1..Len(l) |-> l[k]]
  BY <1>1
<1> QED BY <1>4, <1>5

-----------------------------------------------------------------------------
(* The inductive invariant.                                                  *)

Ended == [phase |-> "ended"]
OpenAdmin == [phase : {"locked", "written"}, op : {"update", "deactivate"},
              route : RouteIds, list : Lists \cup {<<>>}]
ReadRoute == [phase : {"route"}, route : RouteIds, version : 1..MaxVersion]
ReadStages == [phase : {"stages", "inserted"}, route : RouteIds,
               version : 1..MaxVersion, stages : Lists]

Exists(r) == route[r] # NoRoute
Holds(t) == adm[t].phase \in {"locked", "written"}

(* l is the stage list of version v of the route or of a later one. *)
From(r, v, l) == \E w \in v..Len(history[r]) : history[r][w] = l

(* The routes: a version per committed list, the current list the last one,  *)
(* one route per profile.                                                    *)
RoutesOK ==
  /\ route \in [RouteIds -> Row \cup {NoRoute}]
  /\ stages \in [RouteIds -> Lists \cup {<<>>}]
  /\ history \in [RouteIds -> Seq(Lists)]
  /\ \A r \in RouteIds : Len(history[r]) = route[r].version
  /\ \A r \in RouteIds : Exists(r) => stages[r] = history[r][route[r].version]
  /\ \A r, q \in RouteIds :
       r # q /\ Exists(r) /\ Exists(q) => route[r].profile # route[q].profile

(* The administrators' transactions and the row locks. *)
AdminOK ==
  /\ adm \in [Txs -> {Idle, Ended} \cup OpenAdmin]
  /\ lock \in [RouteIds -> Txs \cup {NoTx}]
  /\ \A r \in RouteIds, t \in Txs : lock[r] = t <=> Holds(t) /\ adm[t].route = r
  /\ \A t \in Txs : Holds(t) /\ adm[t].op = "update" => adm[t].list \in Lists

(* While an administrator holds a row no submission holds it FOR KEY SHARE, *)
(* and once the trigger has let the UPDATE through no instance references   *)
(* the route, until the commit.                                             *)
LockOK ==
  /\ \A t \in Txs : Holds(t) => Exists(adm[t].route) /\ Sharing(adm[t].route) = {}
  /\ \A t \in Txs : adm[t].phase = "written" =>
       /\ ~InUse(adm[t].route)
       /\ adm[t].op = "update" => route[adm[t].route].version < MaxVersion

(* What a submission has read: a version of an existing route, and a list of *)
(* that version or a later one.                                              *)
SubStates == {Idle, Ended} \cup ReadRoute \cup ReadStages

ReadOK(x) ==
  /\ x.phase \in {"route", "stages", "inserted"} =>
       Exists(x.route) /\ x.version <= route[x.route].version
  /\ x.phase \in {"stages", "inserted"} => From(x.route, x.version, x.stages)

SubsOK == sub \in [Subs -> SubStates] /\ \A s \in Subs : ReadOK(sub[s])

InstsOK ==
  /\ insts \subseteq Snapshot
  /\ \A i \in insts : From(i.route, i.version, i.stages)

ListOK ==
  /\ list.phase \in {"idle", "rows", "done"}
  /\ list.phase \in {"rows", "done"} => \A r \in DOMAIN list.rows :
       r \in RouteIds /\ Exists(r) /\ list.rows[r] \in 1..route[r].version
  /\ list.phase = "done" => \A r \in DOMAIN list.rows :
       From(r, list.rows[r], list.stages[r])

RouteInv == RoutesOK /\ AdminOK /\ LockOK /\ SubsOK /\ InstsOK /\ ListOK

(* What RouteFrozen says of a step. *)
FrozenStep ==
  \A r \in RouteIds : InUse(r) => route'[r] = route[r] /\ stages'[r] = stages[r]

GoodStep == RouteInv' /\ FrozenStep

-----------------------------------------------------------------------------
(* Facts about the invariant.                                                *)

LEMMA RouteFacts ==
  ASSUME RoutesOK, NEW r \in RouteIds
  PROVE  /\ Exists(r) <=> route[r] \in Row
         /\ Exists(r) <=> route[r].version \in 1..MaxVersion
         /\ route[r].version \in Nat
         /\ ~Exists(r) => route[r].version = 0
         /\ history[r] \in Seq(Lists) /\ Len(history[r]) = route[r].version
BY RowFields, RouteAssumption DEF RoutesOK, Exists

LEMMA AdminFacts ==
  ASSUME AdminOK, NEW t \in Txs, Holds(t)
  PROVE  adm[t] \in OpenAdmin /\ adm[t].route \in RouteIds
<1>1. adm[t] \in {Idle, Ended} \cup OpenAdmin
  BY DEF AdminOK
<1>2. Idle.phase = "idle" /\ Ended.phase = "ended"
  BY DEF Idle, Ended
<1> QED BY <1>1, <1>2 DEF Holds, OpenAdmin

LEMMA SubFacts ==
  ASSUME NEW x \in SubStates
  PROVE  /\ x.phase \in {"route", "stages", "inserted"} =>
              x.route \in RouteIds /\ x.version \in 1..MaxVersion /\ x.version \in Nat \ {0}
         /\ x.phase = "route" => x \in ReadRoute
         /\ x.phase \in {"stages", "inserted"} => x \in ReadStages /\ x.stages \in Lists
<1>1. x \in {Idle, Ended} \cup ReadRoute \cup ReadStages
  BY DEF SubStates
<1>2. Idle.phase = "idle" /\ Ended.phase = "ended"
  BY DEF Idle, Ended
<1>3. CASE x \in {Idle, Ended}
  BY <1>2, <1>3
<1>4. CASE x \in ReadRoute
  BY <1>4, RouteAssumption DEF ReadRoute
<1>5. CASE x \in ReadStages
  BY <1>5, RouteAssumption DEF ReadStages
<1> QED BY <1>1, <1>3, <1>4, <1>5

(* The row lock is exclusive. *)
LEMMA OneHolder ==
  ASSUME AdminOK, NEW t \in Txs, NEW q \in Txs, Holds(t), Holds(q), adm[t].route = adm[q].route
  PROVE  t = q
BY AdminFacts DEF AdminOK

LEMMA InstFacts ==
  ASSUME RoutesOK, InstsOK, NEW i \in insts
  PROVE  i.route \in RouteIds /\ i.version \in 1..MaxVersion /\ i.stages \in Lists /\ Exists(i.route)
<1>1. i.route \in RouteIds /\ i.version \in 1..MaxVersion /\ i.stages \in Lists
  BY DEF InstsOK, Snapshot
<1>2. PICK w \in i.version..Len(history[i.route]) : TRUE
  BY DEF InstsOK, From
<1>3. Len(history[i.route]) # 0
  BY <1>1, <1>2, RouteFacts
<1> QED BY <1>1, <1>3, RouteFacts

(* A route in use exists. *)
LEMMA InUseExists ==
  ASSUME RoutesOK, InstsOK, NEW r \in RouteIds, InUse(r)
  PROVE  Exists(r)
BY InstFacts DEF InUse

-----------------------------------------------------------------------------
(* A step may add routes and versions and takes none away.                   *)
Grow ==
  /\ RoutesOK'
  /\ \A r \in RouteIds : Exists(r) => Exists(r)' /\ route[r].version <= route'[r].version
  /\ \A r \in RouteIds : \A w \in 1..Len(history[r]) :
       w \in 1..Len(history'[r]) /\ history'[r][w] = history[r][w]

LEMMA GrowSame ==
  ASSUME RoutesOK, UNCHANGED <<route, stages, history>>
  PROVE  Grow
<1>1. RoutesOK'
  BY DEF RoutesOK, Exists
<1>2. \A r \in RouteIds : route[r].version <= route[r].version
  BY RouteFacts
<1> QED BY <1>1, <1>2 DEF Grow, Exists

LEMMA FromKept ==
  ASSUME RoutesOK, Grow, NEW r \in RouteIds, NEW v \in Nat \ {0}, NEW l, From(r, v, l)
  PROVE  From(r, v, l)'
<1>1. PICK w \in v..Len(history[r]) : history[r][w] = l
  BY DEF From
<1>2. Len(history[r]) \in Nat
  BY RouteFacts
<1>3. w \in 1..Len(history[r])
  BY <1>1, <1>2
<1>4. w \in 1..Len(history'[r]) /\ history'[r][w] = l
  BY <1>1, <1>3 DEF Grow
<1>5. w \in v..Len(history'[r])
  BY <1>1, <1>2, <1>4
<1> QED BY <1>4, <1>5 DEF From

LEMMA ReadKept ==
  ASSUME RoutesOK, Grow, NEW x \in SubStates, ReadOK(x)
  PROVE  ReadOK(x)'
<1>1. ASSUME x.phase \in {"route", "stages", "inserted"}
      PROVE  Exists(x.route)' /\ x.version <= route'[x.route].version
  <2>1. /\ x.route \in RouteIds /\ x.version \in Nat
        /\ Exists(x.route) /\ x.version <= route[x.route].version
    BY <1>1, SubFacts DEF ReadOK
  <2>2. Exists(x.route)' /\ route[x.route].version <= route'[x.route].version
    BY <2>1 DEF Grow
  <2>3. route[x.route].version \in Nat /\ route'[x.route].version \in Nat
    BY <2>1, RouteFacts, RowFields DEF Grow, RoutesOK
  <2> QED BY <2>1, <2>2, <2>3
<1>2. ASSUME x.phase \in {"stages", "inserted"}
      PROVE  From(x.route, x.version, x.stages)'
  <2>1. /\ x.route \in RouteIds /\ x.version \in Nat \ {0}
        /\ From(x.route, x.version, x.stages)
    BY <1>2, SubFacts DEF ReadOK
  <2> QED BY <2>1, FromKept
<1> QED BY <1>1, <1>2 DEF ReadOK

LEMMA SubsKept ==
  ASSUME RoutesOK, SubsOK, Grow, sub' = sub
  PROVE  SubsOK'
<1> SUFFICES ASSUME NEW s \in Subs, NEW x \in SubStates, x = sub[s], ReadOK(x)
             PROVE  ReadOK(x)'
  BY DEF SubsOK
<1> QED BY ReadKept

LEMMA InstsKept ==
  ASSUME RoutesOK, InstsOK, Grow, insts' = insts
  PROVE  InstsOK'
<1> SUFFICES ASSUME NEW i \in insts
             PROVE  From(i.route, i.version, i.stages)'
  BY DEF InstsOK
<1>1. i.route \in RouteIds /\ i.version \in Nat \ {0}
  BY InstFacts, RouteAssumption
<1> QED BY <1>1, FromKept DEF InstsOK

LEMMA ListKept ==
  ASSUME RoutesOK, ListOK, Grow, list' = list
  PROVE  ListOK'
<1>1. ASSUME list.phase \in {"rows", "done"}, NEW r \in DOMAIN list.rows
      PROVE  r \in RouteIds /\ Exists(r)' /\ list.rows[r] \in 1..route'[r].version
  <2>1. r \in RouteIds /\ Exists(r) /\ list.rows[r] \in 1..route[r].version
    BY <1>1 DEF ListOK
  <2>2. Exists(r)' /\ route[r].version <= route'[r].version
    BY <2>1 DEF Grow
  <2>3. route[r].version \in Nat /\ route'[r].version \in Nat
    BY <2>1, RouteFacts, RowFields DEF Grow, RoutesOK
  <2> QED BY <2>1, <2>2, <2>3
<1>2. ASSUME list.phase = "done", NEW r \in DOMAIN list.rows
      PROVE  From(r, list.rows[r], list.stages[r])'
  <2>1. r \in RouteIds /\ list.rows[r] \in 1..route[r].version /\ route[r].version \in Nat
    BY <1>2, RouteFacts DEF ListOK
  <2>2. PICK v \in Nat \ {0} : v = list.rows[r]
    BY <2>1
  <2>3. PICK l : l = list.stages[r]
    OBVIOUS
  <2>4. From(r, v, l)
    BY <1>2, <2>2, <2>3 DEF ListOK
  <2>5. From(r, v, l)'
    BY <2>1, <2>4, FromKept
  <2> QED BY <2>2, <2>3, <2>5 DEF From
<1> QED BY <1>1, <1>2 DEF ListOK, Exists, From

-----------------------------------------------------------------------------
(* The submissions.                                                          *)

(* A step of submission s to state y that commits the instances N. *)
OnlySub(s, y, N) ==
  /\ UNCHANGED <<route, stages, lock, adm, list, history>>
  /\ y \in SubStates /\ sub' = [sub EXCEPT ![s] = y] /\ ReadOK(y)
  /\ y.phase = "inserted" => lock[y.route] = NoTx
  /\ insts' = insts \cup N /\ N \subseteq Snapshot
  /\ \A i \in N : From(i.route, i.version, i.stages) /\ Sharing(i.route) # {}

LEMMA SubStep ==
  ASSUME RouteInv, NEW s \in Subs, NEW y, NEW N, OnlySub(s, y, N)
  PROVE  GoodStep
<1>1. UNCHANGED <<route, stages, lock, adm, list, history>>
  BY DEF OnlySub
<1>2. Grow
  BY <1>1, GrowSame DEF RouteInv
<1>3. /\ sub' \in [Subs -> SubStates] /\ sub'[s] = y
      /\ \A q \in Subs \ {s} : sub'[q] = sub[q]
  BY DEF OnlySub, RouteInv, SubsOK
<1>4. SubsOK'
  <2> SUFFICES ASSUME NEW q \in Subs, NEW x \in SubStates, x = sub'[q]
               PROVE  ReadOK(x)'
    BY <1>3 DEF SubsOK
  <2>1. ReadOK(x)
    BY <1>3 DEF OnlySub, RouteInv, SubsOK
  <2> QED BY <1>2, <2>1, ReadKept DEF RouteInv
<1>5. InstsOK'
  <2>1. insts' \subseteq Snapshot
    BY DEF OnlySub, RouteInv, InstsOK
  <2> SUFFICES ASSUME NEW i \in insts'
               PROVE  From(i.route, i.version, i.stages)'
    BY <2>1 DEF InstsOK
  <2>2. From(i.route, i.version, i.stages)
    BY DEF OnlySub, RouteInv, InstsOK
  <2> QED BY <1>1, <2>2 DEF From
<1>6. AdminOK'
  BY <1>1 DEF RouteInv, AdminOK, Holds
<1>7. LockOK'
  <2>1. ASSUME NEW t \in Txs, Holds(t)
        PROVE  Exists(adm[t].route)' /\ Sharing(adm[t].route)' = {}
    <3>1. Exists(adm[t].route) /\ Sharing(adm[t].route) = {} /\ adm[t].route \in RouteIds
      BY <2>1, AdminFacts DEF RouteInv, LockOK
    <3>2. lock[adm[t].route] = t
      BY <2>1, <3>1 DEF RouteInv, AdminOK
    <3>3. ASSUME NEW q \in Subs, sub'[q].phase = "inserted", sub'[q].route = adm[t].route
          PROVE  FALSE
      <4>1. q = s
        BY <1>3, <3>1, <3>3 DEF Sharing
      <4>2. y.phase = "inserted" /\ y.route = adm[t].route
        BY <1>3, <3>3, <4>1
      <4> QED BY <3>2, <4>2, RouteAssumption DEF OnlySub
    <3> QED BY <1>1, <3>1, <3>3 DEF Sharing, Exists
  <2>2. ASSUME NEW t \in Txs, adm[t].phase = "written"
        PROVE  /\ ~InUse(adm[t].route)'
               /\ adm[t].op = "update" => route[adm[t].route].version < MaxVersion
    <3>1. Holds(t)
      BY <2>2 DEF Holds
    <3>2. ~InUse(adm[t].route) /\ Sharing(adm[t].route) = {}
      BY <2>2, <3>1 DEF RouteInv, LockOK
    <3>3. ~\E i \in insts' : i.route = adm[t].route
      BY <3>2 DEF OnlySub, InUse
    <3> QED BY <1>1, <2>2, <3>3 DEF InUse, RouteInv, LockOK
  <2>3. ASSUME NEW t \in Txs PROVE Holds(t)' <=> Holds(t)
    BY <1>1 DEF Holds
  <2> QED BY <1>1, <2>1, <2>2, <2>3 DEF LockOK, Sharing, Exists, InUse
<1>8. ListOK'
  BY <1>1, <1>2, ListKept DEF RouteInv
<1> QED BY <1>1, <1>2, <1>4, <1>5, <1>6, <1>7, <1>8 DEF GoodStep, RouteInv, FrozenStep, Grow

LEMMA EndedOK == Ended \in SubStates /\ ReadOK(Ended) /\ Ended.phase = "ended"
<1>1. Ended.phase = "ended"
  BY DEF Ended
<1> QED BY <1>1 DEF SubStates, ReadOK

LEMMA SubmitStep ==
  ASSUME RouteInv, NEW s \in Subs, NEW u \in Users, NEW r \in RouteIds, SubmitHandler(s, u, r)
  PROVE  GoodStep
<1> DEFINE y == [phase |-> "route", route |-> r, version |-> route[r].version]
<1>1. Exists(r) /\ route[r].version \in 1..MaxVersion
  BY RouteFacts DEF SubmitHandler, Exists, RouteInv
<1>2. y \in SubStates /\ y.phase = "route" /\ y.route = r /\ y.version = route[r].version
  BY <1>1 DEF SubStates, ReadRoute
<1>3. /\ sub' = [sub EXCEPT ![s] = y]
      /\ UNCHANGED <<route, stages, lock, adm, insts, list, history>>
  BY DEF SubmitHandler
<1> HIDE DEF y
<1>4. ReadOK(y)
  BY <1>1, <1>2, RouteAssumption DEF ReadOK
<1>5. OnlySub(s, y, {})
  BY <1>2, <1>3, <1>4 DEF OnlySub
<1> QED BY <1>5, SubStep

LEMMA LoadRouteStep ==
  ASSUME RouteInv, NEW s \in Subs, loadRoute(s)
  PROVE  GoodStep
<1> DEFINE r == sub[s].route
           v == sub[s].version
           y == [phase |-> "stages", route |-> r, version |-> v, stages |-> stages[r]]
<1>1. sub[s] \in SubStates /\ sub[s].phase = "route" /\ ReadOK(sub[s])
  BY DEF loadRoute, RouteInv, SubsOK
<1>2. /\ r \in RouteIds /\ v \in 1..MaxVersion /\ v \in Nat \ {0}
      /\ Exists(r) /\ v <= route[r].version
  BY <1>1, SubFacts DEF ReadOK
<1>3. /\ history[r] \in Seq(Lists) /\ Len(history[r]) = route[r].version
      /\ route[r].version \in 1..MaxVersion /\ stages[r] = history[r][route[r].version]
  BY <1>2, RouteFacts DEF RouteInv, RoutesOK
<1>4. /\ sub' = [sub EXCEPT ![s] = y]
      /\ UNCHANGED <<route, stages, lock, adm, insts, list, history>>
  BY DEF loadRoute
<1> HIDE DEF r, v
<1>5. stages[r] \in Lists /\ From(r, v, stages[r])
  <2> DEFINE w == route[r].version
  <2>1. w \in 1..Len(history[r]) /\ w \in v..Len(history[r]) /\ history[r][w] = stages[r]
    BY <1>2, <1>3, RouteAssumption
  <2>2. history[r][w] \in Lists
    BY <1>3, <2>1
  <2> HIDE DEF w
  <2> QED BY <2>1, <2>2 DEF From
<1>6. y \in SubStates /\ y.phase = "stages" /\ y.route = r /\ y.version = v /\ y.stages = stages[r]
  BY <1>2, <1>5 DEF SubStates, ReadStages
<1> HIDE DEF y
<1>7. ReadOK(y)
  BY <1>2, <1>5, <1>6 DEF ReadOK
<1>8. OnlySub(s, y, {})
  BY <1>4, <1>6, <1>7 DEF OnlySub
<1> QED BY <1>8, SubStep

LEMMA InsertStep ==
  ASSUME RouteInv, NEW s \in Subs, InsertInstance(s)
  PROVE  GoodStep
<1> DEFINE y == [sub[s] EXCEPT !.phase = "inserted"]
<1>1. sub[s] \in SubStates /\ sub[s].phase = "stages" /\ ReadOK(sub[s]) /\ sub[s] \in ReadStages
  BY SubFacts DEF InsertInstance, RouteInv, SubsOK
<1>2. /\ y \in ReadStages /\ y.phase = "inserted" /\ y.route = sub[s].route
      /\ y.version = sub[s].version /\ y.stages = sub[s].stages
  BY <1>1 DEF ReadStages
<1>3. /\ sub' = [sub EXCEPT ![s] = y] /\ lock[sub[s].route] = NoTx
      /\ UNCHANGED <<route, stages, lock, adm, insts, list, history>>
  BY DEF InsertInstance
<1> HIDE DEF y
<1>4. ReadOK(y)
  BY <1>1, <1>2 DEF ReadOK
<1>5. OnlySub(s, y, {})
  BY <1>2, <1>3, <1>4 DEF OnlySub, SubStates
<1> QED BY <1>5, SubStep

LEMMA CommitStep ==
  ASSUME RouteInv, NEW s \in Subs, CommitSubmit(s)
  PROVE  GoodStep
<1> DEFINE i == [by |-> s, route |-> sub[s].route, version |-> sub[s].version,
                 stages |-> sub[s].stages]
<1>1. sub[s] \in SubStates /\ sub[s].phase = "inserted" /\ ReadOK(sub[s])
  BY DEF CommitSubmit, RouteInv, SubsOK
<1>2. /\ sub[s].route \in RouteIds /\ sub[s].version \in 1..MaxVersion /\ sub[s].stages \in Lists
      /\ From(sub[s].route, sub[s].version, sub[s].stages)
  BY <1>1, SubFacts DEF ReadOK
<1>3. /\ i \in Snapshot /\ i.route = sub[s].route /\ i.version = sub[s].version
      /\ i.stages = sub[s].stages
  BY <1>2 DEF Snapshot
<1>4. /\ sub' = [sub EXCEPT ![s] = Ended] /\ insts' = insts \cup {i}
      /\ UNCHANGED <<route, stages, lock, adm, list, history>>
  BY DEF CommitSubmit, Ended
<1> HIDE DEF i
<1>5. s \in Sharing(i.route)
  BY <1>1, <1>3 DEF Sharing
<1>6. From(i.route, i.version, i.stages)
  BY <1>2, <1>3
<1>7. OnlySub(s, Ended, {i})
  BY <1>3, <1>4, <1>5, <1>6, EndedOK DEF OnlySub
<1> QED BY <1>7, SubStep

LEMMA AbortSubmitStep ==
  ASSUME RouteInv, NEW s \in Subs, AbortSubmit(s)
  PROVE  GoodStep
<1>1. OnlySub(s, Ended, {})
  BY EndedOK DEF AbortSubmit, OnlySub, Ended
<1> QED BY <1>1, SubStep

-----------------------------------------------------------------------------
(* Steps of administrators that do not commit: rows are locked, written and  *)
(* unlocked.                                                                 *)
OnlyAdmin == UNCHANGED <<route, stages, sub, insts, list, history>> /\ AdminOK' /\ LockOK'

LEMMA AdminStep ==
  ASSUME RouteInv, OnlyAdmin
  PROVE  GoodStep
<1>1. UNCHANGED <<route, stages, sub, insts, list, history>>
  BY DEF OnlyAdmin
<1>2. Grow
  BY <1>1, GrowSame DEF RouteInv
<1>3. SubsOK' /\ InstsOK' /\ ListOK'
  BY <1>1, <1>2, SubsKept, InstsKept, ListKept DEF RouteInv
<1> QED BY <1>1, <1>2, <1>3 DEF OnlyAdmin, GoodStep, RouteInv, FrozenStep, Grow

LEMMA BeginStep ==
  ASSUME RouteInv, NEW t \in Txs, NEW u \in Users, NEW r \in RouteIds,
         NEW op \in {"update", "deactivate"}, NEW l \in Lists \cup {<<>>},
         op = "update" => l \in Lists, BeginAdmin(t, u, r, op, l)
  PROVE  GoodStep
<1> DEFINE y == [phase |-> "locked", op |-> op, route |-> r, list |-> l]
<1>1. /\ y \in OpenAdmin /\ y.phase = "locked" /\ y.op = op /\ y.route = r /\ y.list = l
  BY DEF OpenAdmin
<1>2. /\ adm[t].phase = "idle" /\ Exists(r) /\ lock[r] = NoTx /\ Sharing(r) = {}
      /\ lock' = [lock EXCEPT ![r] = t] /\ adm' = [adm EXCEPT ![t] = y]
      /\ UNCHANGED <<route, stages, sub, insts, list, history>>
  BY DEF BeginAdmin, lockRouteForUpdate, Exists
<1> HIDE DEF y
<1>3. /\ adm' \in [Txs -> {Idle, Ended} \cup OpenAdmin] /\ adm'[t] = y
      /\ \A q \in Txs \ {t} : adm'[q] = adm[q]
      /\ lock' \in [RouteIds -> Txs \cup {NoTx}] /\ lock'[r] = t
      /\ \A q \in RouteIds \ {r} : lock'[q] = lock[q]
  BY <1>1, <1>2 DEF RouteInv, AdminOK
<1>4. ~Holds(t) /\ Holds(t)' /\ \A q \in Txs \ {t} : Holds(q)' <=> Holds(q)
  BY <1>1, <1>2, <1>3 DEF Holds
<1>5. \A p \in RouteIds, q \in Txs : lock'[p] = q <=> Holds(q)' /\ adm'[q].route = p
  <2> SUFFICES ASSUME NEW p \in RouteIds, NEW q \in Txs
               PROVE  lock'[p] = q <=> Holds(q)' /\ adm'[q].route = p
    OBVIOUS
  <2>1. lock[p] = q <=> Holds(q) /\ adm[q].route = p
    BY DEF RouteInv, AdminOK
  <2> QED BY <1>1, <1>2, <1>3, <1>4, <2>1, RouteAssumption
<1>6. AdminOK'
  BY <1>1, <1>3, <1>4, <1>5 DEF AdminOK, RouteInv
<1>7. LockOK'
  BY <1>1, <1>2, <1>3, <1>4 DEF LockOK, RouteInv, Exists, Sharing, InUse
<1> QED BY <1>2, <1>6, <1>7, AdminStep DEF OnlyAdmin

LEMMA WriteStep ==
  ASSUME RouteInv, NEW t \in Txs, UpdateRow(t)
  PROVE  GoodStep
<1> DEFINE y == [adm[t] EXCEPT !.phase = "written"]
<1>1. adm[t] \in OpenAdmin /\ Holds(t)
  BY AdminFacts DEF UpdateRow, Holds, RouteInv
<1>2. /\ y \in OpenAdmin /\ y.phase = "written" /\ y.op = adm[t].op
      /\ y.route = adm[t].route /\ y.list = adm[t].list
  BY <1>1 DEF OpenAdmin
<1>3. /\ adm[t].op = "update" => route[adm[t].route].version < MaxVersion
      /\ ~InUse(adm[t].route) /\ adm' = [adm EXCEPT ![t] = y]
      /\ UNCHANGED <<route, stages, lock, sub, insts, list, history>>
  BY DEF UpdateRow
<1> HIDE DEF y
<1>4. /\ adm' \in [Txs -> {Idle, Ended} \cup OpenAdmin] /\ adm'[t] = y
      /\ \A q \in Txs \ {t} : adm'[q] = adm[q]
  BY <1>2, <1>3 DEF RouteInv, AdminOK
<1>5. \A q \in Txs : /\ Holds(q)' <=> Holds(q)
                     /\ Holds(q) => /\ adm'[q].route = adm[q].route /\ adm'[q].op = adm[q].op
                                    /\ adm'[q].list = adm[q].list
  BY <1>1, <1>2, <1>4 DEF Holds
<1>6. AdminOK'
  BY <1>3, <1>4, <1>5 DEF AdminOK, RouteInv
<1>7. LockOK'
  <2>1. \A q \in Txs : adm'[q].phase = "written" => q = t \/ adm[q].phase = "written"
    BY <1>4
  <2>2. \A q \in Txs : adm'[q].phase = "written" => Holds(q)
    BY <1>1, <2>1 DEF Holds
  <2> QED BY <1>3, <1>5, <2>1, <2>2 DEF LockOK, RouteInv, Exists, Sharing, InUse
<1> QED BY <1>3, <1>6, <1>7, AdminStep DEF OnlyAdmin

(* The end of an administrator's transaction gives the row back. *)
LEMMA Released ==
  ASSUME RouteInv, NEW t \in Txs, Holds(t), EndAdmin(t)
  PROVE  /\ AdminOK'
         /\ \A q \in Txs : adm'[q].phase \in {"locked", "written"} =>
              q # t /\ adm'[q] = adm[q] /\ Holds(q) /\ adm[q].route # adm[t].route
<1>1. adm[t].route \in RouteIds /\ Ended.phase = "ended"
  BY AdminFacts DEF RouteInv, Ended
<1>2. lock' = [lock EXCEPT ![adm[t].route] = NoTx] /\ adm' = [adm EXCEPT ![t] = Ended]
  BY DEF EndAdmin, Ended
<1>3. /\ adm' \in [Txs -> {Idle, Ended} \cup OpenAdmin] /\ adm'[t] = Ended
      /\ \A q \in Txs \ {t} : adm'[q] = adm[q]
      /\ lock' \in [RouteIds -> Txs \cup {NoTx}] /\ lock'[adm[t].route] = NoTx
      /\ \A q \in RouteIds \ {adm[t].route} : lock'[q] = lock[q]
  BY <1>1, <1>2 DEF RouteInv, AdminOK
<1>4. \A q \in Txs : Holds(q)' <=> q # t /\ Holds(q)
  BY <1>1, <1>3 DEF Holds
<1>5. \A q \in Txs : q # t /\ Holds(q) => adm[q].route # adm[t].route
  BY OneHolder DEF RouteInv
<1>6. \A p \in RouteIds, q \in Txs : lock'[p] = q <=> Holds(q)' /\ adm'[q].route = p
  <2> SUFFICES ASSUME NEW p \in RouteIds, NEW q \in Txs
               PROVE  lock'[p] = q <=> Holds(q)' /\ adm'[q].route = p
    OBVIOUS
  <2>1. /\ lock[p] = q <=> Holds(q) /\ adm[q].route = p
        /\ lock[adm[t].route] = t
    BY <1>1 DEF RouteInv, AdminOK
  <2> QED BY <1>1, <1>3, <1>4, <1>5, <2>1, RouteAssumption
<1>7. AdminOK'
  BY <1>3, <1>4, <1>6 DEF AdminOK, RouteInv
<1> QED BY <1>3, <1>4, <1>5, <1>7 DEF Holds

LEMMA AbortAdminStep ==
  ASSUME RouteInv, NEW t \in Txs, AbortAdmin(t)
  PROVE  GoodStep
<1>1. Holds(t) /\ EndAdmin(t) /\ UNCHANGED <<route, stages, sub, insts, list, history>>
  BY DEF AbortAdmin, Holds
<1>2. /\ AdminOK'
      /\ \A q \in Txs : adm'[q].phase \in {"locked", "written"} => adm'[q] = adm[q] /\ Holds(q)
  BY <1>1, Released
<1>3. LockOK'
  BY <1>1, <1>2 DEF LockOK, RouteInv, Exists, Sharing, InUse, Holds
<1> QED BY <1>1, <1>2, <1>3, AdminStep DEF OnlyAdmin

-----------------------------------------------------------------------------
(* Commits that change routes.                                               *)

(* A step that changes at most route p, which no instance references. *)
OnlyRoute(p) ==
  /\ UNCHANGED <<sub, insts, list>> /\ Grow /\ AdminOK'
  /\ ~InUse(p)
  /\ \A q \in RouteIds \ {p} : route'[q] = route[q] /\ stages'[q] = stages[q]
  /\ \A t \in Txs : adm'[t].phase \in {"locked", "written"} =>
       adm'[t] = adm[t] /\ Holds(t) /\ adm[t].route # p

LEMMA RouteStep ==
  ASSUME RouteInv, NEW p \in RouteIds, OnlyRoute(p)
  PROVE  GoodStep
<1>1. UNCHANGED <<sub, insts, list>> /\ Grow /\ AdminOK'
  BY DEF OnlyRoute
<1>2. SubsOK' /\ InstsOK' /\ ListOK'
  BY <1>1, SubsKept, InstsKept, ListKept DEF RouteInv
<1>3. LockOK'
  <2>1. ASSUME NEW t \in Txs, adm'[t].phase \in {"locked", "written"}
        PROVE  /\ adm'[t] = adm[t] /\ Holds(t) /\ adm[t].route \in RouteIds
               /\ route'[adm[t].route] = route[adm[t].route]
    <3>1. adm'[t] = adm[t] /\ Holds(t) /\ adm[t].route # p
      BY <2>1 DEF OnlyRoute
    <3>2. adm[t].route \in RouteIds
      BY <3>1, AdminFacts DEF RouteInv
    <3> QED BY <3>1, <3>2 DEF OnlyRoute
  <2> QED BY <1>1, <2>1 DEF LockOK, RouteInv, Exists, Sharing, InUse, Holds
<1>4. FrozenStep
  BY DEF FrozenStep, OnlyRoute
<1> QED BY <1>1, <1>2, <1>3, <1>4 DEF GoodStep, RouteInv, Grow

(* Route p gets row y and its next list l: a new route or a new version. *)
LEMMA NewVersion ==
  ASSUME RoutesOK, NEW p \in RouteIds, NEW y \in Row, NEW l \in Lists,
         y.version = route[p].version + 1,
         \A q \in RouteIds \ {p} : Exists(q) => route[q].profile # y.profile,
         route' = [route EXCEPT ![p] = y], insertRouteStages(p, l)
  PROVE  /\ Grow
         /\ \A q \in RouteIds \ {p} : route'[q] = route[q] /\ stages'[q] = stages[q]
<1>1. stages' = [stages EXCEPT ![p] = l] /\ history' = [history EXCEPT ![p] = Append(history[p], l)]
  BY DEF insertRouteStages
<1>2. history[p] \in Seq(Lists) /\ Len(history[p]) = route[p].version /\ route[p].version \in Nat
  BY RouteFacts
<1> DEFINE H == Append(history[p], l)
<1>3. /\ H \in Seq(Lists) /\ Len(H) = route[p].version + 1 /\ H[route[p].version + 1] = l
      /\ \A w \in 1..Len(history[p]) : w \in 1..Len(H) /\ H[w] = history[p][w]
  BY <1>2
<1> HIDE DEF H
<1>4. /\ route' \in [RouteIds -> Row \cup {NoRoute}] /\ route'[p] = y
      /\ stages' \in [RouteIds -> Lists \cup {<<>>}] /\ stages'[p] = l
      /\ history' \in [RouteIds -> Seq(Lists)] /\ history'[p] = H
      /\ \A q \in RouteIds \ {p} :
           route'[q] = route[q] /\ stages'[q] = stages[q] /\ history'[q] = history[q]
  BY <1>1, <1>3 DEF RoutesOK, H
<1>5. Exists(p)' /\ \A q \in RouteIds \ {p} : Exists(q)' <=> Exists(q)
  BY <1>4, RowFields DEF Exists
<1>6. RoutesOK'
  <2>1. \A r \in RouteIds : Len(history'[r]) = route'[r].version
    BY <1>3, <1>4 DEF RoutesOK
  <2>2. \A r \in RouteIds : Exists(r)' => stages'[r] = history'[r][route'[r].version]
    BY <1>3, <1>4, <1>5 DEF RoutesOK
  <2>3. \A r, q \in RouteIds :
          r # q /\ Exists(r)' /\ Exists(q)' => route'[r].profile # route'[q].profile
    BY <1>4, <1>5 DEF RoutesOK
  <2> QED BY <1>4, <2>1, <2>2, <2>3 DEF RoutesOK
<1>7. \A r \in RouteIds : Exists(r) => Exists(r)' /\ route[r].version <= route'[r].version
  BY <1>2, <1>4, <1>5, RouteFacts
<1>8. \A r \in RouteIds : \A w \in 1..Len(history[r]) :
        w \in 1..Len(history'[r]) /\ history'[r][w] = history[r][w]
  BY <1>3, <1>4
<1> QED BY <1>4, <1>6, <1>7, <1>8 DEF Grow

LEMMA CreateStep ==
  ASSUME RouteInv, NEW u \in Users, CreateRouteHandler(u)
  PROVE  GoodStep
<1>1. PICK p \in Profiles, l \in Lists : Create(u, p, l)
  BY SameList DEF CreateRouteHandler
<1> DEFINE y == [profile |-> p, version |-> 1, active |-> TRUE]
<1>2. PICK r \in RouteIds :
        route[r] = NoRoute /\ route' = [route EXCEPT ![r] = y] /\ insertRouteStages(r, l)
  BY <1>1 DEF Create
<1>3. /\ \A q \in RouteIds : Exists(q) => route[q].profile # p
      /\ UNCHANGED <<lock, adm, sub, insts, list>>
  BY <1>1 DEF Create, Exists
<1>4. y \in Row /\ y.version = 1 /\ y.profile = p
  BY RouteAssumption DEF Row
<1> HIDE DEF y
<1>5. ~Exists(r) /\ y.version = route[r].version + 1
  BY <1>2, <1>4, RowFields DEF Exists
<1>6. /\ Grow
      /\ \A q \in RouteIds \ {r} : route'[q] = route[q] /\ stages'[q] = stages[q]
  BY <1>2, <1>3, <1>4, <1>5, NewVersion DEF RouteInv
<1>7. ~InUse(r)
  BY <1>5, InUseExists DEF RouteInv
<1>8. AdminOK'
  BY <1>3 DEF RouteInv, AdminOK, Holds
<1>9. \A t \in Txs : adm'[t].phase \in {"locked", "written"} =>
        adm'[t] = adm[t] /\ Holds(t) /\ adm[t].route # r
  BY <1>3, <1>5 DEF Holds, RouteInv, LockOK
<1> QED BY <1>3, <1>6, <1>7, <1>8, <1>9, RouteStep DEF OnlyRoute

LEMMA UpdateStep ==
  ASSUME RouteInv, NEW t \in Txs, Update(t)
  PROVE  GoodStep
<1> DEFINE v == route[adm[t].route].version + 1
<1>1. /\ Holds(t) /\ EndAdmin(t) /\ adm[t].phase = "written" /\ adm[t].op = "update"
      /\ UNCHANGED <<sub, insts, list>>
  BY DEF Update, Holds
<1>2. PICK r \in RouteIds : r = adm[t].route
  BY <1>1, AdminFacts DEF RouteInv
<1>3. PICK l \in Lists : l = adm[t].list
  BY <1>1 DEF RouteInv, AdminOK
<1>4. ~InUse(r) /\ Exists(r) /\ route[r].version < MaxVersion
  BY <1>1, <1>2 DEF RouteInv, LockOK
<1>5. route[r] \in Row /\ route[r].version \in Nat /\ route[r].version + 1 \in 1..MaxVersion
  BY <1>4, RouteFacts, RouteAssumption DEF RouteInv
<1> DEFINE y == [route[r] EXCEPT !.version = route[r].version + 1]
<1>6. y \in Row /\ y.version = route[r].version + 1 /\ y.profile = route[r].profile
  BY <1>5, RowVersion
<1>7. route' = [route EXCEPT ![r] = y] /\ insertRouteStages(r, l)
  BY <1>2, <1>3 DEF Update
<1> HIDE DEF y
<1>8. \A q \in RouteIds \ {r} : Exists(q) => route[q].profile # y.profile
  BY <1>4, <1>6 DEF RouteInv, RoutesOK
<1>9. /\ Grow
      /\ \A q \in RouteIds \ {r} : route'[q] = route[q] /\ stages'[q] = stages[q]
  BY <1>3, <1>6, <1>7, <1>8, NewVersion DEF RouteInv
<1>10. /\ AdminOK'
       /\ \A q \in Txs : adm'[q].phase \in {"locked", "written"} =>
            adm'[q] = adm[q] /\ Holds(q) /\ adm[q].route # r
  BY <1>1, <1>2, Released
<1> QED BY <1>1, <1>4, <1>9, <1>10, RouteStep DEF OnlyRoute

LEMMA DeactivateStep ==
  ASSUME RouteInv, NEW t \in Txs, Deactivate(t)
  PROVE  GoodStep
<1>1. /\ Holds(t) /\ EndAdmin(t) /\ adm[t].phase = "written"
      /\ UNCHANGED <<stages, sub, insts, list, history>>
  BY DEF Deactivate, Holds
<1>2. PICK r \in RouteIds : r = adm[t].route
  BY <1>1, AdminFacts DEF RouteInv
<1>3. ~InUse(r) /\ Exists(r) /\ route[r] \in Row
  BY <1>1, <1>2, RouteFacts DEF RouteInv, LockOK
<1> DEFINE y == [route[r] EXCEPT !.active = FALSE]
<1>4. y \in Row /\ y.version = route[r].version /\ y.profile = route[r].profile
  BY <1>3, RowInactive
<1>5. route' = [route EXCEPT ![r] = y]
  BY <1>2 DEF Deactivate
<1> HIDE DEF y
<1>6. /\ route' \in [RouteIds -> Row \cup {NoRoute}] /\ route'[r] = y
      /\ \A q \in RouteIds \ {r} : route'[q] = route[q]
  BY <1>4, <1>5 DEF RouteInv, RoutesOK
<1>7. \A q \in RouteIds : /\ Exists(q)' <=> Exists(q)
                          /\ route'[q].version = route[q].version
                          /\ Exists(q) => route'[q].profile = route[q].profile
  BY <1>3, <1>4, <1>6, RowFields DEF Exists
<1>8. RoutesOK'
  <2>1. RoutesOK
    BY DEF RouteInv
  <2>2. \A q \in RouteIds : Len(history'[q]) = route'[q].version
    BY <1>1, <1>7, <2>1 DEF RoutesOK
  <2>3. \A q \in RouteIds : Exists(q)' => stages'[q] = history'[q][route'[q].version]
    BY <1>1, <1>7, <2>1 DEF RoutesOK
  <2>4. \A q, z \in RouteIds :
          q # z /\ Exists(q)' /\ Exists(z)' => route'[q].profile # route'[z].profile
    BY <1>7, <2>1 DEF RoutesOK
  <2> QED BY <1>1, <1>6, <2>1, <2>2, <2>3, <2>4 DEF RoutesOK
<1>9. \A q \in RouteIds : route[q].version <= route'[q].version
  BY <1>7, RouteFacts DEF RouteInv
<1>10. Grow
  BY <1>1, <1>7, <1>8, <1>9 DEF Grow
<1>11. /\ AdminOK'
       /\ \A q \in Txs : adm'[q].phase \in {"locked", "written"} =>
            adm'[q] = adm[q] /\ Holds(q) /\ adm[q].route # r
  BY <1>1, <1>2, Released
<1> QED BY <1>1, <1>3, <1>6, <1>10, <1>11, RouteStep DEF OnlyRoute

-----------------------------------------------------------------------------
(* The listing.                                                              *)
LEMMA ListStep ==
  ASSUME RouteInv, ListRoutesHandler
  PROVE  GoodStep
<1>1. UNCHANGED <<route, stages, lock, adm, sub, insts, history>>
  BY DEF ListRoutesHandler
<1>2. Grow
  BY <1>1, GrowSame DEF RouteInv
<1>3. SubsOK' /\ InstsOK'
  BY <1>1, <1>2, SubsKept, InstsKept DEF RouteInv
<1>4. AdminOK' /\ LockOK'
  BY <1>1 DEF RouteInv, AdminOK, LockOK, Holds, Exists, Sharing, InUse
<1>5. ListOK'
  <2> DEFINE rows == [r \in {q \in RouteIds : route[q] # NoRoute} |-> route[r].version]
  <2>1. CASE list' = [phase |-> "rows", rows |-> rows]
    <3>1. list'.phase = "rows" /\ list'.rows = rows
      BY <2>1
    <3>2. \A r \in DOMAIN rows : r \in RouteIds /\ Exists(r) /\ rows[r] \in 1..route[r].version
      BY RouteFacts, RouteAssumption DEF RouteInv, Exists
    <3> HIDE DEF rows
    <3> QED BY <1>1, <3>1, <3>2 DEF ListOK, Exists
  <2>2. CASE /\ list.phase = "rows"
             /\ list' = [phase |-> "done", rows |-> list.rows,
                         stages |-> [r \in DOMAIN list.rows |-> stages[r]]]
    <3>1. /\ list'.phase = "done" /\ list'.rows = list.rows
          /\ \A r \in DOMAIN list.rows : list'.stages[r] = stages[r]
      BY <2>2
    <3>2. \A r \in DOMAIN list.rows :
            r \in RouteIds /\ Exists(r) /\ list.rows[r] \in 1..route[r].version
      BY <2>2 DEF RouteInv, ListOK
    <3>3. \A r \in DOMAIN list.rows : From(r, list.rows[r], stages[r])
      <4> SUFFICES ASSUME NEW r \in DOMAIN list.rows
                   PROVE  From(r, list.rows[r], stages[r])
        OBVIOUS
      <4>1. /\ r \in RouteIds /\ Exists(r) /\ list.rows[r] \in 1..route[r].version
            /\ Len(history[r]) = route[r].version /\ route[r].version \in Nat
            /\ stages[r] = history[r][route[r].version]
        BY <3>2, RouteFacts DEF RouteInv, RoutesOK
      <4>2. route[r].version \in list.rows[r]..Len(history[r])
        BY <4>1
      <4> QED BY <4>1, <4>2 DEF From
    <3> QED BY <1>1, <3>1, <3>2, <3>3 DEF ListOK, Exists, From
  <2> QED BY <2>1, <2>2 DEF ListRoutesHandler
<1> QED BY <1>1, <1>2, <1>3, <1>4, <1>5 DEF GoodStep, RouteInv, FrozenStep, Grow

-----------------------------------------------------------------------------
(* The next-state relation.                                                  *)
LEMMA NextStep ==
  ASSUME RouteInv, RouteNext
  PROVE  GoodStep
<1>1. CASE \E u \in Users : CreateRouteHandler(u)
  BY <1>1, CreateStep
<1>2. CASE \E t \in Txs, u \in Users, r \in RouteIds :
             UpdateRouteHandler(t, u, r) \/ DeactivateRouteHandler(t, u, r)
  <2>1. PICK t \in Txs, u \in Users, r \in RouteIds :
             UpdateRouteHandler(t, u, r) \/ DeactivateRouteHandler(t, u, r)
    BY <1>2
  <2>2. CASE UpdateRouteHandler(t, u, r)
    <3>1. PICK l \in Lists : BeginAdmin(t, u, r, "update", l)
      BY <2>2, SameList DEF UpdateRouteHandler
    <3> QED BY <3>1, BeginStep
  <2>3. CASE DeactivateRouteHandler(t, u, r)
    <3>1. BeginAdmin(t, u, r, "deactivate", <<>>) /\ "deactivate" # "update"
      BY <2>3 DEF DeactivateRouteHandler
    <3> QED BY <3>1, BeginStep
  <2> QED BY <2>1, <2>2, <2>3
<1>3. CASE \E t \in Txs : UpdateRow(t) \/ Update(t) \/ Deactivate(t) \/ AbortAdmin(t)
  BY <1>3, WriteStep, UpdateStep, DeactivateStep, AbortAdminStep
<1>4. CASE \E s \in Subs, u \in Users, r \in RouteIds : SubmitHandler(s, u, r)
  BY <1>4, SubmitStep
<1>5. CASE \E s \in Subs : loadRoute(s) \/ InsertInstance(s) \/ CommitSubmit(s) \/ AbortSubmit(s)
  BY <1>5, LoadRouteStep, InsertStep, CommitStep, AbortSubmitStep
<1>6. CASE ListRoutesHandler
  BY <1>6, ListStep
<1> QED BY <1>1, <1>2, <1>3, <1>4, <1>5, <1>6 DEF RouteNext

LEMMA EveryStep ==
  ASSUME RouteInv, [RouteNext]_vars
  PROVE  RouteInv' /\ [FrozenStep]_vars
<1>1. CASE RouteNext
  BY <1>1, NextStep DEF GoodStep
<1>2. CASE UNCHANGED vars
  <2>1. UNCHANGED <<route, stages, lock, adm, sub, insts, list, history>>
    BY <1>2 DEF vars
  <2>2. OnlyAdmin
    BY <2>1 DEF OnlyAdmin, RouteInv, AdminOK, LockOK, Holds, Exists, Sharing, InUse
  <2> QED BY <2>2, AdminStep, <1>2 DEF GoodStep
<1> QED BY <1>1, <1>2

LEMMA RouteStart == RouteInit => RouteInv
<1> SUFFICES ASSUME RouteInit PROVE RouteInv
  OBVIOUS
<1> USE DEF RouteInit
<1>1. Idle.phase = "idle" /\ <<>> \in Seq(Lists) /\ Len(<<>>) = 0
  BY DEF Idle
<1>2. RoutesOK
  BY <1>1, RowFields DEF RoutesOK, Exists
<1>3. \A t \in Txs : ~Holds(t) /\ adm[t].phase # "written"
  BY <1>1 DEF Holds
<1>4. AdminOK /\ LockOK
  BY <1>3, RouteAssumption DEF AdminOK, LockOK
<1>5. SubsOK
  <2>1. ReadOK(Idle) /\ Idle \in SubStates
    BY <1>1 DEF ReadOK, SubStates
  <2> QED BY <2>1 DEF SubsOK
<1>6. InstsOK
  BY DEF InstsOK
<1>7. ListOK
  BY <1>1 DEF ListOK
<1> QED BY <1>2, <1>4, <1>5, <1>6, <1>7 DEF RouteInv

-----------------------------------------------------------------------------
(* The invariant holds in every reachable state. *)
THEOREM RouteInvariance == RouteSpec => []RouteInv
<1>1. RouteInv /\ [RouteNext]_vars => RouteInv'
  BY EveryStep
<1> QED BY <1>1, RouteStart, PTL DEF RouteSpec

(* The stages an instance is reviewed by, and those a listing shows, are the *)
(* whole list of one version of the route, never a mixture or a rolled-back  *)
(* list, although the two SELECTs of loadRoute take no lock.                 *)
THEOREM SnapshotsAreWhole == RouteSpec => []SnapshotWhole
<1>1. RouteInv => SnapshotWhole
  <2> SUFFICES ASSUME RouteInv PROVE SnapshotWhole
    OBVIOUS
  <2>1. RouteTypeOK
    BY DEF RouteInv, RoutesOK, AdminOK, InstsOK, RouteTypeOK, Holds, Exists
  <2>2. \A i \in insts :
          \E v \in i.version..Len(history[i.route]) : history[i.route][v] = i.stages
    BY DEF RouteInv, InstsOK, From
  <2>3. ASSUME list.phase = "done", NEW r \in DOMAIN list.rows
        PROVE  \E v \in list.rows[r]..Len(history[r]) : v > 0 /\ history[r][v] = list.stages[r]
    <3>1. r \in RouteIds /\ list.rows[r] \in 1..route[r].version /\ route[r].version \in Nat
      BY <2>3, RouteFacts DEF RouteInv, ListOK
    <3>2. PICK v \in list.rows[r]..Len(history[r]) : history[r][v] = list.stages[r]
      BY <2>3 DEF RouteInv, ListOK, From
    <3>3. v > 0
      BY <3>1, <3>2
    <3> QED BY <3>2, <3>3
  <2> QED BY <2>1, <2>2, <2>3 DEF SnapshotWhole
<1> QED BY <1>1, RouteInvariance, PTL

(* From the commit of the first instance that references it a route keeps    *)
(* its version, its stages and its flag, whatever administrators'            *)
(* transactions were open at that moment.                                    *)
THEOREM RoutesFrozenInUse == RouteSpec => RouteFrozen
<1>1. RouteInv /\ [RouteNext]_vars => [FrozenStep]_vars
  BY EveryStep
<1>2. RouteSpec => [][FrozenStep]_vars
  BY <1>1, RouteInvariance, PTL DEF RouteSpec
<1> QED BY <1>2 DEF RouteFrozen, FrozenStep
=============================================================================
