----------------------------- MODULE RouteAdmin -----------------------------
(***************************************************************************)
(* Administration of approval routes, and the submissions that copy them   *)
(* (route_admin_service.go, route_admin_handler.go, submit_service.go).    *)
(*                                                                         *)
(* All transactions run at READ COMMITTED.  Update and Deactivate take the *)
(* route's row FOR UPDATE, pass the trigger of migration 0145 and commit;  *)
(* SubmitRevisionForReview reads the route's row and its stages in two     *)
(* statements without a lock, and its INSERT takes the row FOR KEY SHARE   *)
(* through the foreign key approval_instances.route_id.  Every statement   *)
(* after which another transaction may come is a step of its own; what a   *)
(* transaction has written is seen at its commit.  If-Match is parsed and  *)
(* then ignored by the two routes that ask for it, and the idempotency key *)
(* is only required to be there: both are left out.                        *)
(***************************************************************************)
EXTENDS ApprovalRules

CONSTANTS
  Profiles,      \* document profiles a route can be for
  RouteIds,      \* ids new routes may draw
  Users,         \* callers of the routes
  Members,       \* user_process_areas that have not ended: [user, area, role]
  DocArea,       \* process area of the documents submitted
  Lists,         \* stage lists a client may send
  Txs,           \* concurrent Update and Deactivate requests
  Subs,          \* submissions
  NoTx,          \* a route's row that is not locked
  MaxVersion     \* bound on approval_routes.version

(* A stage as a client sends it; m = 0 stands for the nil QuorumM.  The      *)
(* other fields a stage has are stored and not looked at here.               *)
StageRequest == [order : Int, name : STRING, quorum : STRING, m : Int]

ASSUME RouteAssumption ==
  /\ Members \subseteq [user : Users, area : STRING, role : STRING]
  /\ Lists \subseteq Seq(StageRequest)
  /\ NoTx \notin Txs /\ MaxVersion \in Nat \ {0}

VARIABLES
  route,    \* approval_routes
  stages,   \* approval_route_stages of each route, in stage_order
  lock,     \* the transaction that holds the route's row FOR UPDATE
  adm,      \* the open Update and Deactivate transactions
  sub,      \* the submissions: idle, open or ended
  insts,    \* committed approval_instances with their stage snapshots
  list,     \* an open GET of the routes and what the last one has returned
  history   \* the stage list each version of a route was committed with

vars == <<route, stages, lock, adm, sub, insts, list, history>>

NoRoute == [active |-> FALSE, version |-> 0]
Row == [profile : Profiles, version : 1..MaxVersion, active : BOOLEAN]
Idle == [phase |-> "idle"]
Snapshot == [by : Subs, route : RouteIds, version : 1..MaxVersion, stages : Lists]

RouteTypeOK ==
  /\ route \in [RouteIds -> Row \cup {NoRoute}]
  /\ stages \in [RouteIds -> Lists \cup {<<>>}]
  /\ lock \in [RouteIds -> Txs \cup {NoTx}]
  /\ \A r \in RouteIds, t \in Txs :
       lock[r] = t <=> adm[t].phase \in {"locked", "written"} /\ adm[t].route = r
  /\ insts \subseteq Snapshot
  /\ \A r \in RouteIds :
       /\ Len(history[r]) = route[r].version
       /\ route[r] # NoRoute => stages[r] = history[r][route[r].version]
  /\ \A r, q \in RouteIds :
       r # q /\ NoRoute \notin {route[r], route[q]} => route[r].profile # route[q].profile

RouteInit ==
  /\ route = [r \in RouteIds |-> NoRoute]
  /\ stages = [r \in RouteIds |-> <<>>]
  /\ lock = [r \in RouteIds |-> NoTx]
  /\ adm = [t \in Txs |-> Idle]
  /\ sub = [s \in Subs |-> Idle]
  /\ insts = {}
  /\ list = Idle
  /\ history = [r \in RouteIds |-> <<>>]

-----------------------------------------------------------------------------
(* The request's own check: stages numbered from 1 without a gap, different  *)
(* names, m_of_n with a positive M and no other quorum with one.             *)
validateStages(l) ==
  /\ Len(l) >= 1
  /\ \A k \in 1..Len(l) : l[k].order = k /\ l[k].name # ""
  /\ \A j, k \in 1..Len(l) : j # k => l[j].name # l[k].name
  /\ \A k \in 1..Len(l) : (l[k].quorum = "m_of_n") <=> (l[k].m >= 1)

(* Route.Validate, which the services repeat. *)
Validate(l) ==
  /\ ValidRoute(l)
  /\ \A k \in 1..Len(l) : l[k].order = k
  /\ \A j, k \in 1..Len(l) : j # k => l[j].name # l[k].name

(* mapStageRequests copies field by field. *)
mapStageRequests(l) ==
  [k \in 1..Len(l) |-> [order |-> l[k].order, name |-> l[k].name,
                        quorum |-> l[k].quorum, m |-> l[k].m]]

(* Roles that migration 0158 lets submit, besides those seeded by 0142a. *)
AddedSubmitRoles == {"qms_admin", "reviewer"}

(* The rows of role_capabilities the two services ask for. *)
RolesWith(capability) ==
  CASE capability = "route.admin" -> {"qms_admin"}
    [] capability = "doc.submit"  -> {"author", "area_admin"} \cup AddedSubmitRoles

(* authz.Require: an open membership whose role has the capability, in the   *)
(* area asked for, or in any area when that is "tenant".                     *)
Require(u, capability, area) ==
  \E m \in Members :
    m.user = u /\ m.role \in RolesWith(capability) /\ area \in {"tenant", m.area}

(* insertRouteStages, in the transaction that makes version v of the route:  *)
(* UNIQUE(route_id, stage_order) needs the earlier stages deleted first.     *)
insertRouteStages(r, l) ==
  /\ stages' = [stages EXCEPT ![r] = l]
  /\ history' = [history EXCEPT ![r] = Append(@, l)]

(* Create: one transaction nobody else can see, and                          *)
(* approval_routes_tenant_profile_key refuses a second route of a profile,   *)
(* a deactivated one counted.                                                *)
Create(u, p, l) ==
  /\ Require(u, "route.admin", "tenant")
  /\ Validate(l)
  /\ \A r \in RouteIds : route[r] # NoRoute => route[r].profile # p
  /\ \E r \in RouteIds :
       /\ route[r] = NoRoute
       /\ route' = [route EXCEPT ![r] = [profile |-> p, version |-> 1, active |-> TRUE]]
       /\ insertRouteStages(r, l)
  /\ UNCHANGED <<lock, adm, sub, insts, list>>

CreateRouteHandler(u) ==
  \E p \in Profiles, l \in Lists :
    validateStages(l) /\ Create(u, p, mapStageRequests(l))

-----------------------------------------------------------------------------
(* Submissions that have inserted their instance and not ended. *)
Sharing(r) == {s \in Subs : sub[s].phase = "inserted" /\ sub[s].route = r}

(* Mutant: the row is read, not locked: the later UPDATE of a column that is *)
(* no key does not conflict with FOR KEY SHARE.                              *)
lockRouteForUpdate_NoKey(r) == route[r] # NoRoute /\ lock[r] = NoTx

(* SELECT ... FOR UPDATE: waits for other administrators and for submissions *)
(* that hold the row FOR KEY SHARE.                                          *)
lockRouteForUpdate(r) ==
  route[r] # NoRoute /\ lock[r] = NoTx /\ Sharing(r) = {}

(* Update and Deactivate up to the row lock. *)
BeginAdmin(t, u, r, op, l) ==
  /\ adm[t].phase = "idle"
  /\ Require(u, "route.admin", "tenant")
  /\ lockRouteForUpdate(r)
  /\ lock' = [lock EXCEPT ![r] = t]
  /\ adm' = [adm EXCEPT ![t] = [phase |-> "locked", op |-> op, route |-> r, list |-> l]]
  /\ UNCHANGED <<route, stages, sub, insts, list, history>>

UpdateRouteHandler(t, u, r) ==
  \E l \in Lists : validateStages(l) /\ BeginAdmin(t, u, r, "update", mapStageRequests(l))

DeactivateRouteHandler(t, u, r) == BeginAdmin(t, u, r, "deactivate", <<>>)

(* enforce_route_immutable: an instance, open or ended, references it. *)
InUse(r) == \E i \in insts : i.route = r

(* Mutant: the stages are replaced outside the transaction. *)
UpdateRow_Autocommit(t) ==
  LET r == adm[t].route
  IN /\ adm[t].phase = "locked" /\ ~InUse(r)
     /\ adm' = [adm EXCEPT ![t].phase = "written"]
     /\ stages' = [stages EXCEPT ![r] =
          IF adm[t].op = "update" THEN adm[t].list ELSE stages[r]]
     /\ UNCHANGED <<route, lock, sub, insts, list, history>>

(* The UPDATE statement, which the trigger lets through. *)
UpdateRow(t) ==
  /\ adm[t].phase = "locked"
  /\ adm[t].op = "update" => Validate(adm[t].list) /\ route[adm[t].route].version < MaxVersion
  /\ ~InUse(adm[t].route)
  /\ adm' = [adm EXCEPT ![t].phase = "written"]
  /\ UNCHANGED <<route, stages, lock, sub, insts, list, history>>

EndAdmin(t) ==
  /\ lock' = [lock EXCEPT ![adm[t].route] = NoTx]
  /\ adm' = [adm EXCEPT ![t] = [phase |-> "ended"]]

(* Update's commit: version + 1 and every stage replaced. *)
Update(t) ==
  LET r == adm[t].route
  IN /\ adm[t].phase = "written" /\ adm[t].op = "update"
     /\ route' = [route EXCEPT ![r].version = @ + 1]
     /\ insertRouteStages(r, adm[t].list)
     /\ EndAdmin(t)
     /\ UNCHANGED <<sub, insts, list>>

(* Deactivate's commit. *)
Deactivate(t) ==
  /\ adm[t].phase = "written" /\ adm[t].op = "deactivate"
  /\ route' = [route EXCEPT ![adm[t].route].active = FALSE]
  /\ EndAdmin(t)
  /\ UNCHANGED <<stages, sub, insts, list, history>>

(* ErrRouteInUse, another error or a crash: the transaction is rolled back. *)
AbortAdmin(t) ==
  /\ adm[t].phase \in {"locked", "written"}
  /\ EndAdmin(t)
  /\ UNCHANGED <<route, stages, sub, insts, list, history>>

-----------------------------------------------------------------------------
(* SubmitHandler and SubmitRevisionForReview up to loadRoute's first SELECT, *)
(* which does not ask whether the route is active.                           *)
SubmitHandler(s, u, r) ==
  /\ sub[s].phase = "idle" /\ Require(u, "doc.submit", DocArea)
  /\ route[r] # NoRoute
  /\ sub' = [sub EXCEPT ![s] = [phase |-> "route", route |-> r, version |-> route[r].version]]
  /\ UNCHANGED <<route, stages, lock, adm, insts, list, history>>

(* loadRoute's second SELECT, a snapshot of its own. *)
loadRoute(s) ==
  /\ sub[s].phase = "route"
  /\ sub' = [sub EXCEPT ![s] = [phase |-> "stages", route |-> sub[s].route,
       version |-> sub[s].version, stages |-> stages[sub[s].route]]]
  /\ UNCHANGED <<route, stages, lock, adm, insts, list, history>>

(* InsertInstance: the foreign key waits for an administrator's lock. *)
InsertInstance(s) ==
  /\ sub[s].phase = "stages" /\ Validate(sub[s].stages)
  /\ lock[sub[s].route] = NoTx
  /\ sub' = [sub EXCEPT ![s].phase = "inserted"]
  /\ UNCHANGED <<route, stages, lock, adm, insts, list, history>>

CommitSubmit(s) ==
  /\ sub[s].phase = "inserted"
  /\ insts' = insts \cup {[by |-> s, route |-> sub[s].route,
                           version |-> sub[s].version, stages |-> sub[s].stages]}
  /\ sub' = [sub EXCEPT ![s] = [phase |-> "ended"]]
  /\ UNCHANGED <<route, stages, lock, adm, list, history>>

(* A stale revision, a duplicate, an error or a crash. *)
AbortSubmit(s) ==
  /\ sub[s].phase \in {"route", "stages", "inserted"}
  /\ sub' = [sub EXCEPT ![s] = [phase |-> "ended"]]
  /\ UNCHANGED <<route, stages, lock, adm, insts, list, history>>

-----------------------------------------------------------------------------
(* ListRoutesHandler: the routes in one query, the stages of those routes in *)
(* a second one, without a transaction.  A row stands for the version whose  *)
(* name it shows.                                                            *)
ListRoutesHandler ==
  /\ \/ /\ list.phase # "rows"
        /\ list' = [phase |-> "rows", rows |->
             [r \in {q \in RouteIds : route[q] # NoRoute} |-> route[r].version]]
     \/ /\ list.phase = "rows"
        /\ list' = [phase |-> "done", rows |-> list.rows,
             stages |-> [r \in DOMAIN list.rows |-> stages[r]]]
  /\ UNCHANGED <<route, stages, lock, adm, sub, insts, history>>

RouteNext ==
  \/ \E u \in Users : CreateRouteHandler(u)
  \/ \E t \in Txs, u \in Users, r \in RouteIds :
       UpdateRouteHandler(t, u, r) \/ DeactivateRouteHandler(t, u, r)
  \/ \E t \in Txs : UpdateRow(t) \/ Update(t) \/ Deactivate(t) \/ AbortAdmin(t)
  \/ \E s \in Subs, u \in Users, r \in RouteIds : SubmitHandler(s, u, r)
  \/ \E s \in Subs : loadRoute(s) \/ InsertInstance(s) \/ CommitSubmit(s) \/ AbortSubmit(s)
  \/ ListRoutesHandler

RouteSpec == RouteInit /\ [][RouteNext]_vars

-----------------------------------------------------------------------------
(* "Immutable once referenced": from the commit of the first instance that   *)
(* references it, a route keeps its version, its stages and its flag, also   *)
(* against an administrator's transaction that was open at that commit.      *)
RouteFrozen ==
  [][\A r \in RouteIds : InUse(r) =>
       route'[r] = route[r] /\ stages'[r] = stages[r]]_vars

(* The stages an instance is reviewed by are all stages of one version of    *)
(* its route, never a mixture, a rolled-back list or a list older than the   *)
(* version the instance records.  (It may be a later one: the two SELECTs of *)
(* loadRoute can fall on either side of an update.)  The same holds of what  *)
(* a listing shows for a route.                                              *)
SnapshotWhole ==
  /\ RouteTypeOK
  /\ \A i \in insts :
       \E v \in i.version..Len(history[i.route]) : history[i.route][v] = i.stages
  /\ list.phase = "done" => \A r \in DOMAIN list.rows :
       \E v \in list.rows[r]..Len(history[r]) : v > 0 /\ history[r][v] = list.stages[r]
=============================================================================
