-------------------------- MODULE MCTemplateLifecycle --------------------------
(* Two requests on one template with two versions.  ann writes; she and   *)
(* bob may review and approve, cyd may approve and administers.              *)
EXTENDS TemplateLifecycle, TLC

CONSTANTS ann, bob, cyd, r1, r2, c1, none, norole, nohash

MCRolesOf == ann :> {"reviewer", "approver"} @@ bob :> {"reviewer", "approver"} @@ cyd :> {"approver", "admin"}
MCConfigs == {[rev |-> "reviewer", app |-> "approver"], [rev |-> norole, app |-> "approver"]}

P(name, resolver, dep) ==
  [name |-> name, computed |-> FALSE, typed |-> name # "", resolver |-> resolver,
   wellFormed |-> TRUE, visibleIf |-> dep]
MCEmpty == << >>
Chain == "a" :> P("", "", "b") @@ "b" :> P("author", "author", "")
Cycle == "a" :> P("", "", "b") @@ "b" :> P("", "", "a")
MCSchemas == {MCEmpty, Chain, Cycle}
MCSymmetry == Permutations({r1, r2})
=============================================================================
