---------------------------- MODULE TenantManager ----------------------------
(***************************************************************************)
(* packages/tenant-manager/src: signing up (onboarding.ts), provisioning   *)
(* in the background (tenant-provisioner.ts, isolation-tiers.ts), and the  *)
(* requests of tenant-api.ts that change a tenant.                          *)
(* A tenant's namespace is named after its slug.                           *)
(***************************************************************************)
EXTENDS Naturals, FiniteSets

CONSTANTS Signup,     \* requests, each for a tenant of its own
          Slug,
          Editor,     \* requests that add a vertical
          Quota       \* values of maxAgents

VARIABLES signing,    \* signup -> where createTenantFromSignup is
          tenantRows, \* signup -> row of tenants
          provisioner,\* signup -> where provisionTenant is, and its steps
          cluster,    \* signup -> what kubectl and the migrations have made
          tracked,    \* signup -> provisioningStatus, in memory
          editing     \* editor -> where its request is

tenantVars == <<signing, tenantRows, provisioner, cluster, tracked, editing>>

IsolationTier == {"namespace", "namespace-dedicated-db", "dedicated-cluster"}

DedicatedDb(tier) == tier # "namespace"

\* A dedicated cluster is not wired yet: it gets what a namespace with a database
\* of its own gets.
BaseManifests == {"namespace", "rbac", "network-policy", "resource-quota"}

DatabaseManifests == {"postgres", "redis"}

Manifests(tier) == BaseManifests \cup (IF DedicatedDb(tier) THEN DatabaseManifests ELSE {})

TenantRow == [status : {"none", "provisioning", "active", "deprovisioning"},
              slug : Slug \cup {"none"}, tier : IsolationTier, maxAgents : Quota \cup {0},
              verticals : SUBSET Editor]

NoTenantRow == [status |-> "none", slug |-> "none", tier |-> "namespace", maxAgents |-> 0,
                verticals |-> {}]

NotSigning == [at |-> "done", slug |-> "none", tier |-> "namespace"]

ProvisionerState ==
    [at : {"done", "apply", "postgres", "redis", "migrate", "result", "activate"},
     failed : BOOLEAN]

NotProvisioning == [at |-> "done", failed |-> FALSE]

NotEditing == [at |-> "done", tenant |-> "none", seen |-> {}]

TenantTypeOK ==
    /\ signing \in [Signup -> [at : {"insert"}, slug : Slug, tier : IsolationTier]
                                 \cup {NotSigning}]
    /\ tenantRows \in [Signup -> TenantRow]
    /\ provisioner \in [Signup -> ProvisionerState]
    /\ cluster \in [Signup -> SUBSET (BaseManifests \cup DatabaseManifests \cup {"migrated"})]
    /\ tracked \in [Signup -> {"none", "provisioning", "active", "failed"}]
    /\ editing \in [Editor -> [at : {"write"}, tenant : Signup, seen : SUBSET Editor]
                                 \cup {NotEditing}]

TenantInit ==
    /\ signing = [s \in Signup |-> NotSigning]
    /\ tenantRows = [s \in Signup |-> NoTenantRow]
    /\ provisioner = [s \in Signup |-> NotProvisioning]
    /\ cluster = [s \in Signup |-> {}]
    /\ tracked = [s \in Signup |-> "none"]
    /\ editing = [e \in Editor |-> NotEditing]

SlugTaken(slug) == \E s \in Signup : tenantRows[s].slug = slug

----------------------------------------------------------------------------
(* Signing up                                                               *)

CheckSlug(s, slug, tier) ==
    /\ signing[s].at = "done"
    /\ tenantRows[s].status = "none"
    /\ ~SlugTaken(slug)
    /\ signing' = [signing EXCEPT ![s] = [at |-> "insert", slug |-> slug, tier |-> tier]]
    /\ UNCHANGED <<tenantRows, provisioner, cluster, tracked, editing>>

TrustTheCheck(slug) == TRUE   \* a defect: the column is not unique

UniqueSlug(slug) == ~SlugTaken(slug)

\* The column is unique: the insert throws when another request came first, and for
\* any other reason of the database's.
InsertTenant(s, quota) ==
    /\ signing[s].at = "insert"
    /\ signing' = [signing EXCEPT ![s] = NotSigning]
    /\ \/ /\ UniqueSlug(signing[s].slug)
          /\ tenantRows' = [tenantRows EXCEPT ![s] =
                 [status |-> "provisioning", slug |-> signing[s].slug,
                  tier |-> signing[s].tier, maxAgents |-> quota,
                  verticals |-> {}]]
          /\ tracked' = [tracked EXCEPT ![s] = "provisioning"]
          /\ provisioner' = [provisioner EXCEPT ![s] = [at |-> "apply", failed |-> FALSE]]
       \/ UNCHANGED <<tenantRows, tracked, provisioner>>
    /\ UNCHANGED <<cluster, editing>>

----------------------------------------------------------------------------
(* Provisioning: each step notes whether it succeeded and goes on, except   *)
(* that nothing follows a failed kubectl apply.                             *)

\* An apply that fails may have made some of the objects.
Apply(s) ==
    LET wanted == Manifests(tenantRows[s].tier) IN
    /\ provisioner[s].at = "apply"
    /\ \E made \in SUBSET wanted, ok \in BOOLEAN :
           /\ ok => made = wanted
           /\ cluster' = [cluster EXCEPT ![s] = @ \cup made]
           /\ provisioner' = [provisioner EXCEPT ![s] =
                  [at |-> IF ok /\ DedicatedDb(tenantRows[s].tier) THEN "postgres" ELSE "result",
                   failed |-> ~ok]]
    /\ UNCHANGED <<signing, tenantRows, tracked, editing>>

AwaitRollout(s) ==
    /\ provisioner[s].at \in {"postgres", "redis"}
    /\ \E ok \in BOOLEAN :
           provisioner' = [provisioner EXCEPT
               ![s] = [at |-> IF @.at = "postgres" THEN "redis" ELSE "migrate",
                       failed |-> @.failed \/ ~ok]]
    /\ UNCHANGED <<signing, tenantRows, cluster, tracked, editing>>

Migrate(s) ==
    /\ provisioner[s].at = "migrate"
    /\ \/ /\ cluster' = [cluster EXCEPT ![s] = @ \cup {"migrated"}]
          /\ provisioner' = [provisioner EXCEPT ![s].at = "result"]
       \/ /\ provisioner' = [provisioner EXCEPT ![s] = [at |-> "result", failed |-> TRUE]]
          /\ UNCHANGED cluster
    /\ UNCHANGED <<signing, tenantRows, tracked, editing>>

AppliedIsEnough(s) == BaseManifests \subseteq cluster[s]   \* a defect: only the first step counts

Succeeded(s) == ~provisioner[s].failed

\* The status in memory is set before the row.
ProvisioningEnds(s) ==
    /\ provisioner[s].at = "result"
    /\ tracked' = [tracked EXCEPT ![s] = IF Succeeded(s) THEN "active" ELSE "failed"]
    /\ provisioner' = [provisioner EXCEPT ![s] =
           IF Succeeded(s) THEN [at |-> "activate", failed |-> FALSE] ELSE NotProvisioning]
    /\ UNCHANGED <<signing, tenantRows, cluster, editing>>

\* Whatever the status of the row has become meanwhile.
Activate(s) ==
    /\ provisioner[s].at = "activate"
    /\ provisioner' = [provisioner EXCEPT ![s] = NotProvisioning]
    /\ \/ /\ tenantRows' = [tenantRows EXCEPT ![s].status = "active"]
          /\ UNCHANGED tracked
       \/ /\ tracked' = [tracked EXCEPT ![s] = "failed"]
          /\ UNCHANGED tenantRows
    /\ UNCHANGED <<signing, cluster, editing>>

\* What throws outside the steps: the temporary directory, a spawn.
ProvisioningThrows(s) ==
    /\ provisioner[s].at = "apply"
    /\ tracked' = [tracked EXCEPT ![s] = "failed"]
    /\ provisioner' = [provisioner EXCEPT ![s] = NotProvisioning]
    /\ UNCHANGED <<signing, tenantRows, cluster, editing>>

GetProvisioningStatus(s) == IF tracked[s] # "none" THEN tracked[s] ELSE tenantRows[s].status

----------------------------------------------------------------------------
(* Requests to an existing tenant                                           *)

Exists(s) == tenantRows[s].status # "none"

\* PATCH writes the row only: the quota object keeps what it was made with.
UpdateTenant(s, quota) ==
    /\ Exists(s)
    /\ tenantRows' = [tenantRows EXCEPT ![s].maxAgents = quota]
    /\ UNCHANGED <<signing, provisioner, cluster, tracked, editing>>

DeleteTenant(s) ==
    /\ Exists(s)
    /\ tenantRows' = [tenantRows EXCEPT ![s].status = "deprovisioning"]
    /\ UNCHANGED <<signing, provisioner, cluster, tracked, editing>>

\* The list of verticals is read, extended and written back.
ReadVerticals(e, s) ==
    /\ editing[e].at = "done"
    /\ Exists(s)
    /\ e \notin tenantRows[s].verticals
    /\ editing' = [editing EXCEPT ![e] = [at |-> "write", tenant |-> s,
                                          seen |-> tenantRows[s].verticals]]
    /\ UNCHANGED <<signing, tenantRows, provisioner, cluster, tracked>>

WriteVerticals(e) ==
    /\ editing[e].at = "write"
    /\ \/ tenantRows' = [tenantRows EXCEPT
              ![editing[e].tenant].verticals = editing[e].seen \cup {e}]
       \/ UNCHANGED tenantRows   \* the update throws
    /\ editing' = [editing EXCEPT ![e] = NotEditing]
    /\ UNCHANGED <<signing, provisioner, cluster, tracked>>

\* What was under way ends where it was; nothing resumes it.
RestartTenantManager ==
    /\ signing' = [s \in Signup |-> NotSigning]
    /\ provisioner' = [s \in Signup |-> NotProvisioning]
    /\ tracked' = [s \in Signup |-> "none"]
    /\ editing' = [e \in Editor |-> NotEditing]
    /\ UNCHANGED <<tenantRows, cluster>>

ProvisionStep(s) ==
    Apply(s) \/ AwaitRollout(s) \/ Migrate(s) \/ ProvisioningEnds(s) \/ Activate(s)
             \/ ProvisioningThrows(s)

TenantNext ==
    \/ \E s \in Signup :
           \/ \E slug \in Slug, tier \in IsolationTier : CheckSlug(s, slug, tier)
           \/ \E quota \in Quota : InsertTenant(s, quota) \/ UpdateTenant(s, quota)
           \/ ProvisionStep(s)
           \/ DeleteTenant(s)
           \/ \E e \in Editor : ReadVerticals(e, s)
    \/ \E e \in Editor : WriteVerticals(e)
    \/ RestartTenantManager

TenantSpec == TenantInit /\ [][TenantNext]_tenantVars

----------------------------------------------------------------------------
\* Two tenants never share a slug, and with it a namespace, although the signups
\* check it before they insert.
SlugsAreUnique ==
    \A s, t \in Signup : (Exists(s) /\ Exists(t) /\ tenantRows[s].slug = tenantRows[t].slug) => s = t

\* A tenant is active, in the row or for those who ask for its status, only with
\* every step behind it: its objects are all there and, when it has a database of its
\* own, the schema is in it; a restart in the middle never lets it through, nor do
\* rollouts and migrations that fail one after the other.
ActiveIsProvisioned ==
    \A s \in Signup :
        (tenantRows[s].status = "active" \/ tracked[s] = "active") =>
            /\ Manifests(tenantRows[s].tier) \subseteq cluster[s]
            /\ DedicatedDb(tenantRows[s].tier) => "migrated" \in cluster[s]
=============================================================================
