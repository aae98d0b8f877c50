--------------------------- MODULE BackOfficeProofs ---------------------------
(***************************************************************************)
(* Proofs about the services behind the agents, each for any sets of       *)
(* policies, tenants, workers, memories and so on.                         *)
(***************************************************************************)
EXTENDS MCBackOffice, CollectionProofs, SequenceTheorems

-----------------------------------------------------------------------------
(* Insurance.                                                              *)

\* Every variable of the insurance keeps its type.
THEOREM InsuranceTypeCorrect == InsuranceSpec => []InsuranceTypeOK
  <1>1. InsuranceInit => InsuranceTypeOK
    BY DEF InsuranceInit, InsuranceTypeOK
  <1>2. InsuranceTypeOK /\ [InsuranceNext]_insuranceVars => InsuranceTypeOK'
    <2> SUFFICES ASSUME InsuranceTypeOK, [InsuranceNext]_insuranceVars
                 PROVE  InsuranceTypeOK'
      OBVIOUS
    <2> USE DEF InsuranceTypeOK
    <2>1. ASSUME NEW p \in Policy, CreatePolicy(p) \/ Lapse(p) \/ CheckPolicy(p)
          PROVE  InsuranceTypeOK'
      BY <2>1 DEF CreatePolicy, Lapse, CheckPolicy
    <2>2. ASSUME NEW p \in Policy, NEW f \in Filer, FileClaim(f, p)
          PROVE  InsuranceTypeOK'
      BY <2>2 DEF FileClaim
    <2>3. ASSUME NEW f \in Filer, MarkClaimed(f) PROVE InsuranceTypeOK'
      <3>1. filing[f] \in [at : {"mark", "insert"}, policy : Policy]
        BY <2>3 DEF MarkClaimed, NotFiling
      <3> QED BY <2>3, <3>1 DEF MarkClaimed
    <2>4. ASSUME NEW f \in Filer, InsertClaim(f) PROVE InsuranceTypeOK'
      <3>1. filing[f] \in [at : {"mark", "insert"}, policy : Policy]
        BY <2>4 DEF InsertClaim, NotFiling
      <3>2. [policy |-> filing[f].policy, by |-> f, resolved |-> FALSE]
                \in [policy : Policy, by : Filer, resolved : BOOLEAN]
        BY <3>1
      <3>3. claims' \subseteq [policy : Policy, by : Filer, resolved : BOOLEAN]
        BY <2>4, <3>2, Zenon DEF InsertClaim
      <3> QED BY <2>4, <3>3 DEF InsertClaim
    <2>5. ASSUME NEW f \in Filer, FilingFails(f) PROVE InsuranceTypeOK'
      BY <2>5 DEF FilingFails
    <2>6. ASSUME NEW c \in claims, ResolveClaim(c) PROVE InsuranceTypeOK'
      BY <2>6 DEF ResolveClaim
    <2>7. CASE CheckSlaCompliance BY <2>7 DEF CheckSlaCompliance
    <2>8. CASE UNCHANGED insuranceVars BY <2>8 DEF insuranceVars
    <2> QED BY <2>1, <2>2, <2>3, <2>4, <2>5, <2>6, <2>7, <2>8 DEF InsuranceNext
  <1> QED BY <1>1, <1>2, PTL DEF InsuranceSpec

\* A filer about to insert has marked its policy, whatever has happened to it since;
\* no policy under claim or under check can be created again.
FilersHaveMarked ==
    /\ \A f \in Filer : filing[f].at = "mark" => policyStatus[filing[f].policy] # "none"
    /\ \A f \in Filer : filing[f].at = "insert" =>
           policyStatus[filing[f].policy] \in {"claimed", "expired"}
    /\ \A p \in checking : policyStatus[p] # "none"

InsuranceInv == InsuranceTypeOK /\ FilersHaveMarked /\ ClaimsSpendThePolicy

\* A policy never becomes open for claims again.
LEMMA StatusOnlySinks ==
    ASSUME InsuranceInv, InsuranceTypeOK', FilersHaveMarked,
           NEW p \in Policy, [InsuranceNext]_insuranceVars
    PROVE  /\ policyStatus[p] # "none" => policyStatus'[p] # "none"
           /\ policyStatus[p] \in {"claimed", "expired"} =>
                  policyStatus'[p] \in {"claimed", "expired"}
  BY DEF InsuranceInv, InsuranceTypeOK, FilersHaveMarked, InsuranceNext, insuranceVars,
         CreatePolicy, Lapse, CheckPolicy, FileClaim, MarkClaimed, InsertClaim, FilingFails,
         ResolveClaim, CheckSlaCompliance

\* A claim that has been filed leaves its policy closed, however filers, the check of
\* compliance and failures between the statements interleave.
THEOREM FiledClaimsSpendThePolicy == InsuranceSpec => []ClaimsSpendThePolicy
  <1>1. InsuranceInit => FilersHaveMarked /\ ClaimsSpendThePolicy
    BY DEF InsuranceInit, FilersHaveMarked, ClaimsSpendThePolicy, NotFiling
  <1>2. InsuranceInv /\ InsuranceTypeOK' /\ [InsuranceNext]_insuranceVars
            => FilersHaveMarked' /\ ClaimsSpendThePolicy'
    <2> SUFFICES ASSUME InsuranceInv, InsuranceTypeOK', [InsuranceNext]_insuranceVars
                 PROVE  FilersHaveMarked' /\ ClaimsSpendThePolicy'
      OBVIOUS
    <2> USE DEF InsuranceInv, InsuranceTypeOK, FilersHaveMarked, ClaimsSpendThePolicy
    <2>1. \A p \in Policy :
              /\ policyStatus[p] # "none" => policyStatus'[p] # "none"
              /\ policyStatus[p] \in {"claimed", "expired"} =>
                     policyStatus'[p] \in {"claimed", "expired"}
      BY StatusOnlySinks
    <2>2. ASSUME NEW p \in Policy, CreatePolicy(p) \/ Lapse(p) \/ CheckPolicy(p)
          PROVE  FilersHaveMarked' /\ ClaimsSpendThePolicy'
      BY <2>1, <2>2 DEF CreatePolicy, Lapse, CheckPolicy, NotFiling
    <2>3. ASSUME NEW p \in Policy, NEW f \in Filer, FileClaim(f, p)
          PROVE  FilersHaveMarked' /\ ClaimsSpendThePolicy'
      BY <2>1, <2>3 DEF FileClaim
    <2>4. ASSUME NEW f \in Filer, MarkClaimed(f)
          PROVE  FilersHaveMarked' /\ ClaimsSpendThePolicy'
      BY <2>1, <2>4 DEF MarkClaimed, NotFiling
    <2>5. ASSUME NEW f \in Filer, InsertClaim(f)
          PROVE  FilersHaveMarked' /\ ClaimsSpendThePolicy'
      BY <2>1, <2>5 DEF InsertClaim, NotFiling
    <2>6. ASSUME NEW f \in Filer, FilingFails(f)
          PROVE  FilersHaveMarked' /\ ClaimsSpendThePolicy'
      BY <2>6 DEF FilingFails, NotFiling
    <2>7. ASSUME NEW c \in claims, ResolveClaim(c)
          PROVE  FilersHaveMarked' /\ ClaimsSpendThePolicy'
      BY <2>7 DEF ResolveClaim
    <2>8. CASE CheckSlaCompliance BY <2>8 DEF CheckSlaCompliance
    <2>9. CASE UNCHANGED insuranceVars BY <2>9 DEF insuranceVars
    <2> QED BY <2>2, <2>3, <2>4, <2>5, <2>6, <2>7, <2>8, <2>9 DEF InsuranceNext
  <1>3. InsuranceSpec => []InsuranceTypeOK
    BY InsuranceTypeCorrect
  <1> QED BY <1>1, <1>2, <1>3, PTL DEF InsuranceSpec, InsuranceInv

-----------------------------------------------------------------------------
(* Grants of authority.                                                    *)

\* Grants are grants and the clock is a time.
THEOREM AuthorityTypeCorrect == AuthoritySpec => []AuthorityTypeOK
  <1> USE AuthorityAssumption
  <1>1. AuthorityInit => AuthorityTypeOK
    BY DEF AuthorityInit, AuthorityTypeOK
  <1>2. AuthorityTypeOK /\ [AuthorityNext]_authorityVars => AuthorityTypeOK'
    BY DEF AuthorityTypeOK, AuthorityNext, authorityVars, GiveGrant, RevokeExpired, Active, Tick
  <1> QED BY <1>1, <1>2, PTL DEF AuthoritySpec

\* Whoever asks cannot tell whether the timer has thrown expired grants away.
THEOREM RevocationChangesNoAnswer == AuthoritySpec => RevocationIsInvisible
  <1> DEFINE Invisible ==
                 now' = now =>
                     \A a \in Grantee, s \in Scope :
                         /\ CheckAuthority(a, s) => CheckAuthority(a, s)'
                         /\ CheckAuthority(a, s)' =>
                                \E g \in grants[a] \cup grants'[a] :
                                    g.scope = s /\ g.expiresAt > now
  <1>1. AuthorityTypeOK /\ [AuthorityNext]_authorityVars => [Invisible]_authorityVars
    <2> SUFFICES ASSUME AuthorityTypeOK, AuthorityNext, now' = now,
                        NEW a \in Grantee, NEW s \in Scope
                 PROVE  /\ CheckAuthority(a, s) => CheckAuthority(a, s)'
                        /\ CheckAuthority(a, s)' =>
                               \E g \in grants[a] \cup grants'[a] :
                                   g.scope = s /\ g.expiresAt > now
      BY DEF authorityVars, CheckAuthority
    <2>1. CheckAuthority(a, s)' =>
              \E g \in grants[a] \cup grants'[a] : g.scope = s /\ g.expiresAt > now
      BY DEF CheckAuthority
    <2>2. \A g \in grants[a] : g.expiresAt > now => ~Expired(g)
      BY DEF AuthorityTypeOK, Grant, Expired
    <2>3. \A g \in grants[a] : g.expiresAt > now => g \in grants'[a]
      <3>1. ASSUME NEW b \in Grantee, NEW g \in Grant, GiveGrant(b, g)
            PROVE  grants[a] \subseteq grants'[a]
        BY <3>1 DEF GiveGrant, AuthorityTypeOK
      <3>2. CASE RevokeExpired BY <2>2, <3>2 DEF RevokeExpired, Active
      <3>3. CASE Tick BY <3>3 DEF Tick
      <3> QED BY <3>1, <3>2, <3>3 DEF AuthorityNext
    <2>4. CheckAuthority(a, s) => CheckAuthority(a, s)'
      BY <2>3 DEF CheckAuthority
    <2> QED BY <2>1, <2>4
  <1> QED
    BY <1>1, AuthorityTypeCorrect, PTL DEF AuthoritySpec, RevocationIsInvisible

-----------------------------------------------------------------------------
(* Tenants.                                                                *)

\* The initial state has the types.
LEMMA TenantInitType == TenantInit => TenantTypeOK
  BY DEF TenantInit, TenantTypeOK, NotSigning, NoTenantRow, NotProvisioning, NotEditing,
         ProvisionerState, TenantRow, IsolationTier

\* What is written over a row leaves a row.
LEMMA WrittenTenantRows ==
    ASSUME NEW row \in TenantRow
    PROVE  /\ [row EXCEPT !.status = "active"] \in TenantRow
           /\ [row EXCEPT !.status = "deprovisioning"] \in TenantRow
           /\ \A quota \in Quota : [row EXCEPT !.maxAgents = quota] \in TenantRow
           /\ \A seen \in SUBSET Editor : [row EXCEPT !.verticals = seen] \in TenantRow
  BY DEF TenantRow

\* None of these touches the slug or the tier, and only the first two the status.
LEMMA WrittenRowsKeepTheirNames ==
    ASSUME NEW row \in TenantRow, NEW quota, NEW seen
    PROVE  /\ [row EXCEPT !.status = "deprovisioning"].status = "deprovisioning"
           /\ [row EXCEPT !.status = "deprovisioning"].slug = row.slug
           /\ [row EXCEPT !.status = "deprovisioning"].tier = row.tier
           /\ [row EXCEPT !.maxAgents = quota].status = row.status
           /\ [row EXCEPT !.maxAgents = quota].slug = row.slug
           /\ [row EXCEPT !.maxAgents = quota].tier = row.tier
           /\ [row EXCEPT !.verticals = seen].status = row.status
           /\ [row EXCEPT !.verticals = seen].slug = row.slug
           /\ [row EXCEPT !.verticals = seen].tier = row.tier
  BY DEF TenantRow

\* Every step keeps the types.
LEMMA TenantNextType == TenantTypeOK /\ [TenantNext]_tenantVars => TenantTypeOK'
  <1> SUFFICES ASSUME TenantTypeOK, [TenantNext]_tenantVars PROVE TenantTypeOK'
    OBVIOUS
  <1> USE DEF TenantTypeOK
  <1>0. ASSUME NEW s \in Signup, NEW row \in TenantRow,
               tenantRows' = [tenantRows EXCEPT ![s] = row]
        PROVE  tenantRows' \in [Signup -> TenantRow]
    BY <1>0
  <1>1. ASSUME NEW s \in Signup, NEW slug \in Slug, NEW tier \in IsolationTier,
               CheckSlug(s, slug, tier)
        PROVE  TenantTypeOK'
    BY <1>1 DEF CheckSlug
  <1>2. ASSUME NEW s \in Signup, NEW quota \in Quota, InsertTenant(s, quota)
        PROVE  TenantTypeOK'
    <2>1. signing[s] \in [at : {"insert"}, slug : Slug, tier : IsolationTier]
      BY <1>2 DEF InsertTenant, NotSigning
    <2> DEFINE row == [status |-> "provisioning", slug |-> signing[s].slug,
                       tier |-> signing[s].tier, maxAgents |-> quota, verticals |-> {}]
    <2>2. row \in TenantRow BY <2>1 DEF TenantRow
    <2>3. tenantRows' = [tenantRows EXCEPT ![s] = row] \/ UNCHANGED tenantRows
      BY <1>2 DEF InsertTenant
    <2> HIDE DEF row
    <2>4. tenantRows' \in [Signup -> TenantRow] BY <2>2, <2>3, <1>0
    <2>5. provisioner' \in [Signup -> ProvisionerState]
      <3>1. [at |-> "apply", failed |-> FALSE] \in ProvisionerState BY DEF ProvisionerState
      <3> QED BY <1>2, <3>1 DEF InsertTenant
    <2> QED BY <1>2, <2>4, <2>5 DEF InsertTenant
  <1>3. ASSUME NEW s \in Signup, Apply(s) PROVE TenantTypeOK'
    <2>1. Manifests(tenantRows[s].tier) \subseteq BaseManifests \cup DatabaseManifests
      BY DEF Manifests
    <2>2. PICK made \in SUBSET Manifests(tenantRows[s].tier), ok \in BOOLEAN :
              /\ cluster' = [cluster EXCEPT ![s] = @ \cup made]
              /\ provisioner' = [provisioner EXCEPT ![s] =
                     [at |-> IF ok /\ DedicatedDb(tenantRows[s].tier) THEN "postgres"
                                                                      ELSE "result",
                      failed |-> ~ok]]
      BY <1>3 DEF Apply
    <2>3. cluster' \in [Signup -> SUBSET (BaseManifests \cup DatabaseManifests
                                                         \cup {"migrated"})]
      BY <2>1, <2>2
    <2>4. provisioner' \in [Signup -> ProvisionerState]
      <3>1. [at |-> IF ok /\ DedicatedDb(tenantRows[s].tier) THEN "postgres" ELSE "result",
             failed |-> ~ok] \in ProvisionerState
        BY DEF ProvisionerState
      <3> QED BY <2>2, <3>1
    <2> QED BY <1>3, <2>3, <2>4 DEF Apply
  <1>4. ASSUME NEW s \in Signup, AwaitRollout(s) PROVE TenantTypeOK'
    <2>1. \A p \in ProvisionerState, ok \in BOOLEAN :
              [at |-> IF p.at = "postgres" THEN "redis" ELSE "migrate",
               failed |-> p.failed \/ ~ok] \in ProvisionerState
      BY DEF ProvisionerState
    <2>2. provisioner' \in [Signup -> ProvisionerState]
      <3>1. PICK ok \in BOOLEAN : provisioner' = [provisioner EXCEPT
                ![s] = [at |-> IF @.at = "postgres" THEN "redis" ELSE "migrate",
                        failed |-> @.failed \/ ~ok]]
        BY <1>4 DEF AwaitRollout
      <3>2. provisioner[s] \in ProvisionerState OBVIOUS
      <3> QED BY <2>1, <3>1, <3>2
    <2> QED BY <1>4, <2>2 DEF AwaitRollout
  <1>4a. ASSUME NEW s \in Signup, Migrate(s) PROVE TenantTypeOK'
    <2>1. provisioner' \in [Signup -> ProvisionerState]
      <3>1. /\ [provisioner[s] EXCEPT !.at = "result"] \in ProvisionerState
            /\ [at |-> "result", failed |-> TRUE] \in ProvisionerState
        BY DEF ProvisionerState
      <3>2. PICK p \in ProvisionerState : provisioner' = [provisioner EXCEPT ![s] = p]
        BY <1>4a, <3>1, Zenon DEF Migrate
      <3> QED BY <3>2
    <2> QED BY <1>4a, <2>1 DEF Migrate
  <1>5. ASSUME NEW s \in Signup, ProvisioningEnds(s) \/ ProvisioningThrows(s)
        PROVE  TenantTypeOK'
    <2>1. provisioner' \in [Signup -> ProvisionerState]
      <3>1. [at |-> "activate", failed |-> FALSE] \in ProvisionerState
                /\ NotProvisioning \in ProvisionerState
        BY DEF ProvisionerState, NotProvisioning
      <3> QED BY <1>5, <3>1 DEF ProvisioningEnds, ProvisioningThrows
    <2> QED BY <1>5, <2>1 DEF ProvisioningEnds, ProvisioningThrows
  <1>6. ASSUME NEW s \in Signup, Activate(s) PROVE TenantTypeOK'
    <2>1. tenantRows' \in [Signup -> TenantRow]
      BY <1>0, <1>6, WrittenTenantRows DEF Activate
    <2>2. provisioner' \in [Signup -> ProvisionerState]
      BY <1>6 DEF Activate, NotProvisioning, ProvisionerState
    <2> QED BY <1>6, <2>1, <2>2 DEF Activate
  <1>7. ASSUME NEW s \in Signup, NEW quota \in Quota, UpdateTenant(s, quota)
        PROVE  TenantTypeOK'
    <2>1. tenantRows' \in [Signup -> TenantRow]
      BY <1>0, <1>7, WrittenTenantRows DEF UpdateTenant
    <2> QED BY <1>7, <2>1 DEF UpdateTenant
  <1>8. ASSUME NEW s \in Signup, DeleteTenant(s) PROVE TenantTypeOK'
    <2>1. tenantRows' \in [Signup -> TenantRow]
      BY <1>0, <1>8, WrittenTenantRows DEF DeleteTenant
    <2> QED BY <1>8, <2>1 DEF DeleteTenant
  <1>9. ASSUME NEW s \in Signup, NEW e \in Editor, ReadVerticals(e, s) PROVE TenantTypeOK'
    <2>1. tenantRows[s].verticals \in SUBSET Editor BY DEF TenantRow
    <2> QED BY <1>9, <2>1 DEF ReadVerticals
  <1>10. ASSUME NEW e \in Editor, WriteVerticals(e) PROVE TenantTypeOK'
    <2>1. editing[e] \in [at : {"write"}, tenant : Signup, seen : SUBSET Editor]
      BY <1>10 DEF WriteVerticals, NotEditing
    <2>2. tenantRows[editing[e].tenant] \in TenantRow BY <2>1
    <2>3. editing[e].seen \cup {e} \in SUBSET Editor BY <2>1
    <2>4. tenantRows' \in [Signup -> TenantRow]
      BY <1>0, <1>10, <2>1, <2>2, <2>3, WrittenTenantRows DEF WriteVerticals
    <2> QED BY <1>10, <2>4 DEF WriteVerticals
  <1>11. CASE RestartTenantManager
    BY <1>11 DEF RestartTenantManager, NotProvisioning, ProvisionerState
  <1>12. CASE UNCHANGED tenantVars BY <1>12 DEF tenantVars
  <1> QED
    BY <1>1, <1>2, <1>3, <1>4, <1>4a, <1>5, <1>6, <1>7, <1>8, <1>9, <1>10, <1>11, <1>12
       DEF TenantNext, ProvisionStep

\* Signing up, provisioning and the requests to a tenant keep the types.
THEOREM TenantTypeCorrect == TenantSpec => []TenantTypeOK
  BY TenantInitType, TenantNextType, PTL DEF TenantSpec

Provisioned(s) ==
    /\ Manifests(tenantRows[s].tier) \subseteq cluster[s]
    /\ DedicatedDb(tenantRows[s].tier) => "migrated" \in cluster[s]

\* What each step of a provisioning has behind it: a row, then the objects, and after
\* the last of the steps that have not failed everything.
StepsAreBehind ==
    \A s \in Signup :
        /\ provisioner[s].at # "done" => Exists(s)
        /\ provisioner[s].at \in {"postgres", "redis", "migrate"} =>
               Manifests(tenantRows[s].tier) \subseteq cluster[s]
        /\ provisioner[s].at = "result" /\ Succeeded(s) => Provisioned(s)
        /\ provisioner[s].at = "activate" => Provisioned(s)

TenantInv == TenantTypeOK /\ StepsAreBehind /\ SlugsAreUnique /\ ActiveIsProvisioned

\* Before anyone has signed up there is nothing to be behind with.
LEMMA InitTenantInv == TenantInit => StepsAreBehind /\ SlugsAreUnique /\ ActiveIsProvisioned
  BY DEF TenantInit, StepsAreBehind, SlugsAreUnique, ActiveIsProvisioned, Exists, NoTenantRow,
         NotProvisioning

\* A new row takes a slug no row has; a step of a provisioning leaves the rows' slugs
\* and tiers alone and takes nothing from the cluster.
LEMMA NextTenantInv ==
    TenantInv /\ TenantTypeOK' /\ [TenantNext]_tenantVars
        => StepsAreBehind' /\ SlugsAreUnique' /\ ActiveIsProvisioned'
  <1> SUFFICES ASSUME TenantInv, TenantTypeOK', [TenantNext]_tenantVars
               PROVE  StepsAreBehind' /\ SlugsAreUnique' /\ ActiveIsProvisioned'
    OBVIOUS
  <1> DEFINE Goal == StepsAreBehind' /\ SlugsAreUnique' /\ ActiveIsProvisioned'
  <1> USE DEF TenantInv, TenantTypeOK, TenantRow, ProvisionerState, Exists, Provisioned,
              Succeeded
  <1>1. ASSUME NEW s \in Signup, NEW quota \in Quota, InsertTenant(s, quota) PROVE Goal
    <2>1. CASE UNCHANGED tenantRows
      BY <1>1, <2>1 DEF InsertTenant, StepsAreBehind, SlugsAreUnique, ActiveIsProvisioned
    <2>2. CASE tenantRows' # tenantRows
      <3> DEFINE row == [status |-> "provisioning", slug |-> signing[s].slug,
                         tier |-> signing[s].tier, maxAgents |-> quota, verticals |-> {}]
      <3>1. /\ UniqueSlug(signing[s].slug)
            /\ tenantRows' = [tenantRows EXCEPT ![s] = row]
            /\ tracked' = [tracked EXCEPT ![s] = "provisioning"]
            /\ provisioner' = [provisioner EXCEPT ![s] = [at |-> "apply", failed |-> FALSE]]
            /\ UNCHANGED cluster
        BY <1>1, <2>2 DEF InsertTenant
      <3>2. row.status = "provisioning" /\ row.slug = signing[s].slug
        OBVIOUS
      <3> HIDE DEF row
      <3>3. /\ tenantRows'[s].status = "provisioning"
            /\ tenantRows'[s].slug = signing[s].slug
            /\ tracked'[s] = "provisioning"
            /\ provisioner'[s].at = "apply"
        BY <3>1, <3>2
      <3>4. \A t \in Signup \ {s} : /\ tenantRows'[t] = tenantRows[t]
                                    /\ tracked'[t] = tracked[t]
                                    /\ provisioner'[t] = provisioner[t]
        BY <3>1
      <3>5. \A t \in Signup : tenantRows[t].slug # signing[s].slug
        BY <3>1 DEF UniqueSlug, SlugTaken
      <3>6. SlugsAreUnique'
        <4> SUFFICES ASSUME NEW t \in Signup, NEW u \in Signup, Exists(t)', Exists(u)',
                            tenantRows'[t].slug = tenantRows'[u].slug
                     PROVE  t = u
          BY DEF SlugsAreUnique
        <4>1. CASE t # s /\ u # s
          <5>1. tenantRows'[t] = tenantRows[t] /\ tenantRows'[u] = tenantRows[u]
            BY <3>4, <4>1
          <5>2. Exists(t) /\ Exists(u) /\ tenantRows[t].slug = tenantRows[u].slug
            BY <5>1
          <5> QED BY <5>2 DEF SlugsAreUnique
        <4>2. CASE t = s \/ u = s BY <3>3, <3>4, <3>5, <4>2
        <4> QED BY <4>1, <4>2
      <3>7. StepsAreBehind' BY <3>1, <3>3, <3>4 DEF StepsAreBehind
      <3>8. ActiveIsProvisioned' BY <3>1, <3>3, <3>4 DEF ActiveIsProvisioned
      <3> QED BY <3>6, <3>7, <3>8
    <2> QED BY <1>1, <2>1, <2>2 DEF InsertTenant
  <1>2. ASSUME NEW s \in Signup, Apply(s) PROVE Goal
    <2>1. PICK made \in SUBSET Manifests(tenantRows[s].tier), ok \in BOOLEAN :
              /\ ok => made = Manifests(tenantRows[s].tier)
              /\ cluster' = [cluster EXCEPT ![s] = @ \cup made]
              /\ provisioner' = [provisioner EXCEPT ![s] =
                     [at |-> IF ok /\ DedicatedDb(tenantRows[s].tier) THEN "postgres"
                                                                      ELSE "result",
                      failed |-> ~ok]]
      BY <1>2 DEF Apply
    <2>2. UNCHANGED <<tenantRows, tracked>> BY <1>2 DEF Apply
    <2>3. \A t \in Signup : cluster[t] \subseteq cluster'[t] BY <2>1
    <2>4. ok => Manifests(tenantRows[s].tier) \subseteq cluster'[s] BY <2>1
    <2>5. provisioner'[s].at \in {"postgres", "result"}
      BY <2>1
    <2>6. provisioner'[s].at = "postgres" => ok BY <2>1
    <2>7. provisioner'[s].at = "result" /\ ~provisioner'[s].failed =>
              ok /\ ~DedicatedDb(tenantRows[s].tier)
      BY <2>1
    <2>8. \A t \in Signup \ {s} : provisioner'[t] = provisioner[t] BY <2>1
    <2>9. provisioner[s].at = "apply" BY <1>2 DEF Apply
    <2>10. SlugsAreUnique' BY <2>2 DEF SlugsAreUnique
    <2>11. ActiveIsProvisioned' BY <2>2, <2>3 DEF ActiveIsProvisioned
    <2>12. ASSUME NEW t \in Signup
           PROVE  (/\ provisioner[t].at # "done" => Exists(t)
                   /\ provisioner[t].at \in {"postgres", "redis", "migrate"} =>
                          Manifests(tenantRows[t].tier) \subseteq cluster[t]
                   /\ provisioner[t].at = "result" /\ Succeeded(t) => Provisioned(t)
                   /\ provisioner[t].at = "activate" => Provisioned(t))'
      <3>1. CASE t = s
        BY <2>2, <2>4, <2>5, <2>6, <2>7, <2>9, <3>1 DEF StepsAreBehind
      <3>2. CASE t # s BY <2>2, <2>3, <2>8, <3>2 DEF StepsAreBehind
      <3> QED BY <3>1, <3>2
    <2> QED BY <2>10, <2>11, <2>12 DEF StepsAreBehind
  <1>3. ASSUME NEW s \in Signup, AwaitRollout(s) PROVE Goal
    <2>1. PICK ok \in BOOLEAN : provisioner' = [provisioner EXCEPT
              ![s] = [at |-> IF @.at = "postgres" THEN "redis" ELSE "migrate",
                      failed |-> @.failed \/ ~ok]]
      BY <1>3 DEF AwaitRollout
    <2>2. provisioner'[s].at \in {"redis", "migrate"} BY <2>1
    <2>3. \A t \in Signup \ {s} : provisioner'[t] = provisioner[t] BY <2>1
    <2>4. UNCHANGED <<tenantRows, tracked, cluster>> BY <1>3 DEF AwaitRollout
    <2>5. provisioner[s].at \in {"postgres", "redis"} BY <1>3 DEF AwaitRollout
    <2>6. StepsAreBehind' BY <2>2, <2>3, <2>4, <2>5 DEF StepsAreBehind
    <2> QED BY <2>4, <2>6 DEF SlugsAreUnique, ActiveIsProvisioned
  <1>4. ASSUME NEW s \in Signup, Migrate(s) PROVE Goal
    <2>1. UNCHANGED <<tenantRows, tracked>> BY <1>4 DEF Migrate
    <2>2. \A t \in Signup : cluster[t] \subseteq cluster'[t]
      <3>1. CASE cluster' = [cluster EXCEPT ![s] = @ \cup {"migrated"}] BY <3>1
      <3>2. CASE UNCHANGED cluster BY <3>2
      <3> QED BY <1>4, <3>1, <3>2 DEF Migrate
    <2>3. provisioner[s].at = "migrate" BY <1>4 DEF Migrate
    <2>4. \A t \in Signup \ {s} : provisioner'[t] = provisioner[t] BY <1>4 DEF Migrate
    <2>5. provisioner'[s].at = "result" /\ (Succeeded(s)' => "migrated" \in cluster'[s])
      <3>1. CASE /\ cluster' = [cluster EXCEPT ![s] = @ \cup {"migrated"}]
                 /\ provisioner' = [provisioner EXCEPT ![s].at = "result"]
        BY <3>1
      <3>2. CASE provisioner' = [provisioner EXCEPT ![s] = [at |-> "result", failed |-> TRUE]]
        BY <3>2
      <3> QED BY <1>4, <3>1, <3>2 DEF Migrate
    <2>6. Manifests(tenantRows[s].tier) \subseteq cluster[s] /\ Exists(s)
      BY <2>3 DEF StepsAreBehind
    <2>7. StepsAreBehind' BY <2>1, <2>2, <2>4, <2>5, <2>6 DEF StepsAreBehind
    <2> QED BY <2>1, <2>2, <2>7 DEF SlugsAreUnique, ActiveIsProvisioned
  <1>5. ASSUME NEW s \in Signup, ProvisioningEnds(s) PROVE Goal
    BY <1>5 DEF ProvisioningEnds, StepsAreBehind, SlugsAreUnique, ActiveIsProvisioned,
                NotProvisioning
  <1>6. ASSUME NEW s \in Signup, Activate(s) PROVE Goal
    <2>1. Provisioned(s) /\ Exists(s) BY <1>6 DEF Activate, StepsAreBehind
    <2>2. \A t \in Signup : /\ tenantRows'[t].slug = tenantRows[t].slug
                            /\ tenantRows'[t].tier = tenantRows[t].tier
                            /\ t # s => tenantRows'[t].status = tenantRows[t].status
                            /\ Exists(t)' <=> Exists(t)
      BY <1>6, <2>1 DEF Activate
    <2>3. SlugsAreUnique' BY <2>2 DEF SlugsAreUnique
    <2>4. StepsAreBehind' BY <1>6, <2>2 DEF StepsAreBehind, Activate, NotProvisioning
    <2>5. ActiveIsProvisioned' BY <1>6, <2>1, <2>2 DEF ActiveIsProvisioned, Activate
    <2> QED BY <2>3, <2>4, <2>5
  <1>7. ASSUME NEW s \in Signup, ProvisioningThrows(s) PROVE Goal
    BY <1>7 DEF ProvisioningThrows, StepsAreBehind, SlugsAreUnique, ActiveIsProvisioned,
                NotProvisioning
  <1>8. ASSUME UNCHANGED <<provisioner, cluster, tracked>>,
               \A t \in Signup : /\ tenantRows'[t].slug = tenantRows[t].slug
                                 /\ tenantRows'[t].tier = tenantRows[t].tier
                                 /\ tenantRows'[t].status = "active"
                                        => tenantRows[t].status = "active"
                                 /\ Exists(t)' <=> Exists(t)
        PROVE  Goal
    BY <1>8 DEF StepsAreBehind, SlugsAreUnique, ActiveIsProvisioned
  <1> HIDE DEF Goal, TenantRow
  <1>9. ASSUME NEW s \in Signup, UNCHANGED <<provisioner, cluster, tracked>>,
               NEW row, row \in TenantRow, tenantRows' = [tenantRows EXCEPT ![s] = row],
               row.slug = tenantRows[s].slug, row.tier = tenantRows[s].tier,
               row.status = "active" => tenantRows[s].status = "active",
               row.status # "none" <=> tenantRows[s].status # "none"
        PROVE  Goal
    <2>1. tenantRows'[s] = row /\ \A t \in Signup \ {s} : tenantRows'[t] = tenantRows[t]
      BY <1>9
    <2> QED BY <1>8, <1>9, <2>1
  <1>13. ASSUME NEW s \in Signup, NEW slug, NEW tier, CheckSlug(s, slug, tier) PROVE Goal
    BY <1>8, <1>13 DEF CheckSlug
  <1>14. ASSUME NEW s \in Signup, NEW quota \in Quota, UpdateTenant(s, quota) PROVE Goal
    <2> DEFINE row == [tenantRows[s] EXCEPT !.maxAgents = quota]
    <2>1. row \in TenantRow BY WrittenTenantRows
    <2>2. row.slug = tenantRows[s].slug /\ row.tier = tenantRows[s].tier
              /\ row.status = tenantRows[s].status
      BY WrittenRowsKeepTheirNames
    <2>3. tenantRows' = [tenantRows EXCEPT ![s] = row]
              /\ UNCHANGED <<provisioner, cluster, tracked>>
      BY <1>14 DEF UpdateTenant
    <2> HIDE DEF row
    <2> QED BY <1>9, <2>1, <2>2, <2>3
  <1>15. ASSUME NEW s \in Signup, DeleteTenant(s) PROVE Goal
    <2> DEFINE row == [tenantRows[s] EXCEPT !.status = "deprovisioning"]
    <2>1. row \in TenantRow BY WrittenTenantRows
    <2>2. row.slug = tenantRows[s].slug /\ row.tier = tenantRows[s].tier
              /\ row.status = "deprovisioning"
      BY WrittenRowsKeepTheirNames
    <2>3. tenantRows' = [tenantRows EXCEPT ![s] = row] /\ tenantRows[s].status # "none"
              /\ UNCHANGED <<provisioner, cluster, tracked>>
      BY <1>15 DEF DeleteTenant
    <2> HIDE DEF row
    <2> QED BY <1>9, <2>1, <2>2, <2>3
  <1>16. ASSUME NEW s \in Signup, NEW e \in Editor, ReadVerticals(e, s) PROVE Goal
    BY <1>8, <1>16 DEF ReadVerticals
  <1>10. ASSUME NEW e \in Editor, WriteVerticals(e) PROVE Goal
    <2> DEFINE t == editing[e].tenant
               seen == editing[e].seen \cup {e}
    <2>1. editing[e] \in [at : {"write"}, tenant : Signup, seen : SUBSET Editor]
      BY <1>10 DEF WriteVerticals, NotEditing
    <2>2. t \in Signup /\ seen \in SUBSET Editor BY <2>1
    <2>3. \/ tenantRows' = [tenantRows EXCEPT ![t] = [tenantRows[t] EXCEPT !.verticals = seen]]
          \/ UNCHANGED tenantRows
      BY <1>10, <2>1 DEF WriteVerticals
    <2>4. UNCHANGED <<provisioner, cluster, tracked>> BY <1>10 DEF WriteVerticals
    <2> DEFINE row == [tenantRows[t] EXCEPT !.verticals = seen]
    <2> HIDE DEF t, seen
    <2>5. row \in TenantRow
      BY <2>2, WrittenTenantRows
    <2>6. row.slug = tenantRows[t].slug /\ row.tier = tenantRows[t].tier
              /\ row.status = tenantRows[t].status
      BY <2>2, WrittenRowsKeepTheirNames
    <2>7. tenantRows' = [tenantRows EXCEPT ![t] = row] \/ UNCHANGED tenantRows BY <2>3
    <2> HIDE DEF row
    <2>8. CASE UNCHANGED tenantRows BY <1>8, <2>4, <2>8
    <2> QED BY <1>9, <2>2, <2>4, <2>5, <2>6, <2>7, <2>8
  <1>11. ASSUME RestartTenantManager PROVE Goal
    BY <1>11 DEF Goal, RestartTenantManager, StepsAreBehind, SlugsAreUnique, ActiveIsProvisioned,
                 NotProvisioning
  <1>12. ASSUME UNCHANGED tenantVars PROVE Goal BY <1>8, <1>12 DEF tenantVars
  <1>17. Goal
    BY <1>1, <1>2, <1>3, <1>4, <1>5, <1>6, <1>7, <1>10, <1>11, <1>12, <1>13, <1>14, <1>15,
       <1>16
       DEF TenantNext, ProvisionStep
  <1> QED BY <1>17 DEF Goal

\* A slug is given once, and with it a namespace: the column is unique whatever the
\* signups saw before, and a provisioning never makes a row of its own.
THEOREM TenantsHaveTheirOwnSlug == TenantSpec => []SlugsAreUnique
  BY TenantTypeCorrect, InitTenantInv, NextTenantInv, PTL DEF TenantSpec, TenantInv

\* A tenant is active only with every step of its provisioning behind it, whatever
\* fails, restarts or is requested meanwhile.
THEOREM ActiveTenantsAreProvisioned == TenantSpec => []ActiveIsProvisioned
  BY TenantTypeCorrect, InitTenantInv, NextTenantInv, PTL DEF TenantSpec, TenantInv

-----------------------------------------------------------------------------
(* Audit trail and telemetry.                                              *)

\* What is put behind a sequence adds its elements to it.
LEMMA ElementsJoined ==
    ASSUME NEW S, NEW s \in Seq(S), NEW t \in Seq(S)
    PROVE  ToSet(s \o t) = ToSet(s) \cup ToSet(t)
  <1>1. ToSet(s \o t) \subseteq ToSet(s) \cup ToSet(t)
    <2> SUFFICES ASSUME NEW i \in DOMAIN (s \o t)
                 PROVE  (s \o t)[i] \in ToSet(s) \cup ToSet(t)
      BY DEF ToSet
    <2>1. CASE i <= Len(s) BY <2>1, ConcatProperties DEF ToSet
    <2>2. CASE i > Len(s)
      <3>1. i - Len(s) \in 1..Len(t) /\ (s \o t)[i] = t[i - Len(s)]
        BY <2>2, ConcatProperties
      <3> QED BY <3>1 DEF ToSet
    <2> QED BY <2>1, <2>2, ConcatProperties
  <1>2. ASSUME NEW i \in DOMAIN s PROVE s[i] \in ToSet(s \o t)
    BY <1>2, ConcatProperties DEF ToSet
  <1>3. ASSUME NEW i \in DOMAIN t PROVE t[i] \in ToSet(s \o t)
    <2>1. i + Len(s) \in DOMAIN (s \o t) /\ (s \o t)[i + Len(s)] = t[i]
      BY <1>3, ConcatProperties
    <2> QED BY <2>1 DEF ToSet
  <1> QED BY <1>1, <1>2, <1>3 DEF ToSet

\* So does a single element.
LEMMA ElementsAppended ==
    ASSUME NEW S, NEW s \in Seq(S), NEW e \in S
    PROVE  ToSet(Append(s, e)) = ToSet(s) \cup {e}
  <1>1. DOMAIN Append(s, e) = 1..(Len(s) + 1) /\ Append(s, e)[Len(s) + 1] = e
            /\ \A i \in 1..Len(s) : Append(s, e)[i] = s[i]
    BY AppendProperties
  <1>2. ToSet(s) = {s[i] : i \in 1..Len(s)} BY DEF ToSet
  <1>3. ToSet(Append(s, e)) = {Append(s, e)[i] : i \in 1..(Len(s) + 1)} BY <1>1 DEF ToSet
  <1>4. 1..(Len(s) + 1) = 1..Len(s) \cup {Len(s) + 1} BY LenProperties
  <1> QED BY <1>1, <1>2, <1>3, <1>4

\* Taking one element out of a sequence keeps all the others.
LEMMA ElementsLeft ==
    ASSUME NEW S, NEW s \in Seq(S), NEW i \in DOMAIN s
    PROVE  /\ RemoveAt(s, i) \in Seq(S)
           /\ Len(RemoveAt(s, i)) = Len(s) - 1
           /\ ToSet(s) = ToSet(RemoveAt(s, i)) \cup {s[i]}
  <1> DEFINE before == SubSeq(s, 1, i - 1)
             after == SubSeq(s, i + 1, Len(s))
  <1>0. i \in 1..Len(s) /\ Len(s) \in Nat BY LenProperties
  <1>1. before \in Seq(S) /\ Len(before) = i - 1 /\ \A j \in 1..(i - 1) : before[j] = s[j]
    BY <1>0, SubSeqProperties
  <1>2. after \in Seq(S) /\ Len(after) = Len(s) - i
            /\ \A j \in 1..(Len(s) - i) : after[j] = s[i + j]
    <2>1. i + 1 \in Int /\ Len(s) \in Int BY <1>0
    <2>2. \A j \in (i + 1)..Len(s) : s[j] \in S BY <1>0, ElementOfSeq
    <2>3. /\ after \in Seq(S)
          /\ Len(after) = IF i + 1 <= Len(s) THEN Len(s) - (i + 1) + 1 ELSE 0
          /\ \A j \in 1..(Len(s) - (i + 1) + 1) : after[j] = s[i + 1 + j - 1]
      BY <2>1, <2>2, SubSeqProperties
    <2> HIDE DEF after
    <2>4. Len(after) = Len(s) - i BY <1>0, <2>3
    <2>5. Len(s) - (i + 1) + 1 = Len(s) - i BY <1>0
    <2>6. \A j \in 1..(Len(s) - i) : after[j] = s[i + j] BY <1>0, <2>3, <2>5
    <2> QED BY <2>3, <2>4, <2>6
  <1>3. RemoveAt(s, i) = before \o after BY DEF RemoveAt
  <1> HIDE DEF before, after
  <1>4. ToSet(RemoveAt(s, i)) = ToSet(before) \cup ToSet(after)
    BY <1>1, <1>2, <1>3, ElementsJoined
  <1>5. ToSet(before) = {s[j] : j \in 1..(i - 1)}
    BY <1>1 DEF ToSet
  <1>6. ToSet(after) = {s[j] : j \in (i + 1)..Len(s)}
    <2>1. ToSet(after) = {after[j] : j \in 1..(Len(s) - i)}
      BY <1>2, LenProperties DEF ToSet
    <2>2. ASSUME NEW j \in (i + 1)..Len(s) PROVE s[j] \in ToSet(after)
      <3>1. j - i \in 1..(Len(s) - i) /\ after[j - i] = s[j] BY <1>0, <1>2
      <3> QED BY <2>1, <3>1
    <2>3. ASSUME NEW j \in 1..(Len(s) - i)
          PROVE  after[j] \in {s[k] : k \in (i + 1)..Len(s)}
      <3>1. i + j \in (i + 1)..Len(s) /\ after[j] = s[i + j] BY <1>0, <1>2
      <3> QED BY <3>1
    <2> QED BY <2>1, <2>2, <2>3
  <1>7. ToSet(s) = {s[j] : j \in 1..Len(s)} BY DEF ToSet
  <1>8. 1..Len(s) = 1..(i - 1) \cup {i} \cup (i + 1)..Len(s) BY <1>0
  <1>9. ToSet(s) = ToSet(RemoveAt(s, i)) \cup {s[i]} BY <1>4, <1>5, <1>6, <1>7, <1>8
  <1>10. Len(RemoveAt(s, i)) = Len(s) - 1 BY <1>0, <1>1, <1>2, <1>3, ConcatProperties
  <1> QED BY <1>1, <1>2, <1>3, <1>9, <1>10, ConcatProperties

\* Only the last flush of a writer that stops goes over the bound.
FlightsAreBounded == running => Len(flights) <= MaxFlights

\* The buffers, the batches under way and the tables keep their types.
THEOREM AuditTypeCorrect == AuditSpec => [](AuditTypeOK /\ FlightsAreBounded)
  <1> USE AuditAssumption
  <1>1. AuditInit => AuditTypeOK /\ FlightsAreBounded
    BY DEF AuditInit, AuditTypeOK, FlightsAreBounded
  <1>2. AuditTypeOK /\ FlightsAreBounded /\ [AuditNext]_auditVars
            => AuditTypeOK' /\ FlightsAreBounded'
    <2> SUFFICES ASSUME AuditTypeOK, FlightsAreBounded, [AuditNext]_auditVars
                 PROVE  AuditTypeOK' /\ FlightsAreBounded'
      OBVIOUS
    <2> USE DEF AuditTypeOK, FlightsAreBounded
    <2>1. ASSUME NEW e \in Event, RecordAudit(e) \/ RecordTelemetry(e)
          PROVE  AuditTypeOK' /\ FlightsAreBounded'
      <3>1. Push(e) BY <2>1 DEF RecordAudit, RecordTelemetry
      <3>2. Append(buffer, e) \in Seq(Event) BY AppendProperties
      <3> QED BY <3>1, <3>2 DEF Push
    <2>2. ASSUME NEW e \in Event, RecordDecision(e)
          PROVE  AuditTypeOK' /\ FlightsAreBounded'
      BY <2>2 DEF RecordDecision
    <2> DEFINE more == Append(flights, buffer)
    <2>0. more \in Seq(Seq(Event)) /\ Len(more) = Len(flights) + 1 /\ Len(flights) \in Nat
      BY AppendProperties
    <2> HIDE DEF more
    <2>3. CASE Flush
      <3>1. flights' = more BY <2>3 DEF Flush, more
      <3> QED BY <2>0, <2>3, <3>1 DEF Flush
    <2>4. CASE Stop
      <3>1. flights' \in {more, flights} BY <2>4 DEF Stop, more
      <3>2. flights' \in Seq(Seq(Event)) /\ Len(flights') <= MaxFlights + 1
        BY <2>0, <2>4, <3>1 DEF Stop
      <3>3. <<>> \in Seq(Event) OBVIOUS
      <3>4. UNCHANGED <<writer, stored, recorded, decisions>> /\ running' = FALSE
                /\ buffer' = <<>>
        BY <2>4 DEF Stop
      <3> QED BY <3>2, <3>3, <3>4
    <2>5. CASE Respawn
      <3>1. UNION {ToSet(batch) : batch \in ToSet(flights)} \subseteq Event
        BY DEF ToSet
      <3>2. stored' \in SUBSET Event BY <2>5, <3>1 DEF Respawn
      <3> QED BY <2>5, <3>2 DEF Respawn
    <2>6. ASSUME NEW i \in DOMAIN flights, Inserted(i) \/ InsertFails(i)
          PROVE  AuditTypeOK' /\ FlightsAreBounded'
      <3>1. flights[i] \in Seq(Event) /\ ToSet(flights[i]) \subseteq Event BY DEF ToSet
      <3>2. flights' \in Seq(Seq(Event)) /\ Len(flights') = Len(flights) - 1
        BY <2>6, ElementsLeft DEF Inserted, InsertFails
      <3>3. stored' \in SUBSET Event BY <2>6, <3>1 DEF Inserted, InsertFails
      <3>4. buffer' \in Seq(Event)
        <4>1. buffer' = buffer \/ buffer' = flights[i] \o buffer
          BY <2>6 DEF Inserted, InsertFails, PutBack
        <4> QED BY <3>1, <4>1, ConcatProperties
      <3>5. Len(flights) \in Nat OBVIOUS
      <3>6. UNCHANGED <<writer, running, recorded, decisions>>
        BY <2>6 DEF Inserted, InsertFails
      <3> QED BY <3>2, <3>3, <3>4, <3>5, <3>6
    <2>7. CASE UNCHANGED auditVars BY <2>7 DEF auditVars
    <2> QED BY <2>1, <2>2, <2>3, <2>4, <2>5, <2>6, <2>7 DEF AuditNext
  <1> QED BY <1>1, <1>2, PTL DEF AuditSpec

\* The events of the batches whose insert is awaited.
InFlight == UNION {ToSet(batch) : batch \in ToSet(flights)}

\* An event handed over since the process started is never dropped: it is in the
\* buffer, in a batch on its way or in the table, whichever inserts fail.
THEOREM RecordedEventsAreKept == AuditSpec => []EventsAreKept
  <1>1. AuditInit => EventsAreKept
    BY DEF AuditInit, EventsAreKept
  <1>2. AuditTypeOK /\ EventsAreKept /\ [AuditNext]_auditVars => EventsAreKept'
    <2> SUFFICES ASSUME AuditTypeOK, EventsAreKept, [AuditNext]_auditVars
                 PROVE  recorded' \subseteq stored' \cup ToSet(buffer') \cup InFlight'
      BY DEF EventsAreKept, InFlight
    <2>0. /\ recorded \subseteq stored \cup ToSet(buffer) \cup InFlight
          /\ buffer \in Seq(Event) /\ flights \in Seq(Seq(Event))
      BY DEF EventsAreKept, InFlight, AuditTypeOK
    <2>1. ASSUME NEW e \in Event, RecordAudit(e) \/ RecordTelemetry(e)
          PROVE  recorded' \subseteq stored' \cup ToSet(buffer') \cup InFlight'
      <3>1. ToSet(buffer') = ToSet(buffer) \cup {e}
        <4>1. buffer' = Append(buffer, e)
          BY <2>1 DEF RecordAudit, RecordTelemetry, Push
        <4> QED BY <2>0, <4>1, ElementsAppended
      <3> QED BY <2>0, <2>1, <3>1 DEF RecordAudit, RecordTelemetry, Push, InFlight
    <2>2. ASSUME NEW e \in Event, RecordDecision(e)
          PROVE  recorded' \subseteq stored' \cup ToSet(buffer') \cup InFlight'
      BY <2>0, <2>2 DEF RecordDecision, InFlight
    <2>3. ASSUME flights' = Append(flights, buffer), UNCHANGED <<recorded, stored>>
          PROVE  recorded' \subseteq stored' \cup ToSet(buffer') \cup InFlight'
      <3>1. ToSet(flights') = ToSet(flights) \cup {buffer}
        BY <2>0, <2>3, ElementsAppended
      <3>2. InFlight' = InFlight \cup ToSet(buffer) BY <3>1 DEF InFlight
      <3> QED BY <2>0, <2>3, <3>2
    <2>4. CASE Flush BY <2>3, <2>4 DEF Flush
    <2>5. CASE Stop
      <3>1. CASE buffer = <<>>
        BY <2>0, <2>5, <3>1 DEF Stop, InFlight
      <3> QED BY <2>3, <2>5, <3>1 DEF Stop
    <2>6. CASE Respawn BY <2>6 DEF Respawn
    <2>7. ASSUME NEW i \in DOMAIN flights, Inserted(i) \/ InsertFails(i)
          PROVE  recorded' \subseteq stored' \cup ToSet(buffer') \cup InFlight'
      <3>1. ToSet(flights) = ToSet(flights') \cup {flights[i]}
        BY <2>0, <2>7, ElementsLeft DEF Inserted, InsertFails
      <3>2. InFlight = InFlight' \cup ToSet(flights[i]) BY <3>1 DEF InFlight
      <3>3. CASE Inserted(i) BY <2>0, <3>2, <3>3 DEF Inserted
      <3>4. CASE InsertFails(i)
        <4>1. flights[i] \in Seq(Event) BY <2>0
        <4>2. ToSet(buffer') = ToSet(flights[i]) \cup ToSet(buffer)
          BY <2>0, <3>4, <4>1, ElementsJoined DEF InsertFails, PutBack
        <4> QED BY <2>0, <3>2, <3>4, <4>2 DEF InsertFails
      <3> QED BY <2>7, <3>3, <3>4
    <2>8. CASE UNCHANGED auditVars BY <2>0, <2>8 DEF auditVars, InFlight
    <2> QED BY <2>1, <2>2, <2>4, <2>5, <2>6, <2>7, <2>8 DEF AuditNext
  <1> QED BY <1>1, <1>2, AuditTypeCorrect, PTL DEF AuditSpec

-----------------------------------------------------------------------------
(* Memories of an agent.                                                   *)

\* What is written over the row of a memory leaves one.
LEMMA WrittenMemories ==
    ASSUME NEW row \in MemoryRow, NEW c \in MemoryCategory, NEW r \in 0..FullRelevance
    PROVE  /\ [row EXCEPT !.at = "expired"] \in MemoryRow
           /\ [row EXCEPT !.category = c, !.archived = @ \/ c = "archive"] \in MemoryRow
           /\ [row EXCEPT !.category = "archive", !.archived = TRUE, !.relevance = r]
                  \in MemoryRow
           /\ [at |-> "stored", category |-> c, relevance |-> r, archived |-> c = "archive"]
                  \in MemoryRow
           /\ Forgotten \in MemoryRow
  <1>1. [row EXCEPT !.category = c, !.archived = @ \/ c = "archive"] \in MemoryRow
    <2> DEFINE b == row.archived \/ c = "archive"
    <2>1. b \in BOOLEAN OBVIOUS
    <2> HIDE DEF b
    <2>2. [row EXCEPT !.category = c, !.archived = b] \in MemoryRow BY <2>1 DEF MemoryRow
    <2> QED BY <2>2 DEF b
  <1>2. [at |-> "stored", category |-> c, relevance |-> r, archived |-> c = "archive"]
            \in MemoryRow
    <2> DEFINE b == c = "archive"
    <2>1. b \in BOOLEAN OBVIOUS
    <2> HIDE DEF b
    <2>2. [at |-> "stored", category |-> c, relevance |-> r, archived |-> b] \in MemoryRow
      BY <2>1 DEF MemoryRow
    <2> QED BY <2>2 DEF b
  <1>3. Forgotten \in MemoryRow
    <2>1. NotStored \in MemoryRow BY DEF NotStored, MemoryRow, MemoryCategory, FullRelevance
    <2>2. [NotStored EXCEPT !.at = "gone"] \in MemoryRow BY <2>1 DEF MemoryRow
    <2> QED BY <2>2 DEF Forgotten
  <1>4. /\ [row EXCEPT !.at = "expired"] \in MemoryRow
        /\ [row EXCEPT !.category = "archive", !.archived = TRUE, !.relevance = r] \in MemoryRow
    BY DEF MemoryRow, MemoryCategory
  <1> QED BY <1>1, <1>2, <1>3, <1>4

\* Who is about to make room in a category has chosen an entry, which was there when it
\* looked, and one that has been in the archive when it is the archive that is full:
\* whatever happens to that entry meanwhile, it can only be gone.
VictimsAreMarked ==
    \A a \in Adder : adding[a].at = "evict" =>
        LET victim == adding[a].victim IN
        /\ victim \in Memory
        /\ memories[victim].at # "unused"
        /\ Head(adding[a].todo).category = "archive" /\ memories[victim].at # "gone"
               => memories[victim].archived

\* What is in the archive has been there.
ArchivesAreMarked ==
    \A m \in Memory : InStore(m) /\ memories[m].category = "archive" => memories[m].archived

MemoryInv == MemoryTypeOK /\ ArchivesAreMarked /\ VictimsAreMarked

\* Half of a relevance is a relevance: what archiving an entry writes.
LEMMA HalfIsWithin == \A n \in 0..FullRelevance : n \div 2 \in 0..20
  BY DEF FullRelevance

\* Every step keeps the types.
LEMMA MemoryNextType ==
    MemoryTypeOK /\ VictimsAreMarked /\ [MemoryNext]_memoryVars => MemoryTypeOK'
  <1> SUFFICES ASSUME MemoryTypeOK, VictimsAreMarked, [MemoryNext]_memoryVars
               PROVE  MemoryTypeOK'
    OBVIOUS
  <1> USE MemoryAssumption DEF MemoryTypeOK
  <1>1. ASSUME NEW a \in Adder, NEW state \in Adding, state.at # "idle" => state.todo # <<>>,
               adding' = [adding EXCEPT ![a] = state]
        PROVE  /\ adding' \in [Adder -> Adding]
               /\ \A b \in Adder : adding'[b].at # "idle" => adding'[b].todo # <<>>
    BY <1>1
  <1>2. ASSUME NEW m \in Memory, NEW row \in MemoryRow,
               memories' = [memories EXCEPT ![m] = row]
        PROVE  memories' \in [Memory -> MemoryRow]
    BY <1>2
  <1>3. ASSUME NEW a \in Adder, NEW todo \in Seq(Entry), todo # <<>>, StartAdding(a, todo)
        PROVE  MemoryTypeOK'
    <2> DEFINE state == [NotAdding EXCEPT !.at = "read", !.todo = todo]
    <2>0. NotAdding \in Adding BY DEF Adding, NotAdding, FullRelevance
    <2>1. state \in Adding /\ state.todo = todo BY <2>0 DEF Adding
    <2>2. adding' = [adding EXCEPT ![a] = state] /\ UNCHANGED <<memories, promotions>>
      BY <1>3 DEF StartAdding
    <2> HIDE DEF state
    <2> QED BY <1>1, <1>3, <2>1, <2>2
  <1>4. ASSUME NEW a \in Adder, RecordOutcome(a) PROVE MemoryTypeOK'
    <2>1. PICK success, noted, changedFiles \in BOOLEAN :
              /\ Lessons(success, noted, changedFiles) # <<>>
              /\ StartAdding(a, Lessons(success, noted, changedFiles))
      BY <1>4 DEF RecordOutcome
    <2>2. /\ Lesson(12) \in Entry /\ Lesson(18) \in Entry /\ Lesson(8) \in Entry
      BY DEF Lesson, Entry, FullRelevance, MemoryCategory
    <2>3. Lessons(success, noted, changedFiles) \in Seq(Entry)
      <3>1. (IF noted THEN <<Lesson(IF success THEN 12 ELSE 18)>> ELSE <<>>) \in Seq(Entry)
        BY <2>2
      <3>2. (IF changedFiles THEN <<Lesson(8)>> ELSE <<>>) \in Seq(Entry) BY <2>2
      <3> QED BY <3>1, <3>2, ConcatProperties DEF Lessons
    <2> QED BY <1>3, <2>1, <2>3
  <1>5. ASSUME NEW a \in Adder, ReadCategory(a) PROVE MemoryTypeOK'
    <2> DEFINE held == HeldIn(Head(adding[a].todo).category)
    <2>1. adding[a].at = "read" /\ adding[a] \in Adding /\ UNCHANGED <<memories, promotions>>
      BY <1>5 DEF ReadCategory
    <2>2. ASSUME NEW oldest \in Memory,
                 adding' = [adding EXCEPT ![a].at = "evict", ![a].victim = oldest,
                                          ![a].relevance = memories[oldest].relevance]
          PROVE  MemoryTypeOK'
      <3> DEFINE state == [adding[a] EXCEPT !.at = "evict", !.victim = oldest,
                                            !.relevance = memories[oldest].relevance]
      <3>1. memories[oldest].relevance \in 0..FullRelevance BY DEF MemoryRow
      <3>2. state \in Adding /\ state.todo = adding[a].todo BY <2>1, <3>1 DEF Adding
      <3>3. adding' = [adding EXCEPT ![a] = state] BY <2>1, <2>2
      <3> HIDE DEF state
      <3> QED BY <1>1, <2>1, <3>2, <3>3
    <2>3. ASSUME adding' = [adding EXCEPT ![a].at = "create"] PROVE MemoryTypeOK'
      <3> DEFINE state == [adding[a] EXCEPT !.at = "create"]
      <3>1. state \in Adding /\ state.todo = adding[a].todo BY <2>1 DEF Adding
      <3>2. adding' = [adding EXCEPT ![a] = state] BY <2>1, <2>3
      <3> HIDE DEF state
      <3> QED BY <1>1, <2>1, <3>1, <3>2
    <2>4. LeastRelevant(held) \subseteq Memory BY DEF LeastRelevant, HeldIn
    <2> QED BY <1>5, <2>2, <2>3, <2>4 DEF ReadCategory
  <1>6. ASSUME NEW a \in Adder, Evict(a) PROVE MemoryTypeOK'
    <2> DEFINE state == [adding[a] EXCEPT !.at = "create"]
               m == adding[a].victim
               r == adding[a].relevance \div 2
    <2>1. adding[a].at = "evict" /\ adding[a] \in Adding /\ UNCHANGED promotions
      BY <1>6 DEF Evict
    <2>6. m \in Memory BY <2>1 DEF VictimsAreMarked
    <2>2. state \in Adding /\ state.todo = adding[a].todo BY <2>1 DEF Adding
    <2>3. adding' = [adding EXCEPT ![a] = state] BY <1>6, <2>1 DEF Evict
    <2>7. adding[a].relevance \in 0..FullRelevance BY <2>1 DEF Adding
    <2>4. r \in 0..FullRelevance
      <3> HIDE DEF r
      <3>1. r = adding[a].relevance \div 2 BY DEF r
      <3>2. adding[a].relevance \div 2 \in 0..20 BY ONLY <2>7, HalfIsWithin DEF FullRelevance
      <3> QED BY ONLY <3>1, <3>2 DEF FullRelevance
    <2>5. memories' \in [Memory -> MemoryRow]
      <3>0. memories[m] \in MemoryRow /\ "archive" \in MemoryCategory
        BY <2>6 DEF MemoryCategory
      <3>1. CASE Forget(m)
        <4>1. Forgotten \in MemoryRow BY <2>4, <3>0, WrittenMemories
        <4> HIDE DEF m
        <4> QED BY <1>2, <2>6, <3>1, <4>1 DEF Forget
      <3>2. CASE ArchiveEntry(m, adding[a].relevance)
        <4>1. CASE UNCHANGED memories BY <4>1
        <4>2. CASE memories' = [memories EXCEPT ![m].category = "archive",
                                                ![m].archived = TRUE, ![m].relevance = r]
          <5> HIDE DEF r
          <5>1. memories' = [memories EXCEPT ![m] =
                    [memories[m] EXCEPT !.category = "archive", !.archived = TRUE,
                                        !.relevance = r]]
            BY <2>6, <4>2
          <5>2. "archive" \in MemoryCategory BY DEF MemoryCategory
          <5> HIDE DEF m
          <5> QED BY <1>2, <2>6, <2>4, <5>1, <5>2, WrittenMemories DEF m
        <4> QED BY <3>2, <4>1, <4>2 DEF ArchiveEntry
      <3> QED BY <1>6, <3>1, <3>2 DEF Evict, MakeRoom
    <2> HIDE DEF state
    <2> QED BY <1>1, <2>1, <2>2, <2>3, <2>5
  <1>7. ASSUME NEW a \in Adder, NEW m \in Memory, CreateMemory(a, m) PROVE MemoryTypeOK'
    <2> DEFINE entry == Head(adding[a].todo)
               rest == Tail(adding[a].todo)
               row == [at |-> "stored", category |-> entry.category,
                       relevance |-> entry.relevance, archived |-> entry.category = "archive"]
    <2>1. /\ adding[a].at = "create" /\ adding[a].todo \in Seq(Entry)
          /\ adding[a].todo # <<>> /\ UNCHANGED promotions
      BY <1>7 DEF CreateMemory, Adding
    <2>2. entry \in Entry /\ rest \in Seq(Entry) BY <2>1
    <2>3. row \in MemoryRow
      <3>1. entry.category \in MemoryCategory /\ entry.relevance \in 0..FullRelevance
        BY <2>2 DEF Entry
      <3> HIDE DEF entry
      <3> QED BY <1>7, <3>1, WrittenMemories
    <2>4. memories' = [memories EXCEPT ![m] = row] BY <1>7 DEF CreateMemory
    <2>5. NotAdding \in Adding BY DEF NotAdding, Adding, FullRelevance
    <2>6. [NotAdding EXCEPT !.at = "read", !.todo = rest] \in Adding
      BY <2>2, <2>5 DEF NotAdding, Adding
    <2>7. adding' = [adding EXCEPT ![a] =
              IF rest = <<>> THEN NotAdding ELSE [NotAdding EXCEPT !.at = "read", !.todo = rest]]
      BY <1>7 DEF CreateMemory
    <2> DEFINE state == IF rest = <<>> THEN NotAdding
                                       ELSE [NotAdding EXCEPT !.at = "read", !.todo = rest]
    <2>8. state \in Adding /\ (state.at # "idle" => state.todo # <<>>)
      BY <2>5, <2>6 DEF NotAdding
    <2> HIDE DEF state, row
    <2> QED BY <1>1, <1>2, <2>1, <2>3, <2>4, <2>7, <2>8 DEF state
  <1>8. ASSUME NEW m \in Memory, NEW c \in MemoryCategory, PromoteEntry(m, c)
        PROVE  MemoryTypeOK'
    <2> DEFINE row == [memories[m] EXCEPT !.category = c, !.archived = @ \/ c = "archive"]
    <2>0. 0 \in 0..FullRelevance BY DEF FullRelevance
    <2>1. row \in MemoryRow BY <2>0, WrittenMemories
    <2>2. memories' = [memories EXCEPT ![m] = row] BY <1>8 DEF PromoteEntry
    <2> HIDE DEF row
    <2>3. promotions' \in 0..MaxPromotions /\ UNCHANGED adding BY <1>8 DEF PromoteEntry
    <2> QED BY <1>2, <2>1, <2>2, <2>3
  <1>9. ASSUME NEW m \in Memory, ReachExpiry(m) PROVE MemoryTypeOK'
    <2> DEFINE row == [memories[m] EXCEPT !.at = "expired"]
    <2>1. row \in MemoryRow BY DEF MemoryRow
    <2>2. memories' = [memories EXCEPT ![m] = row] /\ UNCHANGED <<adding, promotions>>
      BY <1>9 DEF ReachExpiry
    <2> HIDE DEF row
    <2> QED BY <1>2, <2>1, <2>2
  <1>10. CASE RunDecayCycle
    <2>1. \A m \in Memory : Forgotten \in MemoryRow
      <3>1. "archive" \in MemoryCategory /\ 0 \in 0..FullRelevance
        BY DEF MemoryCategory, FullRelevance
      <3> QED BY <3>1, WrittenMemories
    <2> QED BY <1>10, <2>1 DEF RunDecayCycle
  <1>11. CASE UNCHANGED memoryVars BY <1>11 DEF memoryVars
  <1>12. ASSUME NEW c \in MemoryCategory
         PROVE  /\ <<[category |-> c, relevance |-> FullRelevance]>> \in Seq(Entry)
                /\ <<[category |-> c, relevance |-> FullRelevance]>> # <<>>
    <2>1. [category |-> c, relevance |-> FullRelevance] \in Entry BY DEF Entry, FullRelevance
    <2> QED BY <2>1
  <1> QED
    BY <1>3, <1>4, <1>5, <1>6, <1>7, <1>8, <1>9, <1>10, <1>11, <1>12 DEF MemoryNext

\* An entry that has been created stays created; one that has been in the archive stays
\* marked until it is gone, and what is gone stays gone.
MarksAreKept ==
    \A m \in Memory : memories[m].at # "unused" =>
        /\ memories'[m].at # "unused"
        /\ memories'[m].at # "gone" =>
               memories[m].at # "gone" /\ (memories[m].archived => memories'[m].archived)

\* A step keeps the marks.
LEMMA NextMarks ==
    ASSUME MemoryInv, [MemoryNext]_memoryVars
    PROVE  MarksAreKept /\ ArchivesAreMarked'
  <1> USE DEF MemoryInv, MemoryTypeOK
  <1>1. ASSUME NEW m \in Memory, NEW row, memories' = [memories EXCEPT ![m] = row],
               memories[m].at # "unused" =>
                   /\ row.at # "unused"
                   /\ row.at # "gone" => memories[m].at # "gone"
                                             /\ (memories[m].archived => row.archived),
               row.at \in {"stored", "expired"} /\ row.category = "archive" => row.archived
        PROVE  MarksAreKept /\ ArchivesAreMarked'
    <2>1. memories'[m] = row /\ \A n \in Memory \ {m} : memories'[n] = memories[n]
      BY <1>1
    <2>2. MarksAreKept BY <1>1, <2>1 DEF MarksAreKept
    <2>3. ArchivesAreMarked' BY <1>1, <2>1 DEF ArchivesAreMarked, InStore
    <2> QED BY <2>2, <2>3
  <1>2. ASSUME UNCHANGED memories PROVE MarksAreKept /\ ArchivesAreMarked'
    BY <1>2 DEF MarksAreKept, ArchivesAreMarked, InStore
  <1>3. ASSUME NEW a \in Adder, Evict(a) PROVE MarksAreKept /\ ArchivesAreMarked'
    <2> DEFINE m == adding[a].victim
               r == adding[a].relevance \div 2
    <2>1. m \in Memory /\ memories[m].at # "unused"
      BY <1>3 DEF Evict, VictimsAreMarked
    <2>2. CASE Forget(m)
      <3>1. Forgotten.at = "gone" BY DEF Forgotten, NotStored
      <3> HIDE DEF m
      <3> QED BY <1>1, <2>1, <2>2, <3>1 DEF Forget
    <2>3. CASE ArchiveEntry(m, adding[a].relevance)
      <3>1. CASE UNCHANGED memories BY <1>2, <3>1
      <3>2. CASE /\ memories' = [memories EXCEPT ![m].category = "archive",
                                                 ![m].archived = TRUE, ![m].relevance = r]
                 /\ InStore(m)
        <4> DEFINE row == [memories[m] EXCEPT !.category = "archive", !.archived = TRUE,
                                              !.relevance = r]
        <4> HIDE DEF r
        <4>1. memories' = [memories EXCEPT ![m] = row] BY <2>1, <3>2
        <4> HIDE DEF m
        <4>2. row.at = memories[m].at /\ row.archived = TRUE BY <2>1 DEF MemoryRow
        <4> HIDE DEF row
        <4> QED BY <1>1, <2>1, <3>2, <4>1, <4>2 DEF InStore
      <3> QED BY <2>3, <3>1, <3>2 DEF ArchiveEntry
    <2> QED BY <1>3, <2>2, <2>3 DEF Evict, MakeRoom
  <1>4. ASSUME NEW a \in Adder, NEW m \in Memory, CreateMemory(a, m)
        PROVE  MarksAreKept /\ ArchivesAreMarked'
    <2> DEFINE entry == Head(adding[a].todo)
               row == [at |-> "stored", category |-> entry.category,
                       relevance |-> entry.relevance, archived |-> entry.category = "archive"]
    <2>1. memories[m].at = "unused" /\ memories' = [memories EXCEPT ![m] = row]
      BY <1>4 DEF CreateMemory
    <2>2. row.archived <=> row.category = "archive" OBVIOUS
    <2> HIDE DEF row
    <2> QED BY <1>1, <2>1, <2>2
  <1>5. ASSUME NEW m \in Memory, NEW c \in MemoryCategory, PromoteEntry(m, c)
        PROVE  MarksAreKept /\ ArchivesAreMarked'
    <2> DEFINE b == memories[m].archived \/ c = "archive"
               row == [memories[m] EXCEPT !.category = c, !.archived = b]
    <2>1. memories' = [memories EXCEPT ![m] = row] /\ InStore(m) BY <1>5 DEF PromoteEntry
    <2>2. b \in BOOLEAN /\ (memories[m].archived => b) /\ (c = "archive" => b) OBVIOUS
    <2> HIDE DEF b
    <2>3. row.at = memories[m].at /\ row.category = c /\ row.archived = b
      BY <2>2 DEF MemoryRow
    <2> HIDE DEF row
    <2> QED BY <1>1, <2>1, <2>2, <2>3 DEF InStore
  <1>6. ASSUME NEW m \in Memory, ReachExpiry(m) PROVE MarksAreKept /\ ArchivesAreMarked'
    <2> DEFINE row == [memories[m] EXCEPT !.at = "expired"]
    <2>1. memories' = [memories EXCEPT ![m] = row] /\ memories[m].at = "stored"
      BY <1>6 DEF ReachExpiry
    <2>2. row.at = "expired" /\ row.category = memories[m].category
              /\ row.archived = memories[m].archived
      BY DEF MemoryRow
    <2> HIDE DEF row
    <2> QED BY <1>1, <2>1, <2>2 DEF ArchivesAreMarked, InStore
  <1>7. CASE RunDecayCycle
    <2>1. Forgotten.at = "gone" BY DEF Forgotten, NotStored
    <2>2. \A m \in Memory :
              memories'[m] = IF memories[m].at = "expired" THEN Forgotten ELSE memories[m]
      BY <1>7 DEF RunDecayCycle
    <2>3. \A m \in Memory : memories'[m].at = "gone" \/ memories'[m] = memories[m]
      BY <2>1, <2>2
    <2> QED BY <2>3 DEF MarksAreKept, ArchivesAreMarked, InStore
  <1>8. ASSUME NEW a \in Adder, NEW todo, StartAdding(a, todo) \/ ReadCategory(a)
        PROVE  MarksAreKept /\ ArchivesAreMarked'
    BY <1>2, <1>8 DEF StartAdding, ReadCategory
  <1>9. ASSUME NEW a \in Adder, RecordOutcome(a) PROVE MarksAreKept /\ ArchivesAreMarked'
    BY <1>8, <1>9 DEF RecordOutcome
  <1>10. CASE UNCHANGED memoryVars BY <1>2, <1>10 DEF memoryVars
  <1> QED BY <1>3, <1>4, <1>5, <1>6, <1>7, <1>8, <1>9, <1>10 DEF MemoryNext

\* Marks that are kept are kept under who has chosen an entry.
LEMMA NextVictims ==
    ASSUME MemoryInv, MemoryTypeOK', [MemoryNext]_memoryVars
    PROVE  VictimsAreMarked'
  <1> USE DEF MemoryInv
  <1>0. MarksAreKept BY NextMarks
  <1>1. ASSUME NEW a \in Adder, adding'[a] = adding[a], adding[a].at = "evict"
        PROVE  LET victim == adding'[a].victim IN
               /\ victim \in Memory
               /\ memories'[victim].at # "unused"
               /\ Head(adding'[a].todo).category = "archive" /\ memories'[victim].at # "gone"
                      => memories'[victim].archived
    BY <1>0, <1>1 DEF VictimsAreMarked, MarksAreKept
  <1>2. ASSUME \A a \in Adder : adding'[a] = adding[a] \/ adding'[a].at # "evict"
        PROVE  VictimsAreMarked'
    BY <1>1, <1>2 DEF VictimsAreMarked
  <1>3. ASSUME NEW a \in Adder, NEW state, adding' = [adding EXCEPT ![a] = state],
               state.at # "evict"
        PROVE  VictimsAreMarked'
    BY <1>2, <1>3 DEF MemoryTypeOK
  <1>4. ASSUME NEW a \in Adder, ReadCategory(a) PROVE VictimsAreMarked'
    <2> DEFINE held == HeldIn(Head(adding[a].todo).category)
    <2>1. adding[a] \in Adding /\ UNCHANGED memories
      BY <1>4 DEF ReadCategory, MemoryTypeOK
    <2>2. ASSUME NEW oldest \in LeastRelevant(held),
                 adding' = [adding EXCEPT ![a].at = "evict", ![a].victim = oldest,
                                          ![a].relevance = memories[oldest].relevance]
          PROVE  VictimsAreMarked'
      <3> DEFINE state == [adding[a] EXCEPT !.at = "evict", !.victim = oldest,
                                            !.relevance = memories[oldest].relevance]
      <3>1. /\ oldest \in Memory /\ InStore(oldest)
            /\ memories[oldest].category = Head(adding[a].todo).category
        BY <2>2 DEF LeastRelevant, HeldIn
      <3>2. state.todo = adding[a].todo /\ state.victim = oldest
        BY <2>1 DEF Adding
      <3>3. adding' = [adding EXCEPT ![a] = state] BY <2>1, <2>2 DEF MemoryTypeOK
      <3> HIDE DEF state
      <3>4. adding'[a] = state /\ \A b \in Adder \ {a} : adding'[b] = adding[b]
        BY <3>3 DEF MemoryTypeOK
      <3>5. memories[oldest].category = "archive" => memories[oldest].archived
        BY <3>1 DEF ArchivesAreMarked
      <3>6. memories'[oldest] = memories[oldest] /\ memories[oldest].at # "unused"
        BY <2>1, <3>1 DEF InStore
      <3> SUFFICES ASSUME NEW b \in Adder, adding'[b].at = "evict"
                   PROVE  LET victim == adding'[b].victim IN
                          /\ victim \in Memory
                          /\ memories'[victim].at # "unused"
                          /\ Head(adding'[b].todo).category = "archive"
                                 /\ memories'[victim].at # "gone"
                                 => memories'[victim].archived
        BY DEF VictimsAreMarked
      <3>7. CASE b = a BY <3>1, <3>2, <3>4, <3>5, <3>6, <3>7
      <3>8. CASE b # a BY <1>1, <3>4, <3>8
      <3> QED BY <3>7, <3>8
    <2>3. ASSUME adding' = [adding EXCEPT ![a].at = "create"] PROVE VictimsAreMarked'
      <3> DEFINE state == [adding[a] EXCEPT !.at = "create"]
      <3>1. state.at = "create" BY <2>1 DEF Adding
      <3>2. adding' = [adding EXCEPT ![a] = state] BY <2>1, <2>3 DEF MemoryTypeOK
      <3> HIDE DEF state
      <3> QED BY <1>3, <3>1, <3>2
    <2> QED BY <1>4, <2>2, <2>3 DEF ReadCategory
  <1>5. ASSUME NEW a \in Adder, Evict(a) PROVE VictimsAreMarked'
    <2> DEFINE state == [adding[a] EXCEPT !.at = "create"]
    <2>1. state.at = "create" BY DEF MemoryTypeOK, Adding
    <2>2. adding' = [adding EXCEPT ![a] = state] BY <1>5 DEF Evict, MemoryTypeOK
    <2> HIDE DEF state
    <2> QED BY <1>3, <2>1, <2>2
  <1>6. ASSUME NEW a \in Adder, NEW m \in Memory, CreateMemory(a, m) PROVE VictimsAreMarked'
    <2> DEFINE rest == Tail(adding[a].todo)
               state == IF rest = <<>> THEN NotAdding
                                       ELSE [NotAdding EXCEPT !.at = "read", !.todo = rest]
    <2>1. state.at # "evict" BY DEF NotAdding
    <2>2. adding' = [adding EXCEPT ![a] = state] BY <1>6 DEF CreateMemory
    <2> HIDE DEF state
    <2> QED BY <1>3, <2>1, <2>2
  <1>7. ASSUME NEW a \in Adder, NEW todo, StartAdding(a, todo) PROVE VictimsAreMarked'
    <2> DEFINE state == [NotAdding EXCEPT !.at = "read", !.todo = todo]
    <2>1. state.at # "evict" BY DEF NotAdding
    <2>2. adding' = [adding EXCEPT ![a] = state] BY <1>7 DEF StartAdding
    <2> HIDE DEF state
    <2> QED BY <1>3, <2>1, <2>2
  <1>8. ASSUME NEW a \in Adder, RecordOutcome(a) PROVE VictimsAreMarked'
    BY <1>7, <1>8 DEF RecordOutcome
  <1>9. ASSUME UNCHANGED adding PROVE VictimsAreMarked' BY <1>2, <1>9
  <1>10. ASSUME NEW m \in Memory, NEW c, PromoteEntry(m, c) \/ ReachExpiry(m)
         PROVE  VictimsAreMarked'
    BY <1>9, <1>10 DEF PromoteEntry, ReachExpiry
  <1>11. CASE RunDecayCycle BY <1>9, <1>11 DEF RunDecayCycle
  <1>12. CASE UNCHANGED memoryVars BY <1>9, <1>12 DEF memoryVars
  <1> QED
    BY <1>4, <1>5, <1>6, <1>7, <1>8, <1>10, <1>11, <1>12 DEF MemoryNext

\* The memories of an agent and the calls that add to them keep their types, and who
\* is about to make room knows of an entry that was there.
THEOREM MemoryTypeCorrect == MemorySpec => []MemoryInv
  <1>1. MemoryInit => MemoryInv
    <2> SUFFICES ASSUME MemoryInit PROVE MemoryInv
      OBVIOUS
    <2>1. NotStored \in MemoryRow BY DEF NotStored, MemoryRow, MemoryCategory, FullRelevance
    <2>2. NotAdding \in Adding /\ NotAdding.at = "idle"
      BY DEF NotAdding, Adding, FullRelevance
    <2>3. MemoryTypeOK BY <2>1, <2>2, MemoryAssumption DEF MemoryInit, MemoryTypeOK
    <2>4. \A m \in Memory : ~InStore(m) BY DEF MemoryInit, InStore, NotStored
    <2> QED BY <2>2, <2>3, <2>4 DEF MemoryInit, MemoryInv, ArchivesAreMarked, VictimsAreMarked
  <1>2. MemoryInv /\ [MemoryNext]_memoryVars => MemoryInv'
    BY MemoryNextType, NextMarks, NextVictims DEF MemoryInv
  <1> QED BY <1>1, <1>2, PTL DEF MemorySpec

\* An entry is forgotten before it expires only when it has been in the archive,
\* however the calls that add, archive and promote interleave.
THEOREM OnlyTheArchiveForgets == MemorySpec => ForgottenOnlyFromTheArchive
  <1>1. MemoryInv /\ [MemoryNext]_memoryVars => [ForgottenFromTheArchive]_memoryVars
    <2> SUFFICES ASSUME MemoryInv, MemoryNext, NEW m \in Memory, memories[m].at = "stored",
                        memories'[m].at = "gone"
                 PROVE  memories[m].archived
      BY DEF ForgottenFromTheArchive
    <2> USE DEF MemoryInv, MemoryTypeOK
    <2>1. ASSUME NEW a \in Adder, Evict(a) PROVE memories[m].archived
      <3>1. adding[a].at = "evict" /\ adding[a].victim \in Memory
        BY <2>1 DEF Evict, VictimsAreMarked
      <3>2. CASE Head(adding[a].todo).category = "archive"
        <4>1. m = adding[a].victim BY <2>1, <3>1, <3>2 DEF Evict, MakeRoom, Forget
        <4> QED BY <3>1, <3>2, <4>1 DEF VictimsAreMarked
      <3>3. CASE ArchiveEntry(adding[a].victim, adding[a].relevance)
        <4>1. memories'[m].at = memories[m].at
          BY <3>1, <3>3 DEF ArchiveEntry, MemoryRow
        <4> QED BY <4>1
      <3> QED BY <2>1, <3>2, <3>3 DEF Evict, MakeRoom
    <2>2. ASSUME NEW a \in Adder, NEW n \in Memory, CreateMemory(a, n) PROVE FALSE
      BY <2>2 DEF CreateMemory
    <2>3. ASSUME NEW n \in Memory, NEW c \in MemoryCategory, PromoteEntry(n, c) PROVE FALSE
      <3>1. memories'[m].at = memories[m].at BY <2>3 DEF PromoteEntry, MemoryRow
      <3> QED BY <3>1
    <2>4. ASSUME NEW n \in Memory, ReachExpiry(n) PROVE FALSE
      <3>1. memories'[m].at \in {memories[m].at, "expired"} BY <2>4 DEF ReachExpiry, MemoryRow
      <3> QED BY <3>1
    <2>5. ASSUME RunDecayCycle PROVE FALSE BY <2>5 DEF RunDecayCycle
    <2>6. ASSUME NEW a \in Adder, NEW todo, StartAdding(a, todo) \/ ReadCategory(a) PROVE FALSE
      BY <2>6 DEF StartAdding, ReadCategory
    <2>7. ASSUME NEW a \in Adder, RecordOutcome(a) PROVE FALSE
      BY <2>6, <2>7 DEF RecordOutcome
    <2> QED BY <2>1, <2>2, <2>3, <2>4, <2>5, <2>6, <2>7 DEF MemoryNext
  <1> QED
    BY <1>1, MemoryTypeCorrect, PTL DEF MemorySpec, ForgottenOnlyFromTheArchive

-----------------------------------------------------------------------------
(* Usage of the workers.                                                   *)

\* The timer counts the units that have passed in full.
LEMMA Division ==
    ASSUME NEW a \in Nat, NEW l \in Nat \ {0}
    PROVE  /\ a \div l \in Nat
           /\ (a \div l) * l <= a
           /\ a < (a \div l) * l + l
  OBVIOUS

\* What has been booked outside stop().
Booked == {r \in usageRows : ~r.stopping}

\* The units fit the time: every one that had passed when the timer last fired is
\* counted, the last in part.
Fair(units, start, end) ==
    /\ start <= end
    /\ end - start < units * AwuLength + TickLength
    /\ units * AwuLength <= end - start + AwuLength

RowsAreFair == \A r \in Booked : Fair(r.awus, r.startedAt, r.endedAt) /\ r.endedAt <= clock

RowsAreApart ==
    \A r, q \in Booked : r.worker = q.worker =>
        q = r \/ q.endedAt <= r.startedAt \/ r.endedAt <= q.startedAt

\* A session begins after everything booked for its worker has ended.
SessionsFollow ==
    \A w \in Worker : activeSessions[w].active =>
        /\ activeSessions[w].startedAt <= clock
        /\ \A r \in Booked : r.worker = w => r.endedAt <= activeSessions[w].startedAt

\* The units that had passed in full when the timer last fired, before which it waited
\* for as long as it is not going to wait now.
Within(units, lasted, wait) ==
    /\ units * AwuLength <= lasted
    /\ lasted + wait < units * AwuLength + AwuLength + TickLength

\* As long as the timer runs, what it has not counted of a session is less than a unit
\* and the time since it last fired.
SessionsAreCounted ==
    stopping = Running =>
        \A w \in Worker : activeSessions[w].active =>
            LET units == activeSessions[w].awuCount
                lasted == clock - activeSessions[w].startedAt
            IN  Within(units, lasted, untilTick)

UsageInv ==
    UsageTypeOK /\ RowsAreFair /\ RowsAreApart /\ SessionsFollow /\ SessionsAreCounted

\* The session as counted by the timer is one, whose units have passed in full.
LEMMA CountedSession ==
    ASSUME UsageInv, NEW w \in Worker, activeSessions[w].active, stopping = Running
    PROVE  LET counted == Counted(activeSessions[w])
               lasted == clock - activeSessions[w].startedAt IN
           /\ counted \in Session
           /\ counted.active
           /\ counted.startedAt = activeSessions[w].startedAt
           /\ counted.awuCount * AwuLength <= lasted
           /\ lasted < counted.awuCount * AwuLength + AwuLength
  <1> DEFINE session == activeSessions[w]
             lasted == clock - session.startedAt
             expected == lasted \div AwuLength
             units == IF expected > session.awuCount THEN expected ELSE session.awuCount
  <1>1. session \in Session /\ clock \in Nat /\ AwuLength \in Nat \ {0}
    BY UsageAssumption DEF UsageInv, UsageTypeOK
  <1>2. session.startedAt \in Nat /\ session.awuCount \in Nat BY <1>1 DEF Session
  <1>3. lasted \in Nat BY <1>1, <1>2 DEF UsageInv, SessionsFollow
  <1>4. session.awuCount * AwuLength <= lasted BY DEF UsageInv, SessionsAreCounted, Within
  <1>5. expected \in Nat /\ expected * AwuLength <= lasted
            /\ lasted < expected * AwuLength + AwuLength
    <2> HIDE DEF lasted
    <2> QED BY <1>1, <1>3, Division
  <1> HIDE DEF lasted, expected
  <1>6. units \in Nat /\ units * AwuLength <= lasted /\ lasted < units * AwuLength + AwuLength
    <2>1. CASE expected > session.awuCount BY <1>5, <2>1
    <2>2. CASE ~(expected > session.awuCount)
      <3>1. expected * AwuLength <= session.awuCount * AwuLength BY <1>1, <1>2, <1>5, <2>2
      <3>2. /\ expected * AwuLength \in Int /\ session.awuCount * AwuLength \in Int
            /\ lasted \in Int /\ AwuLength \in Int
        BY <1>1, <1>2, <1>3, <1>5
      <3>3. lasted < session.awuCount * AwuLength + AwuLength BY <1>5, <3>1, <3>2
      <3> QED BY <1>2, <1>4, <2>2, <3>3
    <2> QED BY <2>1, <2>2
  <1>7. Counted(session) = [session EXCEPT !.awuCount = units]
    <2>1. ExpectedAwus(session) = expected BY DEF ExpectedAwus, expected, lasted
    <2> QED BY <1>1, <2>1 DEF Counted, Session
  <1> HIDE DEF units
  <1>8. /\ [session EXCEPT !.awuCount = units] \in Session
        /\ [session EXCEPT !.awuCount = units].active = session.active
        /\ [session EXCEPT !.awuCount = units].startedAt = session.startedAt
        /\ [session EXCEPT !.awuCount = units].awuCount = units
    BY <1>1, <1>6 DEF Session
  <1> QED BY <1>6, <1>7, <1>8 DEF lasted

\* Booking a session makes one row of its worker at most.
LEMMA BookedSession ==
    ASSUME UsageTypeOK, NEW w \in Worker, NEW session \in Session
    PROVE  \A b \in Booking(w, session) :
               /\ b \in UsageRow
               /\ b.worker = w /\ b.startedAt = session.startedAt /\ b.endedAt = clock
               /\ b.awus = session.awuCount /\ b.stopping = (stopping # Running)
  <1> DEFINE late == stopping # Running
             row == [worker |-> w, startedAt |-> session.startedAt, endedAt |-> clock,
                     awus |-> session.awuCount, stopping |-> late]
  <1>1. late \in BOOLEAN OBVIOUS
  <1>2. clock \in Nat BY UsageAssumption DEF UsageTypeOK
  <1>3. Booking(w, session) \subseteq {row} BY DEF Booking
  <1> HIDE DEF late
  <1>4. row \in UsageRow BY <1>1, <1>2 DEF UsageRow, Session
  <1> QED BY <1>3, <1>4 DEF late

\* Fair rows that begin after everything booked for their workers may be added.
LEMMA BookMore ==
    ASSUME UsageInv, NEW more \in SUBSET UsageRow, usageRows' \subseteq usageRows \cup more,
           clock' = clock \/ (more = {} /\ clock' = clock + 1),
           \A b \in more : ~b.stopping =>
               /\ Fair(b.awus, b.startedAt, b.endedAt) /\ b.endedAt = clock
               /\ \A r \in Booked : r.worker = b.worker => r.endedAt <= b.startedAt,
           \A b, c \in more : b.worker = c.worker => b = c
    PROVE  RowsAreFair' /\ RowsAreApart'
  <1>1. Booked' \subseteq Booked \cup {b \in more : ~b.stopping} BY DEF Booked
  <1>2. \A r \in Booked : r.startedAt \in Nat /\ r.endedAt \in Nat /\ r.awus \in Nat
    BY DEF UsageInv, UsageTypeOK, UsageRow, Booked
  <1>3. \A b \in more : b.startedAt \in Nat /\ b.endedAt \in Nat /\ b.awus \in Nat
    BY DEF UsageRow
  <1>4. clock \in Nat /\ AwuLength \in Nat /\ clock' \in Nat
    BY UsageAssumption DEF UsageInv, UsageTypeOK
  <1>5. RowsAreFair'
    <2> SUFFICES ASSUME NEW r \in Booked'
                 PROVE  Fair(r.awus, r.startedAt, r.endedAt) /\ r.endedAt <= clock'
      BY DEF RowsAreFair, Fair
    <2>1. CASE r \in Booked BY <1>2, <1>4, <2>1 DEF UsageInv, RowsAreFair
    <2>2. CASE r \in more /\ ~r.stopping BY <1>3, <1>4, <2>2
    <2> QED BY <1>1, <2>1, <2>2
  <1>6. RowsAreApart'
    <2> SUFFICES ASSUME NEW r \in Booked', NEW q \in Booked', r.worker = q.worker
                 PROVE  q = r \/ q.endedAt <= r.startedAt \/ r.endedAt <= q.startedAt
      BY DEF RowsAreApart
    <2>1. CASE r \in Booked /\ q \in Booked BY <2>1 DEF UsageInv, RowsAreApart
    <2>2. CASE r \in Booked /\ q \in more /\ ~q.stopping BY <2>2
    <2>3. CASE q \in Booked /\ r \in more /\ ~r.stopping BY <2>3
    <2>4. CASE q \in more /\ r \in more BY <2>4
    <2> QED BY <1>1, <2>1, <2>2, <2>3, <2>4
  <1> QED BY <1>5, <1>6

\* Progress begins a session or goes on with the one there is.
LEMMA TouchedSession ==
    ASSUME UsageInv, NEW w \in Worker
    PROVE  /\ Touched(w) \in Session /\ Touched(w).active
           /\ Touched(w).startedAt <= clock
           /\ \A r \in Booked : r.worker = w => r.endedAt <= Touched(w).startedAt
           /\ stopping = Running =>
                  LET units == Touched(w).awuCount
                      lasted == clock - Touched(w).startedAt
                  IN  Within(units, lasted, untilTick)
  <1>1. activeSessions[w] \in Session /\ clock \in Nat /\ AwuLength \in Nat \ {0}
    BY UsageAssumption DEF UsageInv, UsageTypeOK
  <1>1a. untilTick \in 0..TickLength /\ TickLength \in Nat \ {0}
    BY UsageAssumption DEF UsageInv, UsageTypeOK
  <1>2. CASE activeSessions[w].active
    <2> DEFINE session == [activeSessions[w] EXCEPT !.lastActivityAt = clock]
    <2>1. /\ session \in Session /\ session.active = activeSessions[w].active
          /\ session.startedAt = activeSessions[w].startedAt
          /\ session.awuCount = activeSessions[w].awuCount
      BY <1>1 DEF Session
    <2>2. Touched(w) = session BY <1>2 DEF Touched
    <2> HIDE DEF session
    <2> QED BY <1>2, <2>1, <2>2 DEF UsageInv, SessionsFollow, SessionsAreCounted
  <1>3. CASE ~activeSessions[w].active
    <2> DEFINE session == [startedAt |-> clock, lastActivityAt |-> clock, awuCount |-> 0,
                           active |-> TRUE]
    <2>1. session \in Session /\ session.active /\ session.startedAt = clock
              /\ session.awuCount = 0
      BY <1>1 DEF Session
    <2>2. Touched(w) = session BY <1>3 DEF Touched
    <2> HIDE DEF session
    <2>3. \A r \in Booked : r.endedAt <= clock BY DEF UsageInv, RowsAreFair
    <2>4. clock - clock = 0 /\ 0 * AwuLength = 0 BY <1>1
    <2>5. Within(0, 0, untilTick) BY <1>1, <1>1a, <2>4 DEF Within
    <2> QED BY <1>1, <2>1, <2>2, <2>3, <2>4, <2>5
  <1> QED BY <1>2, <1>3

\* Every step keeps the clock, the sessions and the rows what they are, the rows fair
\* and apart, and the sessions behind the rows and counted.
LEMMA NextUsage == UsageInv /\ [UsageNext]_usageVars => UsageInv'
  <1> SUFFICES ASSUME UsageInv, [UsageNext]_usageVars PROVE UsageInv'
    OBVIOUS
  <1>0. /\ clock \in Nat /\ AwuLength \in Nat \ {0} /\ MaxClock \in Nat
        /\ activeSessions \in [Worker -> Session] /\ usageRows \subseteq UsageRow
        /\ untilTick \in 0..TickLength /\ TickLength \in Nat \ {0}
        /\ NoSession \in Session /\ ~NoSession.active /\ Running = {"running"}
        /\ "running" \notin Worker
    BY UsageAssumption DEF UsageInv, UsageTypeOK, NoSession, Session, Running
  <1>1. ASSUME usageRows' = usageRows, clock' = clock
        PROVE  RowsAreFair' /\ RowsAreApart' /\ Booked' = Booked
    BY <1>1 DEF UsageInv, RowsAreFair, RowsAreApart, Booked, Fair
  <1>2. ASSUME NEW w \in Worker, Progress(w) PROVE UsageInv'
    <2> DEFINE session == Touched(w)
    <2>1. /\ activeSessions' = [activeSessions EXCEPT ![w] = session]
          /\ UNCHANGED <<clock, untilTick, usageRows, stopping>>
      BY <1>2 DEF Progress
    <2>2. /\ session \in Session /\ session.active
          /\ session.startedAt <= clock
          /\ \A r \in Booked : r.worker = w => r.endedAt <= session.startedAt
          /\ stopping = Running =>
                  LET units == session.awuCount
                      lasted == clock - session.startedAt
                  IN  Within(units, lasted, untilTick)
      BY TouchedSession
    <2> HIDE DEF session
    <2>3. UsageTypeOK' BY <2>1, <2>2 DEF UsageInv, UsageTypeOK
    <2>4. activeSessions'[w] = session
              /\ \A x \in Worker \ {w} : activeSessions'[x] = activeSessions[x]
      BY <1>0, <2>1
    <2>5. SessionsFollow' BY <1>1, <2>1, <2>2, <2>4 DEF UsageInv, SessionsFollow
    <2>6. SessionsAreCounted' BY <2>1, <2>2, <2>4 DEF UsageInv, SessionsAreCounted
    <2> QED BY <1>1, <2>1, <2>3, <2>5, <2>6 DEF UsageInv
  <1>3. ASSUME NEW w \in Worker, Done(w) PROVE UsageInv'
    <2> DEFINE touched == Touched(w)
               session == [touched EXCEPT !.awuCount = @ + 1]
               more == Booking(w, session)
    <2>1. /\ usageRows \subseteq usageRows' /\ usageRows' \subseteq usageRows \cup more
          /\ activeSessions' = [activeSessions EXCEPT ![w] = NoSession]
          /\ UNCHANGED <<clock, untilTick, stopping>>
      BY <1>3 DEF Done, FlushSessions
    <2>2. /\ touched \in Session
          /\ touched.startedAt <= clock
          /\ \A r \in Booked : r.worker = w => r.endedAt <= touched.startedAt
          /\ stopping = Running =>
                  LET units == touched.awuCount
                      lasted == clock - touched.startedAt
                  IN  Within(units, lasted, untilTick)
      BY TouchedSession
    <2> HIDE DEF touched
    <2>3. touched.awuCount \in Nat /\ touched.startedAt \in Nat BY <2>2 DEF Session
    <2>4. session \in Session /\ session.awuCount = touched.awuCount + 1
              /\ session.startedAt = touched.startedAt
      BY <2>2, <2>3 DEF Session
    <2> HIDE DEF session
    <2>5. \A b \in more : /\ b \in UsageRow
                          /\ b.worker = w /\ b.startedAt = session.startedAt
                          /\ b.endedAt = clock /\ b.awus = session.awuCount
                          /\ b.stopping = (stopping # Running)
      BY <2>4, BookedSession DEF UsageInv
    <2>6. \A b, c \in more : b = c BY DEF Booking
    <2> HIDE DEF more
    <2>7. (touched.awuCount + 1) * AwuLength = touched.awuCount * AwuLength + AwuLength
              /\ touched.awuCount * AwuLength \in Nat
      BY <1>0, <2>3
    <2>8. stopping = Running => Fair(session.awuCount, session.startedAt, clock)
      BY <1>0, <2>2, <2>3, <2>4, <2>7 DEF Fair, Within
    <2>9. RowsAreFair' /\ RowsAreApart'
      <3>1. more \in SUBSET UsageRow BY <2>5
      <3>2. \A b \in more : ~b.stopping =>
                /\ Fair(b.awus, b.startedAt, b.endedAt) /\ b.endedAt = clock
                /\ \A r \in Booked : r.worker = b.worker => r.endedAt <= b.startedAt
        BY <2>2, <2>4, <2>5, <2>8
      <3>3. \A b, c \in more : b.worker = c.worker => b = c BY <2>6
      <3>4. usageRows' \subseteq usageRows \cup more BY <2>1
      <3> QED BY <2>1, <3>1, <3>2, <3>3, <3>4, BookMore
    <2>10. UsageTypeOK' BY <1>0, <2>1, <2>5 DEF UsageInv, UsageTypeOK
    <2>11. ~activeSessions'[w].active
               /\ \A x \in Worker \ {w} : activeSessions'[x] = activeSessions[x]
      BY <1>0, <2>1
    <2>12. \A r \in Booked' : r \in Booked \/ r.worker = w BY <2>1, <2>5 DEF Booked
    <2>13. SessionsFollow' BY <2>1, <2>11, <2>12 DEF UsageInv, SessionsFollow
    <2>14. SessionsAreCounted' BY <2>1, <2>11 DEF UsageInv, SessionsAreCounted, Within
    <2> QED BY <2>9, <2>10, <2>13, <2>14 DEF UsageInv
  <1>4. ASSUME NEW w \in Worker, StopFlushes(w) PROVE UsageInv'
    <2> DEFINE more == Booking(w, activeSessions[w])
    <2>1. /\ usageRows \subseteq usageRows' /\ usageRows' \subseteq usageRows \cup more
          /\ stopping # Running /\ stopping' = stopping \ {w}
          /\ UNCHANGED <<clock, untilTick, activeSessions>>
      BY <1>4 DEF StopFlushes, FlushSessions
    <2>2. \A b \in more : b \in UsageRow /\ b.stopping
      BY <1>0, <2>1, BookedSession DEF UsageInv
    <2> HIDE DEF more
    <2>3. UsageTypeOK' BY <2>1, <2>2 DEF UsageInv, UsageTypeOK
    <2>4. Booked' = Booked BY <2>1, <2>2 DEF Booked
    <2>5. stopping' # Running
      BY <1>0, <2>1 DEF UsageInv, UsageTypeOK
    <2> QED BY <2>1, <2>3, <2>4, <2>5
            DEF UsageInv, RowsAreFair, RowsAreApart, SessionsFollow, SessionsAreCounted, Within, Fair
  <1>5. CASE TickAwu
    <2> DEFINE stale == {w \in Worker : Stale(activeSessions[w])}
               ended(w) == [Counted(activeSessions[w]) EXCEPT !.awuCount = @ + 1]
               more == UNION {Booking(w, ended(w)) : w \in stale}
    <2>1. /\ stopping = Running /\ untilTick' = TickLength /\ UNCHANGED <<clock, stopping>>
          /\ usageRows' \subseteq usageRows \cup more
          /\ \A w \in Worker : activeSessions'[w] =
                 IF activeSessions[w].active /\ ~Stale(activeSessions[w])
                   THEN Counted(activeSessions[w]) ELSE NoSession
      <3>1. \E made \in SUBSET more : usageRows' = usageRows \cup made
        BY <1>5, Zenon DEF TickAwu, FlushSessions
      <3>2. usageRows' \subseteq usageRows \cup more BY <3>1
      <3> HIDE DEF more
      <3> QED BY <1>5, <3>2 DEF TickAwu
    <2>1a. activeSessions' = [w \in Worker |-> activeSessions'[w]]
      BY <1>5 DEF TickAwu
    <2>1b. \A w \in Worker :
              activeSessions'[w] = IF w \notin stale /\ activeSessions[w].active
                                     THEN Counted(activeSessions[w]) ELSE NoSession
      <3> SUFFICES ASSUME NEW w \in Worker
                   PROVE  activeSessions'[w] = IF w \notin stale /\ activeSessions[w].active
                                                 THEN Counted(activeSessions[w])
                                                 ELSE NoSession
        OBVIOUS
      <3> QED BY <2>1
    <2>2. ASSUME NEW w \in stale
          PROVE  /\ ended(w) \in Session
                 /\ ended(w).startedAt = activeSessions[w].startedAt
                 /\ Fair(ended(w).awuCount, ended(w).startedAt, clock)
                 /\ \A r \in Booked : r.worker = w => r.endedAt <= ended(w).startedAt
      <3> DEFINE counted == Counted(activeSessions[w])
      <3>0. activeSessions[w].active /\ w \in Worker BY DEF Stale
      <3>1. /\ counted \in Session
            /\ counted.startedAt = activeSessions[w].startedAt
            /\ counted.awuCount * AwuLength <= clock - counted.startedAt
            /\ clock - counted.startedAt < counted.awuCount * AwuLength + AwuLength
        BY <2>1, <3>0, CountedSession
      <3> HIDE DEF counted
      <3>2. counted.awuCount \in Nat /\ counted.startedAt \in Nat BY <3>1 DEF Session
      <3> DEFINE last == [counted EXCEPT !.awuCount = @ + 1]
      <3>3. last \in Session /\ last.awuCount = counted.awuCount + 1
                /\ last.startedAt = counted.startedAt
        BY <3>1, <3>2 DEF Session
      <3>4. (counted.awuCount + 1) * AwuLength = counted.awuCount * AwuLength + AwuLength
                /\ counted.awuCount * AwuLength \in Nat
        BY <1>0, <3>2
      <3>5. counted.startedAt <= clock BY <3>0, <3>1 DEF UsageInv, SessionsFollow
      <3>6. ended(w) = last BY DEF counted
      <3> HIDE DEF last, ended
      <3>7. Fair(ended(w).awuCount, ended(w).startedAt, clock)
        BY <1>0, <3>1, <3>2, <3>3, <3>4, <3>5, <3>6 DEF Fair
      <3>8. \A r \in Booked : r.worker = w => r.endedAt <= ended(w).startedAt
        BY <3>0, <3>1, <3>3, <3>6 DEF UsageInv, SessionsFollow
      <3> QED BY <3>1, <3>3, <3>6, <3>7, <3>8
    <2> HIDE DEF ended
    <2>3. \A w \in stale : \A b \in Booking(w, ended(w)) :
              /\ b \in UsageRow /\ ~b.stopping
              /\ b.worker = w /\ b.startedAt = ended(w).startedAt
              /\ b.endedAt = clock /\ b.awus = ended(w).awuCount
      <3> SUFFICES ASSUME NEW w \in stale, NEW b \in Booking(w, ended(w))
                   PROVE  /\ b \in UsageRow /\ ~b.stopping
                          /\ b.worker = w /\ b.startedAt = ended(w).startedAt
                          /\ b.endedAt = clock /\ b.awus = ended(w).awuCount
        OBVIOUS
      <3>1. w \in Worker /\ ended(w) \in Session BY <2>2
      <3> HIDE DEF stale
      <3>2. /\ b \in UsageRow /\ b.stopping = (stopping # Running)
            /\ b.worker = w /\ b.startedAt = ended(w).startedAt
            /\ b.endedAt = clock /\ b.awus = ended(w).awuCount
        BY <3>1, BookedSession DEF UsageInv
      <3>3. b.stopping = FALSE BY <2>1, <3>2
      <3> QED BY <3>2, <3>3
    <2>4. \A w \in stale : \A b, c \in Booking(w, ended(w)) : b = c BY DEF Booking
    <2>5. \A b \in more : /\ b.worker \in stale /\ b \in Booking(b.worker, ended(b.worker))
      BY <2>3
    <2> HIDE DEF more
    <2>6. RowsAreFair' /\ RowsAreApart'
      <3>1. more \in SUBSET UsageRow BY <2>3, <2>5
      <3>2. \A b \in more : ~b.stopping =>
                /\ Fair(b.awus, b.startedAt, b.endedAt) /\ b.endedAt = clock
                /\ \A r \in Booked : r.worker = b.worker => r.endedAt <= b.startedAt
        <4> SUFFICES ASSUME NEW b \in more
                     PROVE  /\ Fair(b.awus, b.startedAt, b.endedAt) /\ b.endedAt = clock
                            /\ \A r \in Booked :
                                   r.worker = b.worker => r.endedAt <= b.startedAt
          OBVIOUS
        <4> DEFINE w == b.worker
        <4>1. /\ w \in stale /\ b.startedAt = ended(w).startedAt /\ b.endedAt = clock
              /\ b.awus = ended(w).awuCount
          BY <2>3, <2>5
        <4> HIDE DEF stale
        <4> QED BY <2>2, <4>1
      <3>3. \A b, c \in more : b.worker = c.worker => b = c BY <2>4, <2>5
      <3>4. usageRows' \subseteq usageRows \cup more BY <2>1
      <3> QED BY <2>1, <3>1, <3>2, <3>3, <3>4, BookMore
    <2>7. \A w \in Worker : activeSessions'[w].active =>
              activeSessions[w].active /\ w \notin stale
                  /\ activeSessions'[w] = Counted(activeSessions[w])
      BY <1>0, <2>1b
    <2>8. \A w \in Worker : activeSessions'[w] \in Session
      BY <1>0, <2>1, <2>1b, CountedSession
    <2>9. UsageTypeOK'
      <3>1. usageRows' \subseteq UsageRow BY <1>0, <2>1, <2>3, <2>5
      <3>2. activeSessions' \in [Worker -> Session] BY <2>1a, <2>8
      <3>3. untilTick' \in 0..TickLength BY <1>0, <2>1
      <3> QED BY <2>1, <3>1, <3>2, <3>3 DEF UsageInv, UsageTypeOK
    <2>10. \A r \in Booked' : r \in Booked \/ r.worker \in stale
      BY <2>1, <2>5 DEF Booked
    <2>11. ASSUME NEW w \in Worker, activeSessions'[w].active
           PROVE  LET units == activeSessions'[w].awuCount
                      lasted == clock - activeSessions'[w].startedAt IN
                  /\ activeSessions'[w].startedAt = activeSessions[w].startedAt
                  /\ units * AwuLength <= lasted
                  /\ lasted < units * AwuLength + AwuLength
                  /\ units \in Nat /\ lasted \in Int
      <3> DEFINE counted == Counted(activeSessions[w])
      <3>1. activeSessions'[w] = counted /\ activeSessions[w].active BY <2>7, <2>11
      <3>2. /\ counted \in Session
            /\ counted.startedAt = activeSessions[w].startedAt
            /\ counted.awuCount * AwuLength <= clock - counted.startedAt
            /\ clock - counted.startedAt < counted.awuCount * AwuLength + AwuLength
        BY <2>1, <3>1, CountedSession
      <3> HIDE DEF counted
      <3>3. counted.awuCount \in Nat /\ clock - counted.startedAt \in Int
        BY <1>0, <3>2 DEF Session
      <3> QED BY <3>1, <3>2, <3>3
    <2>12. SessionsFollow'
      BY <2>1, <2>7, <2>10, <2>11 DEF UsageInv, SessionsFollow
    <2>13. SessionsAreCounted'
      BY <1>0, <2>1, <2>11 DEF SessionsAreCounted, Within
    <2> QED BY <2>6, <2>9, <2>12, <2>13 DEF UsageInv
  <1>6. CASE Advance
    <2>1. /\ untilTick > 0 /\ clock' = clock + 1
          /\ stopping = Running => untilTick' = untilTick - 1
          /\ untilTick' \in 0..TickLength
          /\ UNCHANGED <<activeSessions, usageRows, stopping>>
      BY <1>0, <1>6 DEF Advance
    <2>2. UsageTypeOK'
      <3>1. clock' \in 0..MaxClock BY <1>0, <1>6 DEF Advance
      <3> QED BY <2>1, <3>1 DEF UsageInv, UsageTypeOK
    <2>3. Booked' = Booked BY <2>1 DEF Booked
    <2>4. \A r \in Booked : r.endedAt \in Nat BY <1>0 DEF Booked, UsageRow
    <2>5. RowsAreFair' /\ RowsAreApart'
      BY <1>0, <2>1, <2>3, <2>4 DEF UsageInv, RowsAreFair, RowsAreApart, Fair
    <2>6. \A w \in Worker : activeSessions[w].startedAt \in Nat /\ activeSessions[w].awuCount \in Nat
      BY <1>0 DEF Session
    <2>7. SessionsFollow' BY <1>0, <2>1, <2>3, <2>6 DEF UsageInv, SessionsFollow
    <2>8. SessionsAreCounted'
      <3>1. ASSUME stopping' = Running, NEW w \in Worker, activeSessions'[w].active
            PROVE  Within(activeSessions'[w].awuCount, clock' - activeSessions'[w].startedAt,
                          untilTick')
        <4> DEFINE count == activeSessions[w].awuCount
                   start == activeSessions[w].startedAt
        <4>1. Within(count, clock - start, untilTick)
          BY <2>1, <3>1 DEF UsageInv, SessionsAreCounted
        <4>2. count * AwuLength \in Nat /\ start \in Nat BY <1>0, <2>6
        <4> HIDE DEF start, count
        <4>3. clock' = clock + 1 /\ untilTick' = untilTick - 1 BY <2>1, <3>1
        <4>4. Within(count, clock' - start, untilTick')
          BY <1>0, <4>1, <4>2, <4>3 DEF Within
        <4>5. activeSessions'[w].awuCount = count /\ activeSessions'[w].startedAt = start
          BY <2>1 DEF count, start
        <4> QED BY <4>4, <4>5
      <3> QED BY <3>1 DEF SessionsAreCounted
    <2> QED BY <2>2, <2>5, <2>7, <2>8 DEF UsageInv
  <1>7. CASE StopRecorder
    <2>1. /\ stopping' = Worker /\ untilTick' = TickLength
          /\ UNCHANGED <<clock, activeSessions, usageRows>>
      BY <1>7 DEF StopRecorder
    <2>2. UsageTypeOK' BY <1>0, <2>1 DEF UsageInv, UsageTypeOK
    <2>3. stopping' # Running BY <1>0, <2>1
    <2> QED BY <1>1, <2>1, <2>2, <2>3 DEF UsageInv, SessionsFollow, SessionsAreCounted, Within
  <1>8. CASE StopEnds
    <2>1. /\ activeSessions' = [w \in Worker |-> NoSession] /\ stopping' = Running
          /\ UNCHANGED <<clock, untilTick, usageRows>>
      BY <1>8 DEF StopEnds
    <2>2. UsageTypeOK' BY <1>0, <2>1 DEF UsageInv, UsageTypeOK
    <2>3. \A w \in Worker : ~activeSessions'[w].active BY <1>0, <2>1
    <2> QED BY <1>1, <2>1, <2>2, <2>3 DEF UsageInv, SessionsFollow, SessionsAreCounted, Within
  <1>9. CASE UNCHANGED usageVars
    <2>1. UNCHANGED <<clock, untilTick, activeSessions, usageRows, stopping>>
      BY <1>9 DEF usageVars
    <2> QED BY <1>1, <2>1 DEF UsageInv, UsageTypeOK, SessionsFollow, SessionsAreCounted, Within
  <1> QED BY <1>2, <1>3, <1>4, <1>5, <1>6, <1>7, <1>8, <1>9 DEF UsageNext

\* The recorder's clock, sessions and rows keep their types, and what the timer has not
\* counted of a session is less than a unit and the time since it last fired.
THEOREM UsageTypeCorrect == UsageSpec => []UsageInv
  <1>1. UsageInit => UsageInv
    <2> SUFFICES ASSUME UsageInit PROVE UsageInv
      OBVIOUS
    <2>1. NoSession \in Session /\ ~NoSession.active BY DEF NoSession, Session
    <2>2. UsageTypeOK BY <2>1, UsageAssumption DEF UsageInit, UsageTypeOK
    <2>3. Booked = {} BY DEF UsageInit, Booked
    <2>4. \A w \in Worker : ~activeSessions[w].active BY <2>1 DEF UsageInit
    <2> QED BY <2>2, <2>3, <2>4 DEF UsageInv, RowsAreFair, RowsAreApart, SessionsFollow,
                                    SessionsAreCounted
  <1> QED BY <1>1, NextUsage, PTL DEF UsageSpec

\* Whatever comes between the ticks of the timer, the sessions booked outside stop() are
\* booked with the units they lasted, and no time of a worker is booked twice.
THEOREM TimeIsBookedOnce == UsageSpec => []SessionsAreBookedOnce
  <1>1. UsageInv => SessionsAreBookedOnce
    BY DEF UsageInv, RowsAreFair, RowsAreApart, Booked, Fair, SessionsAreBookedOnce
  <1> QED BY <1>1, UsageTypeCorrect, PTL

-----------------------------------------------------------------------------
(* Failure patterns.                                                       *)

\* Reports that have found no row and are about to insert one.
Inserting(s) ==
    {r \in Report : reports[r].at = "write" /\ reports[r].row = 0 /\ reports[r].signature = s}

\* A report about to update has the row of its signature, one about to alert has a row.
WritersKnowTheirRow ==
    \A r \in Report :
        /\ reports[r].at = "write" /\ reports[r].row # 0 =>
               patterns[reports[r].row].signature = reports[r].signature
        /\ reports[r].at = "alert" => reports[r].row # 0

\* What a row may yet come to: no count in it, nor one about to be written over it, is
\* higher, and with the rows about to be inserted these add up to what was reported.
Caps(cap) ==
    /\ \A i \in DOMAIN patterns : patterns[i].count <= cap[i]
    /\ \A r \in Report : reports[r].at = "write" /\ reports[r].row # 0 =>
           reports[r].count <= cap[reports[r].row]
    /\ \A s \in Signature :
           SumFunctionOnSet(cap, RowsOf(s)) + Cardinality(Inserting(s)) <= reported[s]

CountsAreCapped == \E cap \in [DOMAIN patterns -> Nat] : Caps(cap)

PatternInv == PatternTypeOK /\ WritersKnowTheirRow /\ CountsAreCapped

\* A row counts at least one failure of a signature.
LEMMA RowsCount ==
    ASSUME PatternTypeOK, NEW i \in DOMAIN patterns
    PROVE  /\ patterns[i] \in PatternRow
           /\ patterns[i].count \in 1..MaxReported /\ patterns[i].count \in Nat
           /\ patterns[i].signature \in Signature
  <1>1. patterns[i] \in PatternRow BY DEF PatternTypeOK
  <1>2. MaxReported \in Nat BY PatternAssumption
  <1> QED BY <1>1, <1>2 DEF PatternRow

\* The rows of a signature are finitely many, and so are the reports.
LEMMA FiniteRows ==
    ASSUME PatternTypeOK, NEW s
    PROVE  IsFiniteSet(RowsOf(s)) /\ IsFiniteSet(Inserting(s))
  <1>1. DOMAIN patterns = 1..Len(patterns) /\ Len(patterns) \in Nat
    BY LenProperties DEF PatternTypeOK
  <1>2. IsFiniteSet(1..Len(patterns)) BY <1>1, FS_Interval
  <1>3. RowsOf(s) \in SUBSET (1..Len(patterns)) BY <1>1 DEF RowsOf
  <1>4. Inserting(s) \in SUBSET Report BY DEF Inserting
  <1> QED BY <1>2, <1>3, <1>4, FS_Subset, PatternAssumption

\* The caps bound what the rows of a signature count.
LEMMA CappedCounts ==
    ASSUME PatternTypeOK, CountsAreCapped
    PROVE  CountsAreBacked
  <1>1. PICK cap \in [DOMAIN patterns -> Nat] : Caps(cap) BY DEF CountsAreCapped
  <1> SUFFICES ASSUME NEW s \in Signature
               PROVE  SumFunction([i \in RowsOf(s) |-> patterns[i].count]) <= reported[s]
    BY DEF CountsAreBacked
  <1> DEFINE counts == [i \in RowsOf(s) |-> patterns[i].count]
  <1>2. SumFunction(counts) = SumFunctionOnSet(counts, RowsOf(s)) BY Zenon DEF SumFunction
  <1>3. IsFiniteSet(RowsOf(s)) /\ IsFiniteSet(Inserting(s)) BY FiniteRows
  <1>4. \A i \in RowsOf(s) : counts[i] \in Nat /\ cap[i] \in Nat /\ counts[i] <= cap[i]
    <2> SUFFICES ASSUME NEW i \in RowsOf(s)
                 PROVE  counts[i] \in Nat /\ cap[i] \in Nat /\ counts[i] <= cap[i]
      OBVIOUS
    <2>1. i \in DOMAIN patterns /\ counts[i] = patterns[i].count BY DEF RowsOf
    <2>2. patterns[i].count \in Nat /\ patterns[i].count <= cap[i]
      BY <1>1, <2>1, RowsCount DEF Caps
    <2> QED BY <2>1, <2>2
  <1> HIDE DEF counts
  <1>5. SumFunctionOnSet(counts, RowsOf(s)) <= SumFunctionOnSet(cap, RowsOf(s))
    BY <1>3, <1>4, SumMonotone
  <1>6. /\ SumFunctionOnSet(counts, RowsOf(s)) \in Nat
        /\ SumFunctionOnSet(cap, RowsOf(s)) \in Nat
    BY <1>3, <1>4, SumOfNaturals
  <1>7. Cardinality(Inserting(s)) \in Nat BY <1>3, FS_CardinalityType
  <1>8. SumFunctionOnSet(cap, RowsOf(s)) + Cardinality(Inserting(s)) <= reported[s]
    BY <1>1 DEF Caps
  <1>9. reported[s] \in Nat BY PatternAssumption DEF PatternTypeOK
  <1>10. SumFunctionOnSet(counts, RowsOf(s)) <= reported[s]
    BY <1>5, <1>6, <1>7, <1>8, <1>9
  <1> QED BY <1>2, <1>10 DEF counts

\* Before anything is reported there is nothing to count.
LEMMA InitPattern == PatternInit => PatternInv
  <1> SUFFICES ASSUME PatternInit PROVE PatternInv
    OBVIOUS
  <1>1. patterns = <<>> /\ DOMAIN patterns = {} BY DEF PatternInit
  <1>2. PatternTypeOK
    BY PatternAssumption DEF PatternInit, PatternTypeOK
  <1>3. \A r \in Report : reports[r].at = "done" BY DEF PatternInit, NoReport
  <1> DEFINE cap == [i \in DOMAIN patterns |-> 0]
  <1>4. cap \in [DOMAIN patterns -> Nat] OBVIOUS
  <1> HIDE DEF cap
  <1>5. \A s : RowsOf(s) = {} /\ Inserting(s) = {} BY <1>1, <1>3 DEF RowsOf, Inserting
  <1>6. ASSUME NEW s \in Signature
        PROVE  SumFunctionOnSet(cap, RowsOf(s)) + Cardinality(Inserting(s)) <= reported[s]
    <2>1. reported[s] = 0 BY DEF PatternInit
    <2>2. Cardinality(Inserting(s)) = 0 BY <1>5, FS_EmptySet
    <2>3. SumFunctionOnSet(cap, RowsOf(s)) = 0 BY <1>5, SumOfNone
    <2> QED BY <2>1, <2>2, <2>3
  <1>7. Caps(cap) BY <1>1, <1>3, <1>6 DEF Caps
  <1>8. CountsAreCapped BY <1>4, <1>7 DEF CountsAreCapped
  <1> QED BY <1>2, <1>3, <1>8 DEF PatternInv, WritersKnowTheirRow

\* A report reads a row, or that there is none: what it will write goes one over what
\* the row may have come to before.
LEMMA NextRecordFailure ==
    ASSUME PatternInv, NEW r \in Report, NEW s \in Signature, RecordFailure(r, s)
    PROVE  PatternInv'
  <1> USE DEF PatternInv
  <1>1. PICK cap \in [DOMAIN patterns -> Nat] : Caps(cap) BY DEF CountsAreCapped
  <1>2. /\ reports[r].at = "done" /\ reported[s] < MaxReported
        /\ reported' = [reported EXCEPT ![s] = @ + 1]
        /\ UNCHANGED <<patterns, alerts>>
    BY DEF RecordFailure
  <1>3. /\ reported \in [Signature -> 0..MaxReported] /\ MaxReported \in Nat
        /\ reports \in [Report -> Reporting \cup {NoReport}]
        /\ patterns \in Seq(PatternRow)
    BY PatternAssumption DEF PatternTypeOK
  <1>4. /\ reported'[s] = reported[s] + 1 /\ reported[s] \in 0..MaxReported
        /\ reported' \in [Signature -> 0..MaxReported]
        /\ \A t \in Signature \ {s} : reported'[t] = reported[t]
        /\ \A t \in Signature : reported[t] \in Nat
    BY <1>2, <1>3
  <1>5. \A t : RowsOf(t)' = RowsOf(t) BY <1>2 DEF RowsOf
  <1>6. \A t : IsFiniteSet(RowsOf(t)) /\ IsFiniteSet(Inserting(t))
                  /\ Cardinality(Inserting(t)) \in Nat
    BY FiniteRows, FS_CardinalityType
  <1>7. \A t : \A i \in RowsOf(t) : i \in DOMAIN patterns /\ cap[i] \in Nat BY DEF RowsOf
  <1>8. \A t : SumFunctionOnSet(cap, RowsOf(t)) \in Nat BY <1>6, <1>7, SumOfNaturals
  <1>9. \A t \in Signature :
            SumFunctionOnSet(cap, RowsOf(t)) + Cardinality(Inserting(t)) <= reported[t]
    BY <1>1 DEF Caps
  <1>10. ASSUME NEW report \in Reporting, report.at = "write", report.signature = s,
                report.row = 0, reports' = [reports EXCEPT ![r] = report]
         PROVE  PatternInv'
    <2>1. reports'[r] = report /\ \A q \in Report \ {r} : reports'[q] = reports[q]
      BY <1>3, <1>10
    <2>2. Inserting(s)' = Inserting(s) \cup {r} /\ r \notin Inserting(s)
      BY <1>2, <1>10, <2>1 DEF Inserting
    <2>3. \A t \in Signature \ {s} : Inserting(t)' = Inserting(t)
      BY <1>2, <1>10, <2>1 DEF Inserting
    <2>4. Cardinality(Inserting(s)') = Cardinality(Inserting(s)) + 1
      BY <1>6, <2>2, FS_AddElement
    <2>5. \A t \in Signature :
              SumFunctionOnSet(cap, RowsOf(t)') + Cardinality(Inserting(t)') <= reported'[t]
      BY <1>4, <1>5, <1>6, <1>8, <1>9, <2>3, <2>4
    <2>6. Caps(cap)'
      BY <1>1, <1>2, <1>10, <2>1, <2>5 DEF Caps
    <2>7. CountsAreCapped' BY <1>2, <2>6 DEF CountsAreCapped
    <2>8. WritersKnowTheirRow' BY <1>2, <1>10, <2>1 DEF WritersKnowTheirRow
    <2>9. PatternTypeOK'
      <3>1. reports' \in [Report -> Reporting \cup {NoReport}] BY <1>3, <1>10
      <3>2. (Reporting \cup {NoReport})' = Reporting \cup {NoReport}
        BY <1>2 DEF Reporting
      <3> QED BY <1>2, <1>4, <3>1, <3>2 DEF PatternTypeOK
    <2> QED BY <2>7, <2>8, <2>9
  <1>11. ASSUME NEW report \in Reporting, NEW row \in RowsOf(s), report.at = "write",
                report.signature = s, report.row = row, row # 0,
                report.count = patterns[row].count + 1,
                reports' = [reports EXCEPT ![r] = report]
         PROVE  PatternInv'
    <2> DEFINE more == [cap EXCEPT ![row] = @ + 1]
    <2>0. row \in DOMAIN patterns /\ patterns[row].signature = s /\ cap[row] \in Nat
              /\ patterns[row].count \in Nat
      <3>1. row \in DOMAIN patterns /\ patterns[row].signature = s BY DEF RowsOf
      <3> QED BY <1>7, <3>1, RowsCount
    <2>1. reports'[r] = report /\ \A q \in Report \ {r} : reports'[q] = reports[q]
      BY <1>3, <1>11
    <2>2. \A t \in Signature : Inserting(t)' = Inserting(t)
      BY <1>2, <1>11, <2>1 DEF Inserting
    <2>3. /\ more \in [DOMAIN patterns -> Nat] /\ more[row] = cap[row] + 1
          /\ \A i \in DOMAIN patterns \ {row} : more[i] = cap[i]
      BY <2>0
    <2> HIDE DEF more
    <2>4. \A i \in DOMAIN patterns : cap[i] <= more[i] /\ cap[i] \in Nat /\ more[i] \in Nat
      BY <2>0, <2>3
    <2>5. \A i \in RowsOf(s) : cap[i] \in Int /\ more[i] \in Int
      BY <2>4 DEF RowsOf
    <2>6. \A i \in RowsOf(s) \ {row} : cap[i] = more[i] BY <2>3 DEF RowsOf
    <2>7. SumFunctionOnSet(more, RowsOf(s)) =
              SumFunctionOnSet(cap, RowsOf(s)) + (more[row] - cap[row])
      BY <1>6, <1>11, <2>5, <2>6, SumChanged
    <2>8. SumFunctionOnSet(more, RowsOf(s)) = SumFunctionOnSet(cap, RowsOf(s)) + 1
      BY <1>8, <2>0, <2>3, <2>7
    <2>9. ASSUME NEW t \in Signature, t # s
          PROVE  SumFunctionOnSet(cap, RowsOf(t)) = SumFunctionOnSet(more, RowsOf(t))
      <3>1. row \notin RowsOf(t) BY <2>0, <2>9 DEF RowsOf
      <3>2. \A i \in RowsOf(t) : cap[i] = more[i] BY <2>3, <3>1 DEF RowsOf
      <3> QED BY <1>6, <3>2, SumOfEquals
    <2>10. \A t \in Signature :
              SumFunctionOnSet(more, RowsOf(t)') + Cardinality(Inserting(t)') <= reported'[t]
      BY <1>4, <1>5, <1>6, <1>8, <1>9, <2>2, <2>8, <2>9
    <2>11. \A i \in DOMAIN patterns : patterns[i].count <= more[i]
      <3>1. \A i \in DOMAIN patterns : patterns[i].count \in Nat BY RowsCount
      <3> QED BY <1>1, <2>4, <3>1 DEF Caps
    <2>12. ASSUME NEW q \in Report, reports'[q].at = "write", reports'[q].row # 0
           PROVE  reports'[q].count <= more[reports'[q].row]
      <3>1. CASE q = r BY <1>1, <1>11, <2>0, <2>1, <2>3, <3>1 DEF Caps
      <3>2. CASE q # r
        <4>1. reports'[q] = reports[q] BY <2>1, <3>2
        <4>2. reports[q] \in Reporting BY <1>3, <2>12, <4>1 DEF NoReport
        <4>3. reports[q].row \in DOMAIN patterns /\ reports[q].count \in Nat
          BY <1>3, <2>12, <4>1, <4>2 DEF Reporting
        <4> QED BY <1>1, <2>4, <2>12, <4>1, <4>3 DEF Caps
      <3> QED BY <3>1, <3>2
    <2>13. Caps(more)' BY <1>2, <2>10, <2>11, <2>12 DEF Caps
    <2>14. CountsAreCapped' BY <1>2, <2>3, <2>13 DEF CountsAreCapped
    <2>15. WritersKnowTheirRow' BY <1>2, <1>11, <2>0, <2>1 DEF WritersKnowTheirRow
    <2>16. PatternTypeOK'
      <3>1. reports' \in [Report -> Reporting \cup {NoReport}] BY <1>3, <1>11
      <3>2. (Reporting \cup {NoReport})' = Reporting \cup {NoReport}
        BY <1>2 DEF Reporting
      <3> QED BY <1>2, <1>4, <3>1, <3>2 DEF PatternTypeOK
    <2> QED BY <2>14, <2>15, <2>16
  <1>12. PICK row \in IF RowsOf(s) = {} THEN {0} ELSE RowsOf(s) :
             reports' = [reports EXCEPT ![r] =
                 [at |-> "write", signature |-> s, row |-> row,
                  count |-> IF row = 0 THEN 1 ELSE patterns[row].count + 1]]
    BY DEF RecordFailure
  <1>13. CASE row = 0
    <2> DEFINE report == [at |-> "write", signature |-> s, row |-> 0, count |-> 1]
    <2>0. 1 \in 1..MaxReported BY <1>2, <1>3, <1>4
    <2>1. report \in Reporting BY <2>0 DEF Reporting
    <2>2. reports' = [reports EXCEPT ![r] = report] BY <1>12, <1>13
    <2>3. report.at = "write" /\ report.signature = s /\ report.row = 0 OBVIOUS
    <2> HIDE DEF report
    <2> QED BY <1>10, <2>1, <2>2, <2>3
  <1>14. CASE row # 0
    <2>1. row \in RowsOf(s) /\ row \in DOMAIN patterns BY <1>12, <1>14 DEF RowsOf
    <2> DEFINE n == patterns[row].count + 1
               report == [at |-> "write", signature |-> s, row |-> row, count |-> n]
    <2>2. n \in 1..MaxReported
      <3>1. patterns[row].count \in Nat /\ patterns[row].count <= cap[row]
        BY <1>1, <2>1, RowsCount DEF Caps
      <3>2. cap[row] <= SumFunctionOnSet(cap, RowsOf(s))
        BY <1>6, <1>7, <2>1, SumOfNaturals
      <3>3. cap[row] \in Nat BY <1>7, <2>1
      <3> QED BY <1>2, <1>3, <1>4, <1>6, <1>8, <1>9, <3>1, <3>2, <3>3
    <2>3. reports' = [reports EXCEPT ![r] = report] BY <1>12, <1>14
    <2>4. n = patterns[row].count + 1 OBVIOUS
    <2> HIDE DEF n
    <2>5. report \in Reporting BY <2>1, <2>2 DEF Reporting
    <2>6. report.at = "write" /\ report.signature = s /\ report.row = row /\ report.count = n
      OBVIOUS
    <2> HIDE DEF report
    <2> QED BY <1>11, <1>14, <2>1, <2>3, <2>4, <2>5, <2>6
  <1> QED BY <1>13, <1>14

\* A row inserted comes in the place of the report that was about to insert it.
LEMMA NextInsert ==
    ASSUME PatternInv, NEW r \in Report, reports[r].at = "write", reports[r].row = 0,
           Insert(reports[r]), NEW report, report \in Reporting' \cup {NoReport},
           report.at = "done" \/ (report.at = "alert" /\ report.row # 0),
           reports' = [reports EXCEPT ![r] = report], UNCHANGED <<reported, alerts>>
    PROVE  PatternInv'
  <1> USE DEF PatternInv
  <1>0. PICK n, s : n = Len(patterns) /\ s = reports[r].signature OBVIOUS
  <1> DEFINE row == [signature |-> s, count |-> 1, status |-> "active"]
  <1>1. PICK cap \in [DOMAIN patterns -> Nat] : Caps(cap) BY DEF CountsAreCapped
  <1>2. /\ reports \in [Report -> Reporting \cup {NoReport}] /\ patterns \in Seq(PatternRow)
        /\ reported \in [Signature -> 0..MaxReported] /\ alerts \subseteq DOMAIN patterns
    BY DEF PatternTypeOK
  <1>3. reports[r] \in Reporting /\ s \in Signature /\ 1 \in 1..MaxReported
    <2>1. reports[r] \in Reporting BY <1>2 DEF NoReport
    <2> QED BY <1>0, <2>1, PatternAssumption DEF Reporting
  <1>4. row \in PatternRow BY <1>3 DEF PatternRow
  <1>5. row.signature = s /\ row.count = 1 OBVIOUS
  <1> HIDE DEF row
  <1>6. /\ patterns' \in Seq(PatternRow) /\ Len(patterns') = n + 1 /\ n \in Nat
        /\ DOMAIN patterns = 1..n /\ DOMAIN patterns' = 1..(n + 1)
        /\ patterns'[n + 1] = row /\ \A i \in 1..n : patterns'[i] = patterns[i]
    <2>1. patterns' = Append(patterns, row) BY <1>0 DEF Insert, row
    <2> QED BY <1>0, <1>2, <1>4, <2>1, AppendProperties, LenProperties
  <1>7. PICK more :
            /\ more \in [DOMAIN patterns' -> Nat] /\ more[n + 1] = 1
            /\ \A i \in DOMAIN patterns : more[i] = cap[i] /\ cap[i] \in Nat
    <2> DEFINE f == [i \in 1..(n + 1) |-> IF i = n + 1 THEN 1 ELSE cap[i]]
    <2>1. /\ f \in [DOMAIN patterns' -> Nat] /\ f[n + 1] = 1
          /\ \A i \in DOMAIN patterns : f[i] = cap[i] /\ cap[i] \in Nat
      BY <1>6
    <2> QED BY <2>1
  <1>8. reports'[r] = report /\ \A q \in Report \ {r} : reports'[q] = reports[q] BY <1>2
  <1>9. n + 1 \notin DOMAIN patterns BY <1>6
  <1>10. /\ RowsOf(s)' = RowsOf(s) \cup {n + 1} /\ n + 1 \notin RowsOf(s)
         /\ \A t \in Signature \ {s} : RowsOf(t)' = RowsOf(t)
    <2>1. \A t : RowsOf(t)' = {i \in 1..(n + 1) : patterns'[i].signature = t}
      BY <1>6 DEF RowsOf
    <2>2. \A t : RowsOf(t) = {i \in 1..n : patterns[i].signature = t} BY <1>6 DEF RowsOf
    <2>3. 1..(n + 1) = 1..n \cup {n + 1} /\ n + 1 \notin 1..n BY <1>6
    <2>4. patterns'[n + 1].signature = s BY <1>5, <1>6
    <2>5. \A t, i : i \in RowsOf(t)' <=>
              (i \in 1..n /\ patterns[i].signature = t) \/ (i = n + 1 /\ s = t)
      BY <1>6, <2>1, <2>3, <2>4
    <2>6. \A t, i : i \in RowsOf(t)' <=> i \in RowsOf(t) \/ (i = n + 1 /\ s = t)
      BY <2>2, <2>5
    <2>7. RowsOf(s)' = RowsOf(s) \cup {n + 1} BY <2>6
    <2>8. \A t \in Signature \ {s} : RowsOf(t)' = RowsOf(t)
      <3> SUFFICES ASSUME NEW t \in Signature \ {s} PROVE RowsOf(t)' = RowsOf(t)
        OBVIOUS
      <3>1. \A i : i \in RowsOf(t)' <=> i \in RowsOf(t) BY <2>6
      <3> QED BY <3>1
    <2>9. n + 1 \notin RowsOf(s) BY <2>2, <2>3
    <2> QED BY <2>7, <2>8, <2>9
  <1>11. \A t : IsFiniteSet(RowsOf(t)) /\ IsFiniteSet(Inserting(t)) BY FiniteRows
  <1>12. \A t : \A i \in RowsOf(t) : cap[i] \in Nat /\ more[i] = cap[i]
    BY <1>7 DEF RowsOf
  <1>13. \A t : /\ SumFunctionOnSet(cap, RowsOf(t)) \in Nat
                /\ SumFunctionOnSet(cap, RowsOf(t)) = SumFunctionOnSet(more, RowsOf(t))
    BY <1>11, <1>12, SumOfNaturals, SumOfEquals
  <1>14. SumFunctionOnSet(more, RowsOf(s)') = 1 + SumFunctionOnSet(cap, RowsOf(s))
    <2> DEFINE R == RowsOf(s)
    <2>1. IsFiniteSet(R) /\ n + 1 \notin R BY <1>10, <1>11
    <2>2. \A i \in R \cup {n + 1} : more[i] \in Int
      BY <1>6, <1>7, <1>12
    <2> HIDE DEF R
    <2>3. SumFunctionOnSet(more, R \cup {n + 1}) = more[n + 1] + SumFunctionOnSet(more, R)
      BY <1>6, <2>1, <2>2, SumWith
    <2> QED BY <1>7, <1>10, <1>13, <2>3 DEF R
  <1>15. /\ Inserting(s)' = Inserting(s) \ {r} /\ r \in Inserting(s)
         /\ \A t \in Signature \ {s} : Inserting(t)' = Inserting(t)
    BY <1>0, <1>8 DEF Inserting
  <1>16. /\ Cardinality(Inserting(s)') = Cardinality(Inserting(s)) - 1
         /\ \A t : Cardinality(Inserting(t)) \in Nat
    BY <1>11, <1>15, FS_RemoveElement, FS_CardinalityType
  <1>17. \A t \in Signature :
             /\ SumFunctionOnSet(cap, RowsOf(t)) + Cardinality(Inserting(t)) <= reported[t]
             /\ reported[t] \in Nat
    BY <1>1, <1>2, PatternAssumption DEF Caps
  <1>18. ASSUME NEW t \in Signature
         PROVE  SumFunctionOnSet(more, RowsOf(t)') + Cardinality(Inserting(t)') <= reported'[t]
    <2>1. CASE t = s BY <1>13, <1>14, <1>16, <1>17, <2>1
    <2>2. CASE t # s BY <1>10, <1>13, <1>15, <1>17, <2>2
    <2> QED BY <2>1, <2>2
  <1>19. \A i \in DOMAIN patterns' : patterns'[i].count <= more[i]
    <2> SUFFICES ASSUME NEW i \in 1..(n + 1) PROVE patterns'[i].count <= more[i]
      BY <1>6
    <2>1. CASE i = n + 1 BY <1>5, <1>6, <1>7, <2>1
    <2>2. CASE i \in 1..n BY <1>1, <1>6, <1>7, <2>2 DEF Caps
    <2> QED BY <1>6, <2>1, <2>2
  <1>20. ASSUME NEW q \in Report, reports'[q].at = "write", reports'[q].row # 0
         PROVE  /\ reports'[q].count <= more[reports'[q].row]
                /\ patterns'[reports'[q].row].signature = reports'[q].signature
    <2>1. q # r /\ reports'[q] = reports[q] BY <1>8, <1>20
    <2>2. reports[q] \in Reporting BY <1>2, <1>20, <2>1 DEF NoReport
    <2>3. reports[q].row \in DOMAIN patterns BY <1>20, <2>1, <2>2 DEF Reporting
    <2> QED BY <1>1, <1>6, <1>7, <1>20, <2>1, <2>3 DEF Caps, WritersKnowTheirRow
  <1>21. Caps(more)' BY <1>18, <1>19, <1>20 DEF Caps
  <1>22. CountsAreCapped' BY <1>7, <1>21 DEF CountsAreCapped
  <1>23. WritersKnowTheirRow'
    <2>1. \A q \in Report : reports'[q].at = "alert" => reports'[q].row # 0
      BY <1>8 DEF WritersKnowTheirRow
    <2> QED BY <1>20, <2>1 DEF WritersKnowTheirRow
  <1>24. PatternTypeOK'
    <2>1. Reporting \subseteq Reporting' BY <1>6 DEF Reporting
    <2>2. reports' \in [Report -> (Reporting \cup {NoReport})'] BY <1>2, <2>1
    <2>3. alerts' \subseteq DOMAIN patterns' BY <1>2, <1>6
    <2> QED BY <1>2, <1>6, <2>2, <2>3 DEF PatternTypeOK
  <1> QED BY <1>22, <1>23, <1>24

\* Rows that keep their signatures and count no more than they may come to, and no
\* further report about to write: the caps still hold.
LEMMA RowsKept ==
    ASSUME PatternInv, patterns' \in Seq(PatternRow), DOMAIN patterns' = DOMAIN patterns,
           \A i \in DOMAIN patterns : patterns'[i].signature = patterns[i].signature,
           \A i \in DOMAIN patterns :
               \/ patterns'[i].count = patterns[i].count
               \/ \E r \in Report : /\ reports[r].at = "write" /\ reports[r].row = i /\ i # 0
                                    /\ patterns'[i].count = reports[r].count,
           reports' \in [Report -> Reporting \cup {NoReport}],
           \A r \in Report : \/ reports'[r] = reports[r] \/ reports'[r].at = "done"
                             \/ reports'[r].at = "alert" /\ reports'[r].row # 0,
           UNCHANGED reported, alerts' \subseteq DOMAIN patterns
    PROVE  PatternInv'
  <1> USE DEF PatternInv
  <1>1. PICK cap \in [DOMAIN patterns -> Nat] : Caps(cap) BY DEF CountsAreCapped
  <1>2. \A t : RowsOf(t)' = RowsOf(t) BY DEF RowsOf
  <1>3. \A i \in DOMAIN patterns' : patterns'[i].count <= cap[i] BY <1>1 DEF Caps
  <1>4. ASSUME NEW t \in Signature
        PROVE  SumFunctionOnSet(cap, RowsOf(t)') + Cardinality(Inserting(t)') <= reported'[t]
    <2>1. Inserting(t)' \in SUBSET Inserting(t) BY DEF Inserting
    <2>2. IsFiniteSet(Inserting(t)) /\ IsFiniteSet(RowsOf(t)) BY FiniteRows
    <2>3. Cardinality(Inserting(t)') <= Cardinality(Inserting(t)) /\ IsFiniteSet(Inserting(t)')
      BY <2>1, <2>2, FS_Subset
    <2>4. Cardinality(Inserting(t)) \in Nat /\ Cardinality(Inserting(t)') \in Nat
      BY <2>2, <2>3, FS_CardinalityType
    <2>5. \A i \in RowsOf(t) : cap[i] \in Nat BY DEF RowsOf
    <2>6. SumFunctionOnSet(cap, RowsOf(t)) \in Nat BY <2>2, <2>5, SumOfNaturals
    <2>7. reported[t] \in Nat BY PatternAssumption DEF PatternTypeOK
    <2>8. SumFunctionOnSet(cap, RowsOf(t)) + Cardinality(Inserting(t)) <= reported[t]
      BY <1>1 DEF Caps
    <2> QED BY <1>2, <2>3, <2>4, <2>6, <2>7, <2>8
  <1>5. \A r \in Report : reports'[r].at = "write" /\ reports'[r].row # 0 =>
            reports'[r].count <= cap[reports'[r].row]
    BY <1>1 DEF Caps
  <1>6. Caps(cap)' BY <1>3, <1>4, <1>5 DEF Caps
  <1>7. CountsAreCapped' BY <1>6 DEF CountsAreCapped
  <1>8. reports \in [Report -> Reporting \cup {NoReport}] BY DEF PatternTypeOK
  <1>9. WritersKnowTheirRow'
    <2>0. \A r \in Report : reports'[r].at = "alert" => reports'[r].row # 0
      BY DEF WritersKnowTheirRow
    <2> SUFFICES ASSUME NEW r \in Report, reports'[r].at = "write", reports'[r].row # 0
                 PROVE  patterns'[reports'[r].row].signature = reports'[r].signature
      BY <2>0 DEF WritersKnowTheirRow
    <2>1. reports'[r] = reports[r] /\ reports[r] \in Reporting BY <1>8 DEF NoReport
    <2>2. reports[r].row \in DOMAIN patterns BY <2>1 DEF Reporting
    <2> QED BY <2>1, <2>2 DEF WritersKnowTheirRow
  <1>10. PatternTypeOK'
    <2>1. Reporting' = Reporting BY DEF Reporting
    <2> QED BY <2>1 DEF PatternTypeOK
  <1> QED BY <1>7, <1>9, <1>10

\* Every step keeps the rows, the reports and the caps.
LEMMA NextPattern == PatternInv /\ [PatternNext]_patternVars => PatternInv'
  <1> SUFFICES ASSUME PatternInv, [PatternNext]_patternVars PROVE PatternInv'
    OBVIOUS
  <1>0. /\ reports \in [Report -> Reporting \cup {NoReport}] /\ patterns \in Seq(PatternRow)
        /\ alerts \subseteq DOMAIN patterns /\ NoReport.at = "done"
        /\ NoReport \in Reporting \cup {NoReport}
    BY DEF PatternInv, PatternTypeOK, NoReport
  <1>1. ASSUME NEW r \in Report, reports' = [reports EXCEPT ![r] = NoReport],
               UNCHANGED <<patterns, reported>>, alerts' \subseteq DOMAIN patterns
        PROVE  PatternInv'
    <2>1. reports' \in [Report -> Reporting \cup {NoReport}] BY <1>0, <1>1
    <2>2. \A q \in Report : reports'[q] = reports[q] \/ reports'[q].at = "done" BY <1>0, <1>1
    <2> QED BY <1>0, <1>1, <2>1, <2>2, RowsKept
  <1>2. ASSUME NEW r \in Report, PublishAlert(r) PROVE PatternInv'
    <2>1. reports[r] \in Reporting BY <1>0, <1>2 DEF PublishAlert
    <2>2. reports[r].row \in DOMAIN patterns
      BY <1>2, <2>1 DEF PublishAlert, Reporting, PatternInv, WritersKnowTheirRow
    <2>3. alerts' \subseteq DOMAIN patterns BY <1>0, <1>2, <2>2 DEF PublishAlert
    <2>4. reports' = [reports EXCEPT ![r] = NoReport] /\ UNCHANGED <<patterns, reported>>
      BY <1>2 DEF PublishAlert
    <2> QED BY <1>1, <2>3, <2>4
  <1>3. ASSUME NEW r \in Report, ReportDies(r) PROVE PatternInv'
    BY <1>0, <1>1, <1>3 DEF ReportDies
  <1>4. ASSUME NEW i \in DOMAIN patterns, ResolvePattern(i) PROVE PatternInv'
    <2> DEFINE row == [patterns[i] EXCEPT !.status = "resolved"]
    <2>1. patterns[i] \in PatternRow BY <1>0
    <2>2. row \in PatternRow /\ row.count = patterns[i].count
              /\ row.signature = patterns[i].signature
      BY <2>1 DEF PatternRow
    <2>3. patterns' = [patterns EXCEPT ![i] = row] /\ UNCHANGED <<reports, reported, alerts>>
      BY <1>4 DEF ResolvePattern
    <2> HIDE DEF row
    <2>4. patterns' \in Seq(PatternRow) /\ DOMAIN patterns' = DOMAIN patterns
              /\ \A j \in DOMAIN patterns : patterns'[j] = IF j = i THEN row ELSE patterns[j]
      BY <1>0, <2>2, <2>3
    <2>5. \A j \in DOMAIN patterns : patterns'[j].signature = patterns[j].signature
                                        /\ patterns'[j].count = patterns[j].count
      BY <2>2, <2>4
    <2> QED BY <1>0, <2>3, <2>4, <2>5, RowsKept
  <1>5. ASSUME NEW r \in Report, WriteFailure(r) PROVE PatternInv'
    <2>1. PICK old : old = reports[r] OBVIOUS
    <2>2. PICK n : n = Len(patterns) OBVIOUS
    <2>3. /\ old \in Reporting /\ old.at = "write" /\ old.row \in {0} \cup DOMAIN patterns
          /\ old.signature \in Signature /\ old.count \in 1..MaxReported
          /\ UNCHANGED <<reported, alerts>>
      BY <1>0, <1>5, <2>1 DEF WriteFailure, Reporting
    <2> DEFINE alarming == old.row = 0 \/ old.count >= HighFrequencyThreshold
               alert == [at |-> "alert", signature |-> old.signature,
                         row |-> IF old.row = 0 THEN n + 1 ELSE old.row, count |-> old.count]
    <2>4. reports' = [reports EXCEPT ![r] = IF alarming THEN alert ELSE NoReport]
      <3>1. old = [at |-> old.at, signature |-> old.signature, row |-> old.row,
                   count |-> old.count]
        BY <2>3 DEF Reporting
      <3>2. alert = [old EXCEPT !.at = "alert", !.row = IF @ = 0 THEN n + 1 ELSE @]
        <4>1. PICK a, s, w, c : old = [at |-> a, signature |-> s, row |-> w, count |-> c]
          BY <3>1
        <4>2. old.signature = s /\ old.row = w /\ old.count = c BY <4>1
        <4>3. PICK to : to = IF old.row = 0 THEN n + 1 ELSE old.row OBVIOUS
        <4>4. alert = [at |-> "alert", signature |-> s, row |-> to, count |-> c]
          BY <4>2, <4>3
        <4>5. PICK mid : mid = [at |-> "alert", signature |-> s, row |-> w, count |-> c] OBVIOUS
        <4>6. [old EXCEPT !.at = "alert"] = mid BY <4>1, <4>5
        <4>7. [mid EXCEPT !.row = to] = [at |-> "alert", signature |-> s, row |-> to,
                                         count |-> c]
          BY <4>5
        <4>8. [old EXCEPT !.at = "alert", !.row = to]
                  = [[old EXCEPT !.at = "alert"] EXCEPT !.row = to]
          OBVIOUS
        <4> HIDE DEF alert
        <4>9. [old EXCEPT !.at = "alert", !.row = to] = alert BY <4>4, <4>6, <4>7, <4>8
        <4> QED BY <4>3, <4>9
      <3>3. (reports[r].row = 0 \/ reports[r].count >= HighFrequencyThreshold) <=> alarming
        BY <2>1
      <3>4. reports' = [reports EXCEPT ![r] =
                IF reports[r].row = 0 \/ reports[r].count >= HighFrequencyThreshold
                  THEN [reports[r] EXCEPT !.at = "alert",
                                          !.row = IF @ = 0 THEN Len(patterns) + 1 ELSE @]
                  ELSE NoReport]
        BY <1>5 DEF WriteFailure
      <3> QED BY <2>1, <2>2, <3>2, <3>3, <3>4
    <2>5. n \in Nat /\ DOMAIN patterns = 1..n BY <1>0, <2>2, LenProperties
    <2>6. ASSUME old.row = 0 PROVE PatternInv'
      <3>1. alarming /\ reports' = [reports EXCEPT ![r] = alert] BY <2>4, <2>6
      <3>2. Insert(reports[r]) BY <1>5, <2>1, <2>6 DEF WriteFailure
      <3>3. DOMAIN patterns' = 1..(n + 1)
        <4>1. patterns' = Append(patterns, [signature |-> old.signature, count |-> 1,
                                            status |-> "active"])
          BY <2>1, <3>2 DEF Insert
        <4>2. 1 \in 1..MaxReported BY PatternAssumption, <2>3
        <4>3. [signature |-> old.signature, count |-> 1, status |-> "active"] \in PatternRow
          BY <2>3, <4>2 DEF PatternRow
        <4> QED BY <1>0, <2>2, <2>5, <4>1, <4>3, AppendProperties, LenProperties
      <3>4. alert \in Reporting' /\ alert.at = "alert" /\ alert.row # 0
        BY <2>3, <2>5, <2>6, <3>3 DEF Reporting
      <3> HIDE DEF alert, alarming
      <3> QED BY <2>1, <2>3, <2>6, <3>1, <3>2, <3>4, NextInsert
    <2>7. ASSUME old.row # 0 PROVE PatternInv'
      <3> DEFINE row == [patterns[old.row] EXCEPT !.count = old.count]
      <3>1. old.row \in DOMAIN patterns /\ patterns[old.row] \in PatternRow
        BY <1>0, <2>3, <2>7
      <3>2. row \in PatternRow /\ row.count = old.count
                /\ row.signature = patterns[old.row].signature
        BY <2>3, <3>1 DEF PatternRow
      <3>3. patterns' = [patterns EXCEPT ![old.row] = row]
        BY <1>5, <2>1, <2>7 DEF WriteFailure, Update
      <3> HIDE DEF row
      <3>4. patterns' \in Seq(PatternRow) /\ DOMAIN patterns' = DOMAIN patterns
                /\ \A j \in DOMAIN patterns :
                       patterns'[j] = IF j = old.row THEN row ELSE patterns[j]
        BY <1>0, <3>1, <3>2, <3>3
      <3>5. alert \in Reporting /\ alert.at = "alert" /\ alert.row # 0
        BY <2>3, <2>5, <2>7 DEF Reporting
      <3> HIDE DEF alert, alarming
      <3>6. reports' \in [Report -> Reporting \cup {NoReport}] BY <1>0, <2>4, <3>5
      <3>7. \A q \in Report : \/ reports'[q] = reports[q] \/ reports'[q].at = "done"
                              \/ reports'[q].at = "alert" /\ reports'[q].row # 0
        BY <1>0, <2>4, <3>5
      <3>8. \A j \in DOMAIN patterns : patterns'[j].signature = patterns[j].signature
        BY <3>1, <3>2, <3>4
      <3>9. \A j \in DOMAIN patterns :
               \/ patterns'[j].count = patterns[j].count
               \/ \E q \in Report : /\ reports[q].at = "write" /\ reports[q].row = j /\ j # 0
                                    /\ patterns'[j].count = reports[q].count
        BY <2>1, <2>3, <2>7, <3>2, <3>4
      <3> QED BY <1>0, <2>3, <3>4, <3>6, <3>7, <3>8, <3>9, RowsKept
    <2> QED BY <2>6, <2>7
  <1>6. CASE UNCHANGED patternVars
    <2>1. \A r \in Report : reports'[r] = reports[r] BY <1>6 DEF patternVars
    <2> QED BY <1>0, <1>6, <2>1, RowsKept DEF patternVars
  <1>7. ASSUME NEW r \in Report, NEW s \in Signature, RecordFailure(r, s) PROVE PatternInv'
    BY <1>7, NextRecordFailure
  <1> QED BY <1>2, <1>3, <1>4, <1>5, <1>6, <1>7 DEF PatternNext

\* The state of the failure patterns keeps its types, a report about to update a row has
\* one of its signature, and every row has room for what is about to be written to it.
THEOREM PatternTypeCorrect == PatternSpec => []PatternInv
  <1> QED BY InitPattern, NextPattern, PTL DEF PatternSpec

\* Reports that lose each other's count and reports that insert a signature twice never
\* make the rows of a signature count more failures than were reported.
THEOREM CountsNeverExceedReports == PatternSpec => []CountsAreBacked
  <1>1. PatternInv => CountsAreBacked BY CappedCounts DEF PatternInv
  <1> QED BY <1>1, PatternTypeCorrect, PTL

-----------------------------------------------------------------------------
(* Invoices.                                                               *)

\* There are five tiers, and each costs less than the humans it stands for.
LEMMA Prices ==
    /\ Tier = {"XS", "S", "M", "L", "XL"}
    /\ \A t \in Tier : /\ PriceUsd[t] \in Nat /\ HumanCostUsd[t] \in Nat
                       /\ PriceUsd[t] < HumanCostUsd[t] /\ PriceUsd[t] < 1000
    /\ \A t, u \in Tier : PriceUsd[t] = PriceUsd[u] => t = u
  <1>1. Tier = {"XS", "S", "M", "L", "XL"}
    <2>1. DOMAIN Tiers = {1, 2, 3, 4, 5} BY DEF Tiers
    <2>2. /\ Tiers[1] = "XS" /\ Tiers[2] = "S" /\ Tiers[3] = "M" /\ Tiers[4] = "L"
          /\ Tiers[5] = "XL"
      BY DEF Tiers
    <2> QED BY <2>1, <2>2 DEF Tier, ToSet
  <1>2. /\ PriceUsd["XS"] = 5 /\ PriceUsd["S"] = 15 /\ PriceUsd["M"] = 50
        /\ PriceUsd["L"] = 150 /\ PriceUsd["XL"] = 500
    BY <1>1 DEF PriceUsd
  <1>3. /\ HumanCostUsd["XS"] = 75 /\ HumanCostUsd["S"] = 300 /\ HumanCostUsd["M"] = 1200
        /\ HumanCostUsd["L"] = 3600 /\ HumanCostUsd["XL"] = 9000
    BY <1>1 DEF HumanCostUsd
  <1> QED BY <1>1, <1>2, <1>3

\* Of equal scores the cheaper tier wins, so there is always a top tier, and what a
\* work item is estimated to be is a tier.
LEMMA EstimateIsATier ==
    ASSUME NEW item \in WorkItem
    PROVE  TopTier(item) \in Tier /\ EstimateComplexity(item) \subseteq Tier
  <1> DEFINE key == [t \in Tier |-> 1000 * Score(item, t) - PriceUsd[t]]
             wins(t) == \A u \in Tier \ {t} :
                            \/ Score(item, t) > Score(item, u)
                            \/ Score(item, t) = Score(item, u) /\ PriceUsd[t] < PriceUsd[u]
  <1>1. \A t \in Tier : Score(item, t) \in Nat
    <2> SUFFICES ASSUME NEW t \in Tier PROVE Score(item, t) \in Nat
      OBVIOUS
    <2>1. item.keywords[t] \in Nat BY DEF WorkItem
    <2>2. \A x, y, z : (IF x THEN 2 ELSE 0) \in Nat /\ (IF y THEN 1 ELSE 0) \in Nat OBVIOUS
    <2> QED BY <2>1 DEF Score
  <1>2. \A t \in Tier : key[t] \in Int BY <1>1, Prices
  <1>3. \A t, u \in Tier : t # u =>
            /\ key[t] # key[u]
            /\ key[t] > key[u] =>
                   \/ Score(item, t) > Score(item, u)
                   \/ Score(item, t) = Score(item, u) /\ PriceUsd[t] < PriceUsd[u]
    <2> SUFFICES ASSUME NEW t \in Tier, NEW u \in Tier, t # u
                 PROVE  /\ key[t] # key[u]
                        /\ key[t] > key[u] =>
                            \/ Score(item, t) > Score(item, u)
                            \/ Score(item, t) = Score(item, u) /\ PriceUsd[t] < PriceUsd[u]
      OBVIOUS
    <2>1. PICK a, b, p, q : /\ a = Score(item, t) /\ b = Score(item, u)
                            /\ p = PriceUsd[t] /\ q = PriceUsd[u]
      OBVIOUS
    <2>2. /\ a \in Nat /\ b \in Nat /\ p \in Nat /\ q \in Nat /\ p # q /\ p < 1000 /\ q < 1000
      BY <1>1, <2>1, Prices
    <2>3. key[t] = 1000 * a - p /\ key[u] = 1000 * b - q BY <2>1
    <2> HIDE DEF key
    <2>4. 1000 * a - p # 1000 * b - q BY <2>2
    <2>5. 1000 * a - p > 1000 * b - q => a > b \/ (a = b /\ p < q) BY <2>2
    <2> QED BY <2>1, <2>3, <2>4, <2>5
  <1> HIDE DEF key
  <1>4. \E t \in Tier : \A u \in Tier \ {t} : key[t] > key[u]
    <2>1. PICK a, b, c, d, e : /\ a = key["XS"] /\ b = key["S"] /\ c = key["M"]
                               /\ d = key["L"] /\ e = key["XL"]
      OBVIOUS
    <2>2. /\ a \in Int /\ b \in Int /\ c \in Int /\ d \in Int /\ e \in Int
          /\ a # b /\ a # c /\ a # d /\ a # e /\ b # c /\ b # d /\ b # e
          /\ c # d /\ c # e /\ d # e
      BY <1>2, <1>3, <2>1, Prices
    <2>3. \/ a > b /\ a > c /\ a > d /\ a > e
          \/ b > a /\ b > c /\ b > d /\ b > e
          \/ c > a /\ c > b /\ c > d /\ c > e
          \/ d > a /\ d > b /\ d > c /\ d > e
          \/ e > a /\ e > b /\ e > c /\ e > d
      BY <2>2
    <2> QED BY <2>1, <2>3, Prices
  <1>5. \E t \in Tier : wins(t) BY <1>3, <1>4
  <1>6. TopTier(item) \in Tier BY <1>5 DEF TopTier
  <1> QED BY <1>6 DEF EstimateComplexity
\* Lines to bill: some DWIs, completed all of them.
Billed(lines) == lines # {} /\ \A d \in lines : dwiRows[d].completedAt # 0

CompletedHaveATier == \A d \in Dwi : dwiRows[d].completedAt # 0 => dwiRows[d].tier \in Tier

\* A call that adds items has an invoice at Stripe to itself, with lines of its own in
\* it, that the database does not know yet.
GeneratorsAreApart ==
    \A g \in Generator :
        /\ generating[g].at # "done" => Billed(generating[g].lines)
        /\ generating[g].at = "items" =>
               /\ generating[g].stripe \in DOMAIN stripeInvoices
               /\ stripeInvoices[generating[g].stripe] \subseteq generating[g].lines
               /\ \A row \in invoiceRows : row.stripe # generating[g].stripe
               /\ \A h \in Generator \ {g} :
                      generating[h].at = "items" => generating[h].stripe # generating[g].stripe

InvoiceInv ==
    /\ InvoiceTypeOK /\ CompletedHaveATier /\ GeneratorsAreApart
    /\ \A row \in invoiceRows : Billed(row.lines)
    /\ InvoicesMatchStripe

\* Lines to bill come to less than the humans they stand for.
LEMMA BilledSaves ==
    ASSUME InvoiceTypeOK, CompletedHaveATier, NEW lines \in SUBSET Dwi, Billed(lines)
    PROVE  Total(lines) \in Int /\ HumanTotal(lines) \in Int /\ Total(lines) < HumanTotal(lines)
  <1> DEFINE price == [d \in lines |-> PriceUsd[dwiRows[d].tier]]
             human == [d \in lines |-> HumanCostUsd[dwiRows[d].tier]]
  <1>1. Total(lines) = SumFunctionOnSet(price, lines) BY Zenon DEF Total, SumFunction
  <1>2. HumanTotal(lines) = SumFunctionOnSet(human, lines) BY Zenon DEF HumanTotal, SumFunction
  <1>3. IsFiniteSet(lines) BY InvoiceAssumption, FS_Subset
  <1>4. \A d \in lines : price[d] \in Int /\ human[d] \in Int /\ price[d] < human[d]
    <2> SUFFICES ASSUME NEW d \in lines
                 PROVE  price[d] \in Int /\ human[d] \in Int /\ price[d] < human[d]
      OBVIOUS
    <2>1. dwiRows[d].tier \in Tier BY DEF CompletedHaveATier, Billed
    <2> QED BY <2>1, Prices
  <1>5. PICK d : d \in lines BY DEF Billed
  <1> HIDE DEF price, human
  <1> DEFINE rest == lines \ {d}
  <1>6. IsFiniteSet(rest) BY <1>3, FS_RemoveElement
  <1>7. /\ SumFunctionOnSet(price, lines) = price[d] + SumFunctionOnSet(price, rest)
        /\ SumFunctionOnSet(human, lines) = human[d] + SumFunctionOnSet(human, rest)
    BY <1>3, <1>4, <1>5, SumWithout
  <1>8. \A e \in rest : price[e] \in Int /\ human[e] \in Int /\ price[e] <= human[e]
    BY <1>4
  <1> HIDE DEF rest
  <1>9. /\ SumFunctionOnSet(price, rest) \in Int /\ SumFunctionOnSet(human, rest) \in Int
        /\ SumFunctionOnSet(price, rest) <= SumFunctionOnSet(human, rest)
    BY <1>6, <1>8, SumType, SumMonotone
  <1> QED BY <1>1, <1>2, <1>4, <1>5, <1>7, <1>9

\* A DWI that has been completed is not priced again: what is billed keeps its total.
LEMMA PricesStay ==
    ASSUME InvoiceInv,
           dwiRows' \in [Dwi -> [tier : Tier \cup {"none"}, completedAt : 0..LastDay,
                                 isBillable : BOOLEAN]],
           \A d \in Dwi : dwiRows[d].completedAt # 0 =>
               /\ dwiRows'[d].completedAt = dwiRows[d].completedAt
               /\ dwiRows'[d].tier = dwiRows[d].tier,
           \A d \in Dwi : dwiRows'[d].completedAt # 0 => dwiRows'[d].tier \in Tier,
           UNCHANGED <<generating, stripeInvoices, invoiceRows>>
    PROVE  InvoiceInv'
  <1> USE DEF InvoiceInv
  <1>1. InvoiceTypeOK' BY DEF InvoiceTypeOK
  <1>2. CompletedHaveATier' BY DEF CompletedHaveATier
  <1>3. \A lines \in SUBSET Dwi : Billed(lines) => Billed(lines)' /\ Total(lines)' = Total(lines)
    <2> SUFFICES ASSUME NEW lines \in SUBSET Dwi, Billed(lines)
                 PROVE  Billed(lines)' /\ Total(lines)' = Total(lines)
      OBVIOUS
    <2>1. \A d \in lines : dwiRows'[d].tier = dwiRows[d].tier BY DEF Billed
    <2>2. [d \in lines |-> PriceUsd[dwiRows[d].tier]]'
              = [d \in lines |-> PriceUsd[dwiRows[d].tier]]
      BY <2>1
    <2> QED BY <2>2 DEF Billed, Total
  <1>4. \A g \in Generator : generating[g].at # "done" => generating[g].lines \in SUBSET Dwi
    BY DEF InvoiceTypeOK, NotGenerating
  <1>5. GeneratorsAreApart' BY <1>3, <1>4 DEF GeneratorsAreApart
  <1>6. \A row \in invoiceRows : row.lines \in SUBSET Dwi BY DEF InvoiceTypeOK
  <1>7. \A row \in invoiceRows' : Billed(row.lines)' BY <1>3, <1>6
  <1>8. InvoicesMatchStripe' BY <1>3, <1>6 DEF InvoicesMatchStripe
  <1> QED BY <1>1, <1>2, <1>5, <1>7, <1>8

\* While nothing is completed or reverted.
LEMMA RowsStay ==
    ASSUME InvoiceInv, UNCHANGED dwiRows
    PROVE  /\ CompletedHaveATier' /\ \A lines : Billed(lines)' = Billed(lines)
           /\ \A lines : Total(lines)' = Total(lines) /\ HumanTotal(lines)' = HumanTotal(lines)
  <1>1. CompletedHaveATier' BY DEF CompletedHaveATier, InvoiceInv
  <1>2. \A lines : Billed(lines)' = Billed(lines) BY DEF Billed
  <1>3. \A lines : Total(lines)' = Total(lines) /\ HumanTotal(lines)' = HumanTotal(lines)
    BY DEF Total, HumanTotal
  <1> QED BY <1>1, <1>2, <1>3

\* Every step keeps the invoices at Stripe and in the database in line.
LEMMA NextInvoice == InvoiceInv /\ [InvoiceNext]_invoiceVars => InvoiceInv'
  <1> SUFFICES ASSUME InvoiceInv, [InvoiceNext]_invoiceVars PROVE InvoiceInv'
    OBVIOUS
  <1> USE DEF InvoiceInv
  <1> DEFINE Generating == [at : {"titles", "items"}, lines : SUBSET Dwi,
                            stripe : {0} \cup DOMAIN stripeInvoices]
             DwiRow == [tier : Tier \cup {"none"}, completedAt : 0..LastDay,
                        isBillable : BOOLEAN]
  <1>0. /\ dwiRows \in [Dwi -> DwiRow]
        /\ generating \in [Generator -> Generating \cup {NotGenerating}]
        /\ stripeInvoices \in Seq(SUBSET Dwi)
        /\ invoiceRows \subseteq [stripe : DOMAIN stripeInvoices, lines : SUBSET Dwi,
                                  totalUsd : Int, totalSavingsUsd : Int]
        /\ NotGenerating.at = "done" /\ NotGenerating.stripe = 0
        /\ LastDay \in Nat
    BY InvoiceAssumption DEF InvoiceTypeOK, NotGenerating
  <1>1. ASSUME NEW d \in Dwi, NEW day \in 1..LastDay, CompleteDwi(d, day) PROVE InvoiceInv'
    <2>1. PICK tier \in EstimateComplexity(WorkItemOf[d]) :
              dwiRows' = [dwiRows EXCEPT ![d] = [tier |-> tier, completedAt |-> day,
                                                 isBillable |-> TRUE]]
      BY <1>1 DEF CompleteDwi
    <2>2. tier \in Tier
      <3>1. WorkItemOf[d] \in WorkItem BY InvoiceAssumption
      <3> QED BY <3>1, EstimateIsATier
    <2> DEFINE row == [tier |-> tier, completedAt |-> day, isBillable |-> TRUE]
    <2>3. row \in DwiRow /\ row.tier \in Tier BY <1>0, <2>2
    <2>4. dwiRows[d].completedAt = 0 /\ UNCHANGED <<generating, stripeInvoices, invoiceRows>>
      BY <1>1 DEF CompleteDwi
    <2>5. dwiRows' = [dwiRows EXCEPT ![d] = row] BY <2>1
    <2> HIDE DEF row
    <2>6. dwiRows' \in [Dwi -> DwiRow] /\ dwiRows'[d] = row
              /\ \A e \in Dwi \ {d} : dwiRows'[e] = dwiRows[e]
      BY <1>0, <2>3, <2>5
    <2>7. \A e \in Dwi : dwiRows'[e].completedAt # 0 => dwiRows'[e].tier \in Tier
      BY <2>3, <2>6 DEF CompletedHaveATier
    <2> QED BY <2>4, <2>6, <2>7, PricesStay
  <1>2. ASSUME NEW d \in Dwi, RevertDwi(d) PROVE InvoiceInv'
    <2> DEFINE row == [dwiRows[d] EXCEPT !.isBillable = FALSE]
    <2>1. dwiRows[d] \in DwiRow BY <1>0
    <2>2. row \in DwiRow /\ row.tier = dwiRows[d].tier
              /\ row.completedAt = dwiRows[d].completedAt
      BY <2>1
    <2>3. dwiRows' = [dwiRows EXCEPT ![d] = row]
              /\ UNCHANGED <<generating, stripeInvoices, invoiceRows>>
      BY <1>2 DEF RevertDwi
    <2> HIDE DEF row
    <2>4. dwiRows' \in [Dwi -> DwiRow] /\ dwiRows'[d] = row
              /\ \A e \in Dwi \ {d} : dwiRows'[e] = dwiRows[e]
      BY <1>0, <2>2, <2>3
    <2>5. \A e \in Dwi : dwiRows'[e].completedAt = dwiRows[e].completedAt
                            /\ dwiRows'[e].tier = dwiRows[e].tier
      BY <2>2, <2>4
    <2> QED BY <2>3, <2>4, <2>5, PricesStay DEF CompletedHaveATier
  <1>3. ASSUME NEW g \in Generator, NEW call \in Generating \cup {NotGenerating},
               call.at \in {"titles", "done"}, call.at # "done" => Billed(call.lines),
               generating' = [generating EXCEPT ![g] = call],
               UNCHANGED <<dwiRows, stripeInvoices, invoiceRows>>
        PROVE  InvoiceInv'
    <2>1. generating' \in [Generator -> Generating \cup {NotGenerating}] /\ generating'[g] = call
              /\ \A h \in Generator \ {g} : generating'[h] = generating[h]
      BY <1>0, <1>3
    <2>2. InvoiceTypeOK' BY <1>0, <1>3, <2>1 DEF InvoiceTypeOK
    <2>3. GeneratorsAreApart'
      BY <1>3, <2>1, RowsStay DEF GeneratorsAreApart
    <2>4. InvoicesMatchStripe' BY <1>3, RowsStay DEF InvoicesMatchStripe
    <2> QED BY <1>3, <2>2, <2>3, <2>4, RowsStay
  <1>4. ASSUME NEW g \in Generator, NEW first \in 1..LastDay, NEW last \in first..LastDay,
               StartInvoice(g, first, last)
        PROVE  InvoiceInv'
    <2> DEFINE call == [at |-> "titles", lines |-> BillableIn(first, last), stripe |-> 0]
    <2>1. Billed(BillableIn(first, last)) /\ BillableIn(first, last) \in SUBSET Dwi
      BY <1>4 DEF StartInvoice, Billed, BillableIn
    <2>2. PICK lines : lines = BillableIn(first, last) OBVIOUS
    <2>3. call = [at |-> "titles", lines |-> lines, stripe |-> 0] BY <2>2
    <2>4. call \in Generating /\ call.at = "titles" /\ Billed(call.lines) BY <2>1, <2>2, <2>3
    <2>5. generating' = [generating EXCEPT ![g] = call]
              /\ UNCHANGED <<dwiRows, stripeInvoices, invoiceRows>>
      BY <1>4 DEF StartInvoice
    <2> HIDE DEF call, Generating
    <2> QED BY <1>3, <2>4, <2>5
  <1>5. ASSUME NEW g \in Generator, GenerationFails(g) PROVE InvoiceInv'
    <2> HIDE DEF Generating
    <2> QED BY <1>0, <1>3, <1>5 DEF GenerationFails
  <1>6. ASSUME NEW g \in Generator, CreateStripeInvoice(g) PROVE InvoiceInv'
    <2>1. PICK n : n = Len(stripeInvoices) OBVIOUS
    <2>2. /\ n \in Nat /\ DOMAIN stripeInvoices = 1..n
          /\ stripeInvoices' \in Seq(SUBSET Dwi) /\ Len(stripeInvoices') = n + 1
          /\ DOMAIN stripeInvoices' = 1..(n + 1) /\ stripeInvoices'[n + 1] = {}
          /\ \A i \in 1..n : stripeInvoices'[i] = stripeInvoices[i]
      BY <1>0, <1>6, <2>1, AppendProperties, LenProperties DEF CreateStripeInvoice
    <2>3. generating[g] \in Generating /\ generating[g].at = "titles"
              /\ UNCHANGED <<dwiRows, invoiceRows>>
      BY <1>0, <1>6 DEF CreateStripeInvoice
    <2>4. PICK lines : lines = generating[g].lines OBVIOUS
    <2> DEFINE call == [at |-> "items", lines |-> lines, stripe |-> n + 1]
    <2>5. generating' = [generating EXCEPT ![g] = call]
      BY <1>6, <2>1, <2>4 DEF CreateStripeInvoice
    <2>6. /\ lines \in SUBSET Dwi /\ Billed(lines) BY <2>3, <2>4 DEF GeneratorsAreApart
    <2>7. /\ call \in [at : {"titles", "items"}, lines : SUBSET Dwi,
                       stripe : {0} \cup DOMAIN stripeInvoices']
          /\ call.at = "items" /\ call.lines = lines /\ call.stripe = n + 1
      BY <2>2, <2>6
    <2> HIDE DEF call
    <2>8. Generating \subseteq [at : {"titles", "items"}, lines : SUBSET Dwi,
                               stripe : {0} \cup DOMAIN stripeInvoices']
      BY <2>2
    <2>9. /\ generating' \in [Generator -> [at : {"titles", "items"}, lines : SUBSET Dwi,
                                            stripe : {0} \cup DOMAIN stripeInvoices']
                                           \cup {NotGenerating}]
          /\ generating'[g] = call
          /\ \A h \in Generator \ {g} : generating'[h] = generating[h]
      BY <1>0, <2>5, <2>7, <2>8
    <2>10. InvoiceTypeOK'
      <3>1. invoiceRows' \subseteq [stripe : DOMAIN stripeInvoices', lines : SUBSET Dwi,
                                    totalUsd : Int, totalSavingsUsd : Int]
        BY <1>0, <2>2, <2>3
      <3> QED BY <1>0, <2>2, <2>3, <2>9, <3>1 DEF InvoiceTypeOK
    <2>11. \A row \in invoiceRows : row.stripe \in 1..n BY <1>0, <2>2
    <2>12. GeneratorsAreApart'
      <3> SUFFICES ASSUME NEW h \in Generator
                   PROVE  /\ generating'[h].at # "done" => Billed(generating'[h].lines)
                          /\ generating'[h].at = "items" =>
                               /\ generating'[h].stripe \in DOMAIN stripeInvoices'
                               /\ stripeInvoices'[generating'[h].stripe]
                                      \subseteq generating'[h].lines
                               /\ \A row \in invoiceRows' : row.stripe # generating'[h].stripe
                               /\ \A k \in Generator \ {h} : generating'[k].at = "items" =>
                                      generating'[k].stripe # generating'[h].stripe
        BY <2>3 DEF GeneratorsAreApart, Billed
      <3>1. \A k \in Generator \ {g} : generating'[k].at = "items" =>
                generating'[k].stripe \in 1..n
        BY <2>2, <2>9 DEF GeneratorsAreApart
      <3>2. CASE h = g BY <2>2, <2>3, <2>6, <2>7, <2>9, <2>11, <3>1, <3>2, RowsStay
      <3>3. CASE h # g
        <4>1. generating'[h] = generating[h] BY <2>9, <3>3
        <4>2. generating'[g].stripe = n + 1 BY <2>7, <2>9
        <4> QED BY <2>2, <2>3, <2>9, <3>1, <3>3, <4>1, <4>2, RowsStay DEF GeneratorsAreApart
      <3> QED BY <3>2, <3>3
    <2>13. InvoicesMatchStripe'
      BY <2>2, <2>3, <2>11, RowsStay DEF InvoicesMatchStripe
    <2> QED BY <2>3, <2>10, <2>12, <2>13, RowsStay
  <1>7. ASSUME NEW g \in Generator, NEW d \in Dwi, AddItem(g, d) PROVE InvoiceInv'
    <2>1. PICK i, lines : i = generating[g].stripe /\ lines = generating[g].lines OBVIOUS
    <2>2. /\ generating[g].at = "items" /\ d \in lines
          /\ stripeInvoices' = [stripeInvoices EXCEPT ![i] = @ \cup {d}]
          /\ UNCHANGED <<dwiRows, generating, invoiceRows>>
      BY <1>7, <2>1 DEF AddItem
    <2>3. /\ i \in DOMAIN stripeInvoices /\ stripeInvoices[i] \subseteq lines
          /\ \A row \in invoiceRows : row.stripe # i
          /\ \A h \in Generator \ {g} : generating[h].at = "items" => generating[h].stripe # i
      BY <2>1, <2>2 DEF GeneratorsAreApart
    <2>4. /\ stripeInvoices' \in Seq(SUBSET Dwi) /\ DOMAIN stripeInvoices' = DOMAIN stripeInvoices
          /\ stripeInvoices'[i] = stripeInvoices[i] \cup {d}
          /\ \A j \in DOMAIN stripeInvoices \ {i} : stripeInvoices'[j] = stripeInvoices[j]
      BY <1>0, <2>2, <2>3
    <2>5. InvoiceTypeOK' BY <1>0, <2>2, <2>4 DEF InvoiceTypeOK
    <2>6. GeneratorsAreApart'
      <3> SUFFICES ASSUME NEW h \in Generator, generating[h].at = "items"
                   PROVE  /\ generating[h].stripe \in DOMAIN stripeInvoices'
                          /\ stripeInvoices'[generating[h].stripe] \subseteq generating[h].lines
        BY <2>2, RowsStay DEF GeneratorsAreApart
      <3>1. CASE h = g BY <2>1, <2>2, <2>3, <2>4, <3>1
      <3>2. CASE h # g BY <2>2, <2>3, <2>4, <3>2 DEF GeneratorsAreApart
      <3> QED BY <3>1, <3>2
    <2>7. InvoicesMatchStripe'
      <3>1. \A row \in invoiceRows : row.stripe \in DOMAIN stripeInvoices BY <1>0
      <3>2. \A row \in invoiceRows : stripeInvoices'[row.stripe] = stripeInvoices[row.stripe]
        BY <2>3, <2>4, <3>1
      <3> QED BY <2>2, <3>2, RowsStay DEF InvoicesMatchStripe
    <2> QED BY <2>2, <2>5, <2>6, <2>7, RowsStay
  <1>8. ASSUME NEW g \in Generator, StoreInvoice(g) PROVE InvoiceInv'
    <2>1. PICK i, lines, total, savings :
              /\ i = generating[g].stripe /\ lines = generating[g].lines
              /\ total = Total(lines) /\ savings = HumanTotal(lines) - Total(lines)
      OBVIOUS
    <2> DEFINE row == [stripe |-> i, lines |-> lines, totalUsd |-> total,
                       totalSavingsUsd |-> savings]
    <2>2. /\ generating[g].at = "items" /\ lines = stripeInvoices[i]
          /\ invoiceRows' = invoiceRows \cup {row}
          /\ generating' = [generating EXCEPT ![g] = NotGenerating]
          /\ UNCHANGED <<dwiRows, stripeInvoices>>
      BY <1>8, <2>1 DEF StoreInvoice, ItemsAdded
    <2>3. /\ i \in DOMAIN stripeInvoices /\ Billed(lines) /\ lines \in SUBSET Dwi
          /\ \A other \in invoiceRows : other.stripe # i
          /\ \A h \in Generator \ {g} : generating[h].at = "items" => generating[h].stripe # i
      BY <1>0, <2>1, <2>2 DEF GeneratorsAreApart
    <2>4. total \in Int /\ savings \in Int /\ savings > 0 BY <2>1, <2>3, BilledSaves
    <2>5. /\ row \in [stripe : DOMAIN stripeInvoices, lines : SUBSET Dwi, totalUsd : Int,
                      totalSavingsUsd : Int]
          /\ row.stripe = i /\ row.lines = lines /\ row.totalUsd = total
          /\ row.totalSavingsUsd = savings
      BY <2>3, <2>4
    <2> HIDE DEF row
    <2>6. /\ generating' \in [Generator -> Generating \cup {NotGenerating}]
          /\ generating'[g] = NotGenerating
          /\ \A h \in Generator \ {g} : generating'[h] = generating[h]
      BY <1>0, <2>2
    <2>7. InvoiceTypeOK' BY <1>0, <2>2, <2>5, <2>6 DEF InvoiceTypeOK
    <2>8. GeneratorsAreApart'
      BY <1>0, <2>2, <2>3, <2>5, <2>6, RowsStay DEF GeneratorsAreApart
    <2>9. InvoicesMatchStripe'
      <3> SUFFICES ASSUME NEW other \in invoiceRows'
                   PROVE  /\ stripeInvoices'[other.stripe] = other.lines
                          /\ other.totalUsd = Total(other.lines)
                          /\ other.totalSavingsUsd > 0
                          /\ \A third \in invoiceRows' : third.stripe = other.stripe =>
                                 third = other
        BY <2>2 DEF InvoicesMatchStripe, Total
      <3>2. CASE other = row BY <2>1, <2>2, <2>3, <2>4, <2>5, <3>2
      <3>3. CASE other \in invoiceRows
        BY <2>2, <2>3, <2>5, <3>3 DEF InvoicesMatchStripe
      <3> QED BY <2>2, <3>2, <3>3
    <2> QED BY <2>2, <2>3, <2>5, <2>7, <2>8, <2>9, RowsStay
  <1>9. CASE UNCHANGED invoiceVars
    BY <1>9, PricesStay DEF invoiceVars, InvoiceTypeOK, CompletedHaveATier
  <1> QED BY <1>1, <1>2, <1>4, <1>5, <1>6, <1>7, <1>8, <1>9 DEF InvoiceNext

\* The state of invoicing keeps its types; a call that adds items has a Stripe invoice to
\* itself, and only DWIs completed before are on it.
THEOREM InvoiceTypeCorrect == InvoiceSpec => []InvoiceInv
  <1>1. InvoiceInit => InvoiceInv
    <2> SUFFICES ASSUME InvoiceInit PROVE InvoiceInv
      OBVIOUS
    <2>1. InvoiceTypeOK
      BY InvoiceAssumption DEF InvoiceInit, InvoiceTypeOK, OpenDwi
    <2>2. \A d \in Dwi : dwiRows[d].completedAt = 0 BY DEF InvoiceInit, OpenDwi
    <2>3. \A g \in Generator : generating[g].at = "done" BY DEF InvoiceInit, NotGenerating
    <2> QED BY <2>1, <2>2, <2>3
            DEF InvoiceInit, InvoiceInv, CompletedHaveATier, GeneratorsAreApart,
                InvoicesMatchStripe
  <1> QED BY <1>1, NextInvoice, PTL DEF InvoiceSpec

\* Whatever fails between the items and whatever is reverted meanwhile, an invoice in the
\* database has all its lines at Stripe, their total, and a saving.
THEOREM StoredInvoicesMatch == InvoiceSpec => []InvoicesMatchStripe
  <1>1. InvoiceInv => InvoicesMatchStripe BY DEF InvoiceInv
  <1> QED BY <1>1, InvoiceTypeCorrect, PTL

-----------------------------------------------------------------------------
(* Skill scores.                                                           *)

\* A score that is the mean of some samples of a pool.
BackedIn(row, pool) ==
    \E samples \in SUBSET pool : /\ Cardinality(samples) = row.sampleCount
                                 /\ row.total = SumFunctionOnSet(DeltaOf, samples)

\* The samples recorded so far are shared out to the rows: a row, and every copy that a
\* call has read of it, is backed by samples of its own pool.
Pools(pool) ==
    /\ \A r \in Sample : \A x \in pool[r] : scoring[x].at = "done"
    /\ \A r, q \in Sample : r # q => pool[r] \cap pool[q] = {}
    /\ \A r \in Sample : BackedIn(scoreRows[r], pool[r])
    /\ \A x \in Sample : scoring[x].at = "update" =>
           scoring[x].row \in Sample /\ BackedIn(scoring[x].seen, pool[scoring[x].row])

ScoresArePooled == \E pool \in [Sample -> SUBSET Sample] : Pools(pool)

SkillInv == SkillTypeOK /\ ScoresArePooled

\* A score with one more sample is backed in a pool with one more sample.
LEMMA BackedByOneMore ==
    ASSUME NEW pool \in SUBSET Sample, NEW row, BackedIn(row, pool), NEW x \in Sample, x \notin pool
    PROVE  /\ row.sampleCount \in 0..Cardinality(Sample) /\ row.total \in Int
           /\ row.sampleCount + 1 \in 0..Cardinality(Sample)
           /\ BackedIn([total |-> row.total + DeltaOf[x], sampleCount |-> row.sampleCount + 1],
                       pool \cup {x})
  <1>1. PICK samples \in SUBSET pool : /\ Cardinality(samples) = row.sampleCount
                                       /\ row.total = SumFunctionOnSet(DeltaOf, samples)
    BY DEF BackedIn
  <1>2. samples \in SUBSET Sample /\ samples \cup {x} \in SUBSET Sample /\ x \notin samples
    OBVIOUS
  <1>3. IsFiniteSet(samples) /\ IsFiniteSet(Sample) BY <1>2, FS_Subset, SkillAssumption
  <1>4. Cardinality(samples \cup {x}) = row.sampleCount + 1
    BY <1>1, <1>2, <1>3, FS_AddElement
  <1>5. Cardinality(samples \cup {x}) <= Cardinality(Sample)
    BY <1>2, <1>3, FS_Subset
  <1>6. Cardinality(Sample) \in Nat /\ Cardinality(samples) \in Nat
    BY <1>3, FS_CardinalityType
  <1>7. \A y \in samples \cup {x} : DeltaOf[y] \in Int BY <1>2, SkillAssumption
  <1>8. SumFunctionOnSet(DeltaOf, samples) \in Int BY <1>3, <1>7, SumType
  <1>9. SumFunctionOnSet(DeltaOf, samples \cup {x})
            = DeltaOf[x] + SumFunctionOnSet(DeltaOf, samples)
    BY <1>2, <1>3, <1>7, SumWith
  <1>10. DeltaOf[x] \in Int BY SkillAssumption
  <1>11. SumFunctionOnSet(DeltaOf, samples \cup {x}) = row.total + DeltaOf[x]
    BY <1>1, <1>8, <1>9, <1>10
  <1> DEFINE more == [total |-> row.total + DeltaOf[x], sampleCount |-> row.sampleCount + 1]
  <1>12. more.total = row.total + DeltaOf[x] /\ more.sampleCount = row.sampleCount + 1
    OBVIOUS
  <1> HIDE DEF more
  <1>13. samples \cup {x} \in SUBSET (pool \cup {x}) OBVIOUS
  <1>14. BackedIn(more, pool \cup {x}) BY <1>4, <1>11, <1>12, <1>13 DEF BackedIn
  <1> QED BY <1>1, <1>4, <1>5, <1>6, <1>8, <1>14 DEF more

\* No samples are the mean of nothing.
LEMMA NoScoreIsBacked == \A pool : BackedIn(NoScore, pool)
  <1>1. NoScore.total = 0 /\ NoScore.sampleCount = 0 BY DEF NoScore
  <1>2. Cardinality({}) = 0 BY FS_EmptySet
  <1>3. SumFunctionOnSet(DeltaOf, {}) = 0 BY SumOfNone
  <1> QED BY <1>1, <1>2, <1>3 DEF BackedIn

\* A call that records its sample puts it in the pool of the row it writes.
LEMMA NextScoreWritten ==
    ASSUME SkillInv, NEW x \in Sample, NEW r \in Sample, scoring[x].at \notin {"idle", "done"},
           NEW row, scoreRows' = [scoreRows EXCEPT ![r] = row],
           scoring' = [scoring EXCEPT ![x].at = "done"], UNCHANGED <<skillRows, links, workspace>>,
           \A pool \in [Sample -> SUBSET Sample] : Pools(pool) =>
               row \in ScoreRow /\ BackedIn(row, pool[r] \cup {x})
    PROVE  SkillInv'
  <1>1. PICK pool \in [Sample -> SUBSET Sample] : Pools(pool) BY DEF SkillInv, ScoresArePooled
  <1> DEFINE Scoring == [at : {"idle", "update", "insert", "done"}, row : Sample \cup {"none"},
                         seen : ScoreRow]
             call == [scoring[x] EXCEPT !.at = "done"]
             more == [pool EXCEPT ![r] = @ \cup {x}]
  <1>2. /\ scoring \in [Sample -> Scoring] /\ scoreRows \in [Sample -> ScoreRow]
        /\ row \in ScoreRow
    BY <1>1 DEF SkillInv, SkillTypeOK
  <1>3. call \in Scoring /\ call.at = "done" BY <1>2
  <1>4. scoring' = [scoring EXCEPT ![x] = call] OBVIOUS
  <1> HIDE DEF call
  <1>5. /\ scoring' \in [Sample -> Scoring] /\ scoring'[x].at = "done"
        /\ \A y \in Sample \ {x} : scoring'[y] = scoring[y]
    BY <1>2, <1>3, <1>4
  <1>6. /\ scoreRows' \in [Sample -> ScoreRow] /\ scoreRows'[r] = row
        /\ \A q \in Sample \ {r} : scoreRows'[q] = scoreRows[q]
    BY <1>2
  <1>7. SkillTypeOK' BY <1>5, <1>6 DEF SkillInv, SkillTypeOK
  <1>8. /\ more \in [Sample -> SUBSET Sample] /\ more[r] = pool[r] \cup {x}
        /\ \A q \in Sample \ {r} : more[q] = pool[q]
    OBVIOUS
  <1> HIDE DEF more
  <1>9. \A q \in Sample : x \notin pool[q] /\ pool[q] \subseteq Sample BY <1>1 DEF Pools
  <1>10. \A q \in Sample : \A y \in more[q] : scoring'[y].at = "done"
    <2> SUFFICES ASSUME NEW q \in Sample, NEW y \in more[q] PROVE scoring'[y].at = "done"
      OBVIOUS
    <2>1. y = x \/ y \in pool[q] BY <1>8
    <2>2. CASE y = x BY <1>5, <2>2
    <2>3. CASE y \in pool[q] /\ y # x BY <1>1, <1>5, <1>9, <2>3 DEF Pools
    <2> QED BY <2>1, <2>2, <2>3
  <1>11. \A q, p \in Sample : q # p => more[q] \cap more[p] = {}
    <2> SUFFICES ASSUME NEW q \in Sample, NEW p \in Sample, q # p PROVE more[q] \cap more[p] = {}
      OBVIOUS
    <2>1. pool[q] \cap pool[p] = {} BY <1>1 DEF Pools
    <2>2. x \notin pool[q] /\ x \notin pool[p] BY <1>9
    <2>3. CASE q = r BY <1>8, <2>1, <2>2, <2>3
    <2>4. CASE p = r BY <1>8, <2>1, <2>2, <2>4
    <2>5. CASE q # r /\ p # r BY <1>8, <2>1, <2>5
    <2> QED BY <2>3, <2>4, <2>5
  <1>12. \A q \in Sample : pool[q] \subseteq more[q] BY <1>8
  <1>13. \A s : \A q \in Sample : BackedIn(s, pool[q]) => BackedIn(s, more[q])
    BY <1>12 DEF BackedIn
  <1>14. \A q \in Sample : BackedIn(scoreRows'[q], more[q])
    <2> SUFFICES ASSUME NEW q \in Sample PROVE BackedIn(scoreRows'[q], more[q])
      OBVIOUS
    <2>1. CASE q = r BY <1>1, <1>6, <1>8, <2>1
    <2>2. CASE q # r BY <1>1, <1>6, <1>13, <2>2 DEF Pools
    <2> QED BY <2>1, <2>2
  <1>15. \A y \in Sample : scoring'[y].at = "update" =>
            scoring'[y].row \in Sample /\ BackedIn(scoring'[y].seen, more[scoring'[y].row])
    BY <1>1, <1>5, <1>13 DEF Pools
  <1>16. Pools(more)'
    <2>1. \A s, p : BackedIn(s, p)' = BackedIn(s, p) BY DEF BackedIn
    <2> QED BY <1>10, <1>11, <1>14, <1>15, <2>1 DEF Pools, BackedIn
  <1> QED BY <1>7, <1>8, <1>16 DEF SkillInv, ScoresArePooled

\* Every step keeps the samples shared out.
LEMMA NextSkill == SkillInv /\ [SkillNext]_skillVars => SkillInv'
  <1> SUFFICES ASSUME SkillInv, [SkillNext]_skillVars PROVE SkillInv'
    OBVIOUS
  <1>0. SkillTypeOK BY DEF SkillInv
  <1>1. ASSUME SkillTypeOK', UNCHANGED <<scoreRows, scoring>> PROVE SkillInv'
    <2>1. \A pool : Pools(pool) => Pools(pool)' BY <1>1 DEF Pools, BackedIn
    <2> QED BY <1>1, <2>1 DEF SkillInv, ScoresArePooled
  <1>2. ASSUME NEW k \in Skill, RegisterSkill(k) \/ ActivateForAgent(k) \/ DeactivateForAgent(k)
        PROVE  SkillInv'
    <2>1. MaxLinks \in Nat BY SkillAssumption
    <2>2. SkillTypeOK'
      BY <1>0, <1>2, <2>1 DEF RegisterSkill, ActivateForAgent, DeactivateForAgent, SkillTypeOK
    <2> QED BY <1>1, <1>2, <2>2 DEF RegisterSkill, ActivateForAgent, DeactivateForAgent
  <1>3. CASE WriteToWorkspace
    <2>1. SkillTypeOK' BY <1>0, <1>3 DEF WriteToWorkspace, GetAgentSkills, SkillTypeOK
    <2> QED BY <1>1, <1>3, <2>1 DEF WriteToWorkspace
  <1>4. CASE UNCHANGED skillVars
    <2>1. SkillTypeOK' BY <1>0, <1>4 DEF skillVars, SkillTypeOK
    <2> QED BY <1>1, <1>4, <2>1 DEF skillVars
  <1>5. ASSUME NEW x \in Sample, ReadScore(x) PROVE SkillInv'
    <2>1. PICK pool \in [Sample -> SUBSET Sample] : Pools(pool) BY DEF SkillInv, ScoresArePooled
    <2> DEFINE Scoring == [at : {"idle", "update", "insert", "done"},
                           row : Sample \cup {"none"}, seen : ScoreRow]
    <2>2. /\ scoring \in [Sample -> Scoring] /\ scoreRows \in [Sample -> ScoreRow]
          /\ scoring[x].at = "idle"
          /\ UNCHANGED <<skillRows, links, workspace, scoreRows>>
      BY <1>5 DEF ReadScore, SkillInv, SkillTypeOK
    <2>3. PICK call \in Scoring :
              /\ scoring' = [scoring EXCEPT ![x] = call]
              /\ call.at \in {"update", "insert"}
              /\ call.at = "update" => call.row \in Sample /\ call.seen = scoreRows[call.row]
      <3>1. ASSUME NEW r \in Sample,
                   scoring' = [scoring EXCEPT ![x] = [at |-> "update", row |-> r,
                                                      seen |-> scoreRows[r]]]
            PROVE  \E call \in Scoring :
                       /\ scoring' = [scoring EXCEPT ![x] = call]
                       /\ call.at \in {"update", "insert"}
                       /\ call.at = "update" =>
                              call.row \in Sample /\ call.seen = scoreRows[call.row]
        <4> DEFINE call == [at |-> "update", row |-> r, seen |-> scoreRows[r]]
        <4>1. call \in Scoring /\ call.row = r /\ call.seen = scoreRows[r] /\ call.at = "update"
          BY <2>2
        <4>2. scoring' = [scoring EXCEPT ![x] = call] BY <3>1
        <4> HIDE DEF call
        <4> QED BY <4>1, <4>2
      <3>2. ASSUME scoring' = [scoring EXCEPT ![x].at = "insert"]
            PROVE  \E call \in Scoring :
                       /\ scoring' = [scoring EXCEPT ![x] = call]
                       /\ call.at \in {"update", "insert"}
                       /\ call.at = "update" =>
                              call.row \in Sample /\ call.seen = scoreRows[call.row]
        <4> DEFINE call == [scoring[x] EXCEPT !.at = "insert"]
        <4>1. call \in Scoring /\ call.at = "insert" BY <2>2
        <4>2. scoring' = [scoring EXCEPT ![x] = call] BY <3>2
        <4> HIDE DEF call
        <4> QED BY <4>1, <4>2
      <3> QED BY <1>5, <3>1, <3>2 DEF ReadScore
    <2>4. /\ scoring' \in [Sample -> Scoring] /\ scoring'[x] = call
          /\ \A y \in Sample \ {x} : scoring'[y] = scoring[y]
      BY <2>2, <2>3
    <2>5. SkillTypeOK' BY <1>0, <2>2, <2>4 DEF SkillTypeOK
    <2>6. \A s, p : BackedIn(s, p)' = BackedIn(s, p) BY DEF BackedIn
    <2>7. Pools(pool)'
      <3>1. \A r \in Sample : \A y \in pool[r] : scoring'[y].at = "done"
        BY <2>1, <2>2, <2>4 DEF Pools
      <3>2. \A y \in Sample : scoring'[y].at = "update" =>
                scoring'[y].row \in Sample /\ BackedIn(scoring'[y].seen, pool[scoring'[y].row])
        BY <2>1, <2>3, <2>4 DEF Pools
      <3> QED BY <2>1, <2>2, <3>1, <3>2 DEF Pools, BackedIn
    <2> QED BY <2>5, <2>7 DEF SkillInv, ScoresArePooled
  <1>6. ASSUME NEW x \in Sample, WriteScore(x) PROVE SkillInv'
    <2>1. PICK seen, r : seen = scoring[x].seen /\ r = scoring[x].row OBVIOUS
    <2>2. r \in Sample BY <1>6, <2>1 DEF WriteScore, SkillInv, ScoresArePooled, Pools
    <2> DEFINE row == [total |-> seen.total + DeltaOf[x], sampleCount |-> seen.sampleCount + 1]
    <2>3. ASSUME NEW pool \in [Sample -> SUBSET Sample], Pools(pool)
          PROVE  row \in ScoreRow /\ BackedIn(row, pool[r] \cup {x})
      <3>1. BackedIn(seen, pool[r]) /\ x \notin pool[r] /\ pool[r] \in SUBSET Sample
        BY <1>6, <2>1, <2>2, <2>3 DEF WriteScore, Pools
      <3>2. /\ seen.sampleCount + 1 \in 0..Cardinality(Sample) /\ seen.total \in Int
            /\ BackedIn(row, pool[r] \cup {x})
        BY <3>1, BackedByOneMore
      <3>3. DeltaOf[x] \in Int BY SkillAssumption
      <3> QED BY <3>2, <3>3 DEF ScoreRow
    <2>4. scoreRows' = [scoreRows EXCEPT ![r] = row]
      BY <1>6, <2>1 DEF WriteScore, RunningMean
    <2> HIDE DEF row
    <2>5. scoring[x].at \notin {"idle", "done"} BY <1>6 DEF WriteScore
    <2>6. /\ scoring' = [scoring EXCEPT ![x].at = "done"]
          /\ UNCHANGED <<skillRows, links, workspace>>
      BY <1>6 DEF WriteScore
    <2> QED BY <2>2, <2>3, <2>4, <2>5, <2>6, NextScoreWritten
  <1>7. ASSUME NEW x \in Sample, InsertScore(x) PROVE SkillInv'
    <2> DEFINE row == [total |-> DeltaOf[x], sampleCount |-> 1]
    <2>1. ASSUME NEW pool \in [Sample -> SUBSET Sample], Pools(pool)
          PROVE  row \in ScoreRow /\ BackedIn(row, pool[x] \cup {x})
      <3>1. x \notin pool[x] /\ pool[x] \in SUBSET Sample
        BY <1>7, <2>1 DEF InsertScore, Pools
      <3>2. BackedIn(NoScore, pool[x]) BY NoScoreIsBacked
      <3>3. /\ 0 + 1 \in 0..Cardinality(Sample)
            /\ BackedIn([total |-> 0 + DeltaOf[x], sampleCount |-> 0 + 1], pool[x] \cup {x})
        <4>1. NoScore.total = 0 /\ NoScore.sampleCount = 0 BY DEF NoScore
        <4>2. /\ NoScore.sampleCount + 1 \in 0..Cardinality(Sample)
              /\ BackedIn([total |-> NoScore.total + DeltaOf[x],
                           sampleCount |-> NoScore.sampleCount + 1], pool[x] \cup {x})
          BY <3>1, <3>2, BackedByOneMore
        <4> QED BY <4>1, <4>2
      <3>4. DeltaOf[x] \in Int /\ 0 + DeltaOf[x] = DeltaOf[x] /\ 0 + 1 = 1 BY SkillAssumption
      <3> QED BY <3>3, <3>4 DEF ScoreRow
    <2>2. scoreRows' = [scoreRows EXCEPT ![x] = row] BY <1>7 DEF InsertScore
    <2> HIDE DEF row
    <2>3. scoring[x].at \notin {"idle", "done"} BY <1>7 DEF InsertScore
    <2>4. /\ scoring' = [scoring EXCEPT ![x].at = "done"]
          /\ UNCHANGED <<skillRows, links, workspace>>
      BY <1>7 DEF InsertScore
    <2> QED BY <2>1, <2>2, <2>3, <2>4, NextScoreWritten
  <1> QED BY <1>2, <1>3, <1>4, <1>5, <1>6, <1>7 DEF SkillNext

\* The state of the skill registry keeps its types, and the samples recorded are shared out.
THEOREM SkillTypeCorrect == SkillSpec => []SkillInv
  <1>1. SkillInit => SkillInv
    <2> SUFFICES ASSUME SkillInit PROVE SkillInv
      OBVIOUS
    <2>1. Cardinality(Sample) \in Nat /\ MaxLinks \in Nat
      BY SkillAssumption, FS_CardinalityType
    <2>2. NoScore \in ScoreRow BY <2>1 DEF NoScore, ScoreRow
    <2>3. SkillTypeOK BY <2>1, <2>2 DEF SkillInit, SkillTypeOK, NotScoring
    <2> DEFINE pool == [r \in Sample |-> {}]
    <2>4. pool \in [Sample -> SUBSET Sample] /\ \A r \in Sample : pool[r] = {} OBVIOUS
    <2> HIDE DEF pool
    <2>5. \A r \in Sample : scoreRows[r] = NoScore /\ scoring[r].at = "idle"
      BY DEF SkillInit, NotScoring
    <2>6. Pools(pool) BY <2>4, <2>5, NoScoreIsBacked DEF Pools
    <2> QED BY <2>3, <2>4, <2>6 DEF SkillInv, ScoresArePooled
  <1> QED BY <1>1, NextSkill, PTL DEF SkillSpec

\* Calls that overlap may lose samples or split them over two rows, but every row is the
\* mean of that many samples recorded, and none counts in two rows.
THEOREM ScoresAreNeverMadeUp == SkillSpec => []ScoresAreBacked
  <1>1. SkillInv => ScoresAreBacked
    <2> SUFFICES ASSUME SkillInv PROVE ScoresAreBacked
      OBVIOUS
    <2>1. PICK pool \in [Sample -> SUBSET Sample] : Pools(pool) BY DEF SkillInv, ScoresArePooled
    <2> DEFINE backs(r, samples) == /\ Cardinality(samples) = scoreRows[r].sampleCount
                                    /\ scoreRows[r].total = SumFunctionOnSet(DeltaOf, samples)
               share == [r \in Sample |-> CHOOSE samples \in SUBSET pool[r] : backs(r, samples)]
               written == {x \in Sample : scoring[x].at = "done"}
    <2>2. \A r \in Sample : \E samples \in SUBSET pool[r] : backs(r, samples)
      BY <2>1 DEF Pools, BackedIn
    <2>3. \A r \in Sample : share[r] \in SUBSET pool[r] /\ backs(r, share[r])
      BY <2>2
    <2>4. \A r \in Sample : pool[r] \subseteq written BY <2>1 DEF Pools
    <2>5. share \in [Sample -> SUBSET written] BY <2>3, <2>4
    <2>6. \A r, q \in Sample : r # q => share[r] \cap share[q] = {}
      BY <2>1, <2>3 DEF Pools
    <2> HIDE DEF share
    <2> QED BY <2>3, <2>5, <2>6 DEF ScoresAreBacked
  <1> QED BY <1>1, SkillTypeCorrect, PTL

-----------------------------------------------------------------------------
(* The services side by side, as the run checks them.                      *)

\* A step of the services is a step of one of them, and none to the others.
LEMMA StepsAreOfParts ==
    ASSUME [Next]_vars
    PROVE  /\ [AuditNext]_auditVars /\ [PatternNext]_patternVars
           /\ [AuthorityNext]_authorityVars /\ [InsuranceNext]_insuranceVars
           /\ [UsageNext]_usageVars /\ [InvoiceNext]_invoiceVars /\ [TenantNext]_tenantVars
           /\ [MemoryNext]_memoryVars /\ [SkillNext]_skillVars
           /\ part' = part
  <1>1. CASE UNCHANGED vars BY <1>1 DEF vars, governanceVars
  <1>2. part' = part BY <1>1 DEF Next, vars
  <1>3. CASE AuditPart BY <1>2, <1>3 DEF AuditPart
  <1>4. CASE PatternPart BY <1>2, <1>4 DEF PatternPart
  <1>5. CASE AuthorityPart BY <1>2, <1>5 DEF AuthorityPart
  <1>6. CASE InsurancePart BY <1>2, <1>6 DEF InsurancePart
  <1>7. CASE UsagePart BY <1>2, <1>7 DEF UsagePart, governanceVars
  <1>8. CASE InvoicePart BY <1>2, <1>8 DEF InvoicePart, governanceVars
  <1>9. CASE TenantPart BY <1>2, <1>9 DEF TenantPart, governanceVars
  <1>10. CASE MemoryPart BY <1>2, <1>10 DEF MemoryPart, governanceVars
  <1>11. CASE SkillPart BY <1>2, <1>11 DEF SkillPart, governanceVars
  <1> QED BY <1>1, <1>3, <1>4, <1>5, <1>6, <1>7, <1>8, <1>9, <1>10, <1>11 DEF Next

\* What the services do side by side each of them does on its own.
THEOREM PartsKeepTheirSpecs ==
    Spec => /\ AuditSpec /\ PatternSpec /\ AuthoritySpec /\ InsuranceSpec /\ UsageSpec
            /\ InvoiceSpec /\ TenantSpec /\ MemorySpec /\ SkillSpec
  <1>1. Init => /\ AuditInit /\ PatternInit /\ AuthorityInit /\ InsuranceInit /\ UsageInit
                /\ InvoiceInit /\ TenantInit /\ MemoryInit /\ SkillInit
    BY DEF Init
  <1>2. [Next]_vars => /\ [AuditNext]_auditVars /\ [PatternNext]_patternVars
                       /\ [AuthorityNext]_authorityVars /\ [InsuranceNext]_insuranceVars
                       /\ [UsageNext]_usageVars /\ [InvoiceNext]_invoiceVars
                       /\ [TenantNext]_tenantVars /\ [MemoryNext]_memoryVars
                       /\ [SkillNext]_skillVars
    BY StepsAreOfParts
  <1> QED BY <1>1, <1>2, PTL DEF Spec, AuditSpec, PatternSpec, AuthoritySpec, InsuranceSpec,
                                 UsageSpec, InvoiceSpec, TenantSpec, MemorySpec, SkillSpec

\* Side by side the services keep their types.
THEOREM BackOfficeTypeCorrect == Spec => []TypeOK
  <1>1. Spec => [](part \in Parts)
    <2>1. Init => part \in Parts BY DEF Init
    <2>2. part \in Parts /\ [Next]_vars => (part \in Parts)' BY StepsAreOfParts DEF Parts
    <2> QED BY <2>1, <2>2, PTL DEF Spec
  <1>2. /\ MemoryInv => MemoryTypeOK
        /\ UsageInv => UsageTypeOK
        /\ PatternInv => PatternTypeOK
        /\ InvoiceInv => InvoiceTypeOK
        /\ SkillInv => SkillTypeOK
    BY DEF MemoryInv, UsageInv, PatternInv, InvoiceInv, SkillInv
  <1>3. (/\ part \in Parts /\ AuditTypeOK /\ PatternTypeOK /\ AuthorityTypeOK /\ InsuranceTypeOK
         /\ UsageTypeOK /\ InvoiceTypeOK /\ TenantTypeOK /\ MemoryTypeOK /\ SkillTypeOK) => TypeOK
    BY DEF TypeOK
  <1> QED BY <1>1, <1>2, <1>3, PartsKeepTheirSpecs, AuditTypeCorrect, PatternTypeCorrect,
             AuthorityTypeCorrect, InsuranceTypeCorrect, UsageTypeCorrect, InvoiceTypeCorrect,
             TenantTypeCorrect, MemoryTypeCorrect, SkillTypeCorrect, PTL

===============================================================================
