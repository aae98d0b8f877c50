---------------------------- MODULE ModelRegistry ----------------------------
(***************************************************************************)
(* packages/model-router/src/model-registry.ts: the routes of each tenant  *)
(* to the providers, in memory, and the providers' side of a call          *)
(* (providers/*.ts).  What a route leads to and costs goes with its id.    *)
(***************************************************************************)
EXTENDS Naturals, FiniteSets, Sequences, SequencesExt

CONSTANTS
    Tenant,
    NoTenant,
    Route,
    ProviderOf,     \* the provider a route leads to
    PriorityOf,     \* of a route, the best is the lowest
    PriceOf         \* of a route, input and output together

Provider == {"anthropic", "openai", "google", "ollama"}

ASSUME RegistryAssumption ==
    /\ NoTenant \notin Tenant
    /\ ProviderOf \in [Route -> Provider]
    /\ PriorityOf \in [Route -> Nat]
    /\ PriceOf \in [Route -> Nat]

VARIABLES
    routes,         \* the registered routes by id
    tenantRoutes    \* the ids of a tenant's routes, in the order of registration

registryVars == <<routes, tenantRoutes>>

Unregistered == [tenant |-> NoTenant, active |-> FALSE]

RegistryTypeOK ==
    /\ routes \in [Route -> [tenant : Tenant \cup {NoTenant}, active : BOOLEAN]]
    /\ tenantRoutes \in [Tenant -> Seq(Route)]

RegistryInit ==
    /\ routes = [r \in Route |-> Unregistered]
    /\ tenantRoutes = [t \in Tenant |-> <<>>]

\* A tenant that registers a route already registered by another takes it over;
\* the id also stays with the other.
Register(r, t, active) ==
    /\ routes' = [routes EXCEPT ![r] = [tenant |-> t, active |-> active]]
    /\ tenantRoutes' = [tenantRoutes EXCEPT ![t] = IF Contains(@, r) THEN @ ELSE Append(@, r)]

\* A defect: the id is taken from every tenant before the route is known.
UnregisterFirst(r) ==
    /\ tenantRoutes' = [t \in Tenant |-> RemoveFirst(tenantRoutes[t], r)]
    /\ routes' \in {routes, [routes EXCEPT ![r] = Unregistered]}

Unregister(r) ==
    /\ routes[r] # Unregistered
    /\ routes' = [routes EXCEPT ![r] = Unregistered]
    /\ tenantRoutes' = [tenantRoutes EXCEPT ![routes[r].tenant] =
                            RemoveFirst(@, r)]

SetActive(r, active) ==
    /\ routes[r] # Unregistered
    /\ routes' = [routes EXCEPT ![r].active = active]
    /\ UNCHANGED tenantRoutes

RegistryNext ==
    \E r \in Route :
        \/ \E t \in Tenant, active \in BOOLEAN : Register(r, t, active)
        \/ Unregister(r)
        \/ \E active \in BOOLEAN : SetActive(r, active)

RegistrySpec == RegistryInit /\ [][RegistryNext]_registryVars

GetActiveRoutes(t) == {r \in ToSet(tenantRoutes[t]) : routes[r].active}

\* Where a route stands among its tenant's.
Place(t) == [r \in ToSet(tenantRoutes[t]) |->
                CHOOSE i \in DOMAIN tenantRoutes[t] : tenantRoutes[t][i] = r]

\* The one of these routes of a tenant before which n of them stand.
Nth(t, some, n) ==
    CHOOSE r \in some : Cardinality({s \in some : Place(t)[s] < Place(t)[r]}) = n

(***************************************************************************)
(* What generate makes of the reason a provider gives for ending its text, *)
(* and "refused" where it throws.                                          *)
(***************************************************************************)
Reason == {"end", "length", "stop_sequence", "filtered", "unfinished", "error"}

AnthropicGenerate(reason) ==
    CASE reason = "error" -> "refused"
      [] reason = "length" -> "max-tokens"
      [] reason = "stop_sequence" -> "stop"
      [] OTHER -> "complete"

\* Text the filter cut is complete text.
OpenAIGenerate(reason) ==
    CASE reason = "error" -> "refused"
      [] reason = "length" -> "max-tokens"
      [] OTHER -> "complete"

GoogleGenerate(reason) ==
    CASE reason = "error" -> "refused"
      [] reason = "length" -> "max-tokens"
      [] reason = "filtered" -> "stop"
      [] OTHER -> "complete"

\* Text that reached num_predict is complete text.
OllamaGenerate(reason) ==
    CASE reason = "error" -> "refused"
      [] reason = "unfinished" -> "error"
      [] OTHER -> "complete"

\* The model is the provider's own choice: the route's is not passed.
Generate(provider, reason) ==
    CASE provider = "anthropic" -> AnthropicGenerate(reason)
      [] provider = "openai" -> OpenAIGenerate(reason)
      [] provider = "google" -> GoogleGenerate(reason)
      [] provider = "ollama" -> OllamaGenerate(reason)

(***************************************************************************)
(* A registered route is among those its tenant's requests choose from     *)
(* (register, unregister), whichever tenants registered the id before.     *)
(***************************************************************************)
RegisteredRoutesAreFound ==
    \A r \in Route : routes[r] # Unregistered => Contains(tenantRoutes[routes[r].tenant], r)
=============================================================================
