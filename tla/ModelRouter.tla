----------------------------- MODULE ModelRouter -----------------------------
(***************************************************************************)
(* packages/model-router/src/router.ts with strategy.ts, health-monitor.ts *)
(* and fallback-chain.ts: requests of one tenant are routed side by side.  *)
(* route() awaits a token of the rate limiter (see RateLimiter) and then   *)
(* each call of a provider; what it read of the registry and the monitor   *)
(* before is not read again.                                               *)
(*                                                                         *)
(* Counts that are only compared with a bound stop at it: a provider's     *)
(* consecutive failures at MaxFailures, the index of the round robin at a  *)
(* common multiple of the numbers of routes it is taken modulo.  An        *)
(* average of latencies is one of the values it is taken of.  The failures *)
(* the fallback executor counts for itself are read by nothing.            *)
(***************************************************************************)
EXTENDS ModelRegistry, FiniteSets

CONSTANTS
    Request,
    MaxFailures,    \* failures in a row that disable a provider
    Latency,        \* sizes of latency told apart
    Turns           \* common multiple of the numbers of candidate routes

ASSUME RouterAssumption ==
    /\ MaxFailures \in Nat \ {0}
    /\ Latency \subseteq Nat
    /\ Turns \in Nat \ {0}

VARIABLES
    failures,       \* per provider, consecutive, as the health monitor counts
    disabled,       \* per provider: FALSE, or how far its cooldown is
    latency,        \* average per route, Unmeasured (Infinity) without data
    roundRobinIndex,
    routing         \* per request, where route() is

routerVars == <<failures, disabled, latency, roundRobinIndex, routing>>

Unmeasured == 1000000

Strategy == {"cost-optimized", "quality-optimized", "latency-optimized", "round-robin"}

Disabled == {"no", "cooling", "cooled"}

Idle == [pc |-> "idle"]

\* route is the selected one, chain the providers still to be asked, the first
\* of them for the (attempt + 1)st time; retries is chain.maxRetries.
Routing == [pc : {"acquiring", "generating"}, route : Route, chain : Seq(Provider),
            attempt : {0, 1}, retries : {0, 1}]

RouterTypeOK ==
    /\ failures \in [Provider -> 0 .. MaxFailures]
    /\ disabled \in [Provider -> Disabled]
    /\ latency \in [Route -> Latency \cup {Unmeasured}]
    /\ roundRobinIndex \in 0 .. Turns - 1
    /\ routing \in [Request -> Routing \cup {Idle}]

RouterInit ==
    /\ failures = [p \in Provider |-> 0]
    /\ disabled = [p \in Provider |-> "no"]
    /\ latency = [r \in Route |-> Unmeasured]
    /\ roundRobinIndex = 0
    /\ routing = [q \in Request |-> Idle]

\* A defect: a success leaves the provider disabled.
RecordSuccessOnly(p) ==
    /\ failures' = [failures EXCEPT ![p] = 0]
    /\ UNCHANGED disabled

RecordSuccess(p) ==
    /\ failures' = [failures EXCEPT ![p] = 0]
    /\ disabled' = [disabled EXCEPT ![p] = "no"]

RecordFailure(p) ==
    /\ failures' = [failures EXCEPT ![p] = IF @ < MaxFailures THEN @ + 1 ELSE @]
    /\ disabled' = [disabled EXCEPT ![p] =
                        IF @ = "no" /\ failures[p] + 1 >= MaxFailures THEN "cooling" ELSE @]

IsHealthy(p) == disabled[p] # "cooling"

\* Asking after a provider whose cooldown is over enables it, for this request
\* and whoever asks from now on.
AskAfter(providers) ==
    LET back == {p \in providers : disabled[p] = "cooled"}
    IN  /\ disabled' = [p \in Provider |-> IF p \in back THEN "no" ELSE disabled[p]]
        /\ failures' = [p \in Provider |-> IF p \in back THEN 0 ELSE failures[p]]

Cooldown(p) ==
    /\ disabled[p] = "cooling"
    /\ disabled' = [disabled EXCEPT ![p] = "cooled"]
    /\ UNCHANGED <<failures, latency, roundRobinIndex, routing>>

\* reduce: the first of the routes with the least measure.
Least(t, candidates, measure) ==
    Nth(t, {r \in candidates : \A s \in candidates : measure[r] <= measure[s]}, 0)

SelectRoute(t, candidates, strategy) ==
    CASE strategy = "cost-optimized" -> Least(t, candidates, PriceOf)
      [] strategy = "quality-optimized" -> Least(t, candidates, PriorityOf)
      [] strategy = "latency-optimized" -> Least(t, candidates, latency)
      [] strategy = "round-robin" ->
             Nth(t, candidates, roundRobinIndex % Cardinality(candidates))

RecordLatency(r) ==
    \E sample \in Latency :
        latency' \in {[latency EXCEPT ![r] = sample],
                      IF latency[r] = Unmeasured THEN [latency EXCEPT ![r] = sample]
                                                 ELSE latency}

\* The providers of the routes left after the filters, other than the selected
\* one's; the second and third may be the same.
BuildFallbackChain(t, selected, candidates) ==
    LET others == {r \in candidates : ProviderOf[r] # ProviderOf[selected]}
        used   == IF Cardinality(others) < 2 THEN Cardinality(others) ELSE 2
    IN  <<ProviderOf[selected]>> \o [i \in 1 .. used |-> ProviderOf[Nth(t, others, i - 1)]]

NonEmptyOr(some, all) == IF some # {} THEN some ELSE all

\* The filters of route(), for a preferred provider or none ("any").
Liked(t, preferred) ==
    LET active == GetActiveRoutes(t)
    IN  NonEmptyOr({r \in active : ProviderOf[r] = preferred}, active)

Candidates(t, preferred) ==
    LET liked == Liked(t, preferred)
    IN  NonEmptyOr({r \in liked : IsHealthy(ProviderOf[r])}, liked)

Asked(t, preferred) == {ProviderOf[r] : r \in Liked(t, preferred)}

\* route() up to the token of the rate limiter; without an active route it
\* throws at once.
StartRouting(q, t, preferred, strategy) ==
    /\ routing[q] = Idle
    /\ GetActiveRoutes(t) # {}
    /\ LET candidates == Candidates(t, preferred)
           selected   == SelectRoute(t, candidates, strategy)
           chain      == BuildFallbackChain(t, selected, candidates)
       IN  routing' = [routing EXCEPT ![q] =
                [pc |-> "acquiring", route |-> selected, chain |-> chain, attempt |-> 0,
                 retries |-> IF Len(chain) > 1 THEN 1 ELSE 0]]
    /\ roundRobinIndex' = IF strategy = "round-robin" THEN (roundRobinIndex + 1) % Turns
                                                      ELSE roundRobinIndex
    /\ AskAfter(Asked(t, preferred))
    /\ UNCHANGED latency

TokenAcquired(q) ==
    /\ routing[q].pc = "acquiring"
    /\ routing' = [routing EXCEPT ![q].pc = "generating"]
    /\ UNCHANGED <<failures, disabled, latency, roundRobinIndex>>

\* A fallback's success is the success of the fallback alone: the selected
\* provider that refused is not counted as failing.
Answered(q) ==
    /\ routing[q].pc = "generating"
    /\ \E reason \in Reason : Generate(Head(routing[q].chain), reason) # "refused"
    /\ RecordSuccess(Head(routing[q].chain))
    /\ RecordLatency(routing[q].route)
    /\ routing' = [routing EXCEPT ![q] = Idle]
    /\ UNCHANGED roundRobinIndex

Attempted(q) == Generate(Head(routing[q].chain), "error") = "refused"

\* A defect: after the last attempt the first comes again.
RefusedAnew(q) ==
    /\ routing[q].pc = "generating"
    /\ Attempted(q)
    /\ routing' = [routing EXCEPT ![q].attempt = IF @ < routing[q].retries THEN @ + 1 ELSE 0]
    /\ UNCHANGED <<failures, disabled, latency, roundRobinIndex>>

\* Another attempt, the next provider of the chain, or the request fails, to
\* the account of the selected route's provider.
Refused(q) ==
    /\ routing[q].pc = "generating"
    /\ Attempted(q)
    /\ \/ /\ routing[q].attempt < routing[q].retries
          /\ routing' = [routing EXCEPT ![q].attempt = @ + 1]
          /\ UNCHANGED <<failures, disabled>>
       \/ /\ routing[q].attempt = routing[q].retries
          /\ Len(routing[q].chain) > 1
          /\ routing' = [routing EXCEPT ![q].chain = Tail(@), ![q].attempt = 0]
          /\ UNCHANGED <<failures, disabled>>
       \/ /\ routing[q].attempt = routing[q].retries
          /\ Len(routing[q].chain) = 1
          /\ routing' = [routing EXCEPT ![q] = Idle]
          /\ RecordFailure(ProviderOf[routing[q].route])
    /\ UNCHANGED <<latency, roundRobinIndex>>

RouterNext ==
    /\ \/ \E q \in Request :
            \/ \E t \in Tenant, preferred \in Provider \cup {"any"}, strategy \in Strategy :
                    StartRouting(q, t, preferred, strategy)
            \/ TokenAcquired(q)
            \/ Answered(q)
            \/ Refused(q)
       \/ \E p \in Provider : Cooldown(p)
    /\ UNCHANGED registryVars

\* Sleeps end and calls of providers are answered or refused.
RouterFairness ==
    \A q \in Request : WF_routerVars(TokenAcquired(q) \/ Answered(q) \/ Refused(q))

\* Between two steps of the router the registry may change.
RouterSpec ==
    /\ RegistryInit /\ RouterInit
    /\ [][RouterNext \/ (RegistryNext /\ UNCHANGED routerVars)]_<<registryVars, routerVars>>
    /\ RouterFairness

(***************************************************************************)
(* A provider is passed over only for as many failures in a row as the     *)
(* configuration says (recordFailure, recordSuccess, isHealthy), however   *)
(* the requests in flight, selected before, end.                           *)
(***************************************************************************)
DisabledWithReason ==
    \A p \in Provider : disabled[p] # "no" => failures[p] = MaxFailures

(***************************************************************************)
(* Every request routed is answered or fails (route, execute), even if     *)
(* every provider refuses every call.                                      *)
(***************************************************************************)
RequestsEnd ==
    \A q \in Request : routing[q] # Idle ~> routing[q] = Idle
=============================================================================
