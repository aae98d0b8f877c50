------------------------------ MODULE MCControl ------------------------------
(***************************************************************************)
(* The control plane side by side: Jarvis with its squad and its           *)
(* escalations, the conflict resolver, the registry and the router of      *)
(* models, the limiter their clients share, and the enhancement pipeline.  *)
(* They share no state, so each is checked on its own: a behaviour belongs *)
(* to one part, and the others keep their initial state.                   *)
(***************************************************************************)
EXTENDS Jarvis, ConflictResolver, RateLimiter, ModelRouter, EnhancementPipeline, TLC

CONSTANTS t1, t2, r1, r2

ASSUME ControlAssumption == t1 \in Tenant /\ Route = {r1, r2}

\* Values of the constants
OneVertical == [a \in Agent |-> "backend"]
TwoPriorities == 1..2
Providers == r1 :> "anthropic" @@ r2 :> "openai"
Priorities == r1 :> 1 @@ r2 :> 2
Prices == r1 :> 2 @@ r2 :> 1
TextInputs == {{"task", "claim", "code", "error", "pii", "long"},
               {"task", "chatter", "json", "secret", "system prompt", "danger"},
               {"long", "pii in comment", "pii after hash", "echoed pii"}}
CallerMarks == {[retryRequested |-> TRUE, highRisk |-> FALSE, currentModel |-> "claude-opus-4"],
                [retryRequested |-> FALSE, highRisk |-> TRUE, currentModel |-> "claude-haiku-3.5"]}
BuiltPipelines ==
    {{"rag-injector", "chain-of-verification", "ensemble-router", "domain-expert-prompts",
      "output-refinement-loop", "prompt-compiler", "security-scanner", "pii-detector"},
     {"schema-enforcer", "deterministic-validator", "confidence-scorer",
      "temperature-controller", "code-formatter", "semantic-deduplicator",
      "security-scanner", "license-checker"},
     {"retry-escalator", "context-compressor", "output-normalizer", "security-scanner",
      "pii-detector", "cost-limiter", "human-escalation-gate"}}
ModelPrices == "claude-haiku-3.5" :> 1 @@ "claude-sonnet-4" :> 3 @@ "claude-opus-4" :> 5

VARIABLE part

vars == <<jarvisVars, resolverVars, limiterVars, registryVars, routerVars, enhancementVars, part>>

Parts == {"jarvis", "resolver", "limiter", "registry", "router", "pipeline"}

\* Requests are routed over a registry that is filled.
FilledRegistry ==
    /\ routes = [r \in Route |-> [tenant |-> t1, active |-> TRUE]]
    /\ tenantRoutes = [t \in Tenant |-> IF t = t1 THEN <<r1, r2>> ELSE <<>>]

Init ==
    /\ part \in Parts
    /\ JarvisInit
    /\ ResolverInit
    /\ LimiterInit
    /\ IF part = "router" THEN FilledRegistry ELSE RegistryInit
    /\ RouterInit
    /\ PipelineInit
    /\ part # "pipeline" => enabled = CHOOSE stages \in Pipelines : TRUE

JarvisPart ==
    /\ part = "jarvis"
    /\ JarvisNext
    /\ UNCHANGED <<part, resolverVars, limiterVars, registryVars, routerVars, enhancementVars>>

ResolverPart ==
    /\ part = "resolver"
    /\ ResolverNext
    /\ UNCHANGED <<part, jarvisVars, limiterVars, registryVars, routerVars, enhancementVars>>

LimiterPart ==
    /\ part = "limiter"
    /\ LimiterNext
    /\ UNCHANGED <<part, jarvisVars, resolverVars, registryVars, routerVars, enhancementVars>>

RegistryPart ==
    /\ part = "registry"
    /\ RegistryNext
    /\ UNCHANGED <<part, jarvisVars, resolverVars, limiterVars, routerVars, enhancementVars>>

RouterPart ==
    /\ part = "router"
    /\ RouterNext
    /\ UNCHANGED <<part, jarvisVars, resolverVars, limiterVars, enhancementVars>>

PipelinePart ==
    /\ part = "pipeline"
    /\ PipelineNext
    /\ UNCHANGED <<part, jarvisVars, resolverVars, limiterVars, registryVars, routerVars>>

Next == JarvisPart \/ ResolverPart \/ LimiterPart \/ RegistryPart \/ RouterPart \/ PipelinePart

\* In its initial state a part has no step that its fairness asks for.
Spec == Init /\ [][Next]_vars /\ JarvisFairness /\ RouterFairness

\* Every variable has a value of its type.
TypeOK ==
    /\ part \in Parts
    /\ JarvisTypeOK
    /\ ResolverTypeOK
    /\ LimiterTypeOK
    /\ RegistryTypeOK
    /\ RouterTypeOK
    /\ PipelineTypeOK
=============================================================================
