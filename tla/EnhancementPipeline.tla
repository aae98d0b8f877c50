------------------------- MODULE EnhancementPipeline -------------------------
(***************************************************************************)
(* packages/enhancement-layer/src/{pipeline,pipeline-builder}.ts: a text   *)
(* goes through the stages one after another; each awaits the one before   *)
(* it, and one that throws is recorded and skipped.  The same context is   *)
(* handed to later executions: the cost limiter, the retry escalator and   *)
(* the human escalation gate keep what they know in its metadata, next to  *)
(* what the caller puts there.                                             *)
(***************************************************************************)
EXTENDS EnhancementStages, Sequences, SequencesExt

CONSTANTS Inputs,         \* the texts the callers hand in
          Marks,          \* what they put in the metadata before an execution
          Pipelines,      \* sets of stages some builder enables
          Target, Format, Redact, ExpectsSchema,   \* options of the stages
          CostOf,         \* model -> price of a short text
          MaxCost, MaxRetries, RiskThreshold,
          MaxExecutions   \* bound: executions that share a context

VARIABLES enabled,     \* the stages of this pipeline
          pending,     \* stages still to run in the execution under way
          content,     \* currentContent
          metadata,    \* context.metadata
          outcome,     \* stageResults, as far as anything depends on them
          scanned      \* the text the security scanner looked at

enhancementVars == <<enabled, pending, content, metadata, outcome, scanned>>

Model == {"claude-haiku-3.5", "claude-sonnet-4", "claude-opus-4"}

\* The order in which build() adds what is enabled.
StageOrderArmoursFirst ==   \* a defect: the codecs run after the armours
    <<"rag-injector", "chain-of-verification", "ensemble-router", "domain-expert-prompts",
      "output-refinement-loop", "schema-enforcer", "deterministic-validator",
      "confidence-scorer", "temperature-controller", "retry-escalator",
      "security-scanner", "pii-detector", "license-checker", "cost-limiter",
      "human-escalation-gate", "prompt-compiler", "context-compressor",
      "output-normalizer", "code-formatter", "semantic-deduplicator">>

StageOrder ==
    <<"rag-injector", "chain-of-verification", "ensemble-router", "domain-expert-prompts",
      "output-refinement-loop", "schema-enforcer", "deterministic-validator",
      "confidence-scorer", "temperature-controller", "retry-escalator",
      "prompt-compiler", "context-compressor", "output-normalizer", "code-formatter",
      "semantic-deduplicator", "security-scanner", "pii-detector", "license-checker",
      "cost-limiter", "human-escalation-gate">>

Stage == ToSet(StageOrder)

ASSUME PipelineAssumption ==
    /\ Inputs \subseteq Text
    /\ Marks \subseteq [retryRequested : BOOLEAN, highRisk : BOOLEAN, currentModel : Model]
    /\ Pipelines \subseteq SUBSET Stage
    /\ CostOf \in [Model -> Nat]
    /\ {MaxCost, MaxRetries, MaxExecutions} \subseteq Nat
    /\ Redact \in BOOLEAN

\* What may become of the text in a stage.
Effect(stage, text) ==
    CASE stage = "rag-injector"            -> RagInjector(text)
      [] stage = "chain-of-verification"   -> {ChainOfVerification(text)}
      [] stage = "ensemble-router"         -> {EnsembleRouter(text)}
      [] stage = "domain-expert-prompts"   -> {DomainExpertPrompts(text)}
      [] stage = "output-refinement-loop"  -> {OutputRefinementLoop(text)}
      [] stage = "schema-enforcer"         -> SchemaEnforcer(text, ExpectsSchema)
      [] stage = "deterministic-validator" -> {DeterministicValidator(text)}
      [] stage = "prompt-compiler"         -> {PromptCompiler(text, Target)}
      [] stage = "context-compressor"      -> ContextCompressor(text)
      [] stage = "output-normalizer"       -> {OutputNormalizer(text, Format)}
      [] stage = "code-formatter"          -> {CodeFormatter(text)}
      [] stage = "semantic-deduplicator"   -> {SemanticDeduplicator(text)}
      [] stage = "pii-detector"            -> {PiiDetector(text, Redact)}
      [] OTHER                             -> {text}

NoOutcome == [ran |-> {}, failed |-> {}, modified |-> FALSE, findings |-> 0,
              violations |-> 0, review |-> FALSE, killed |-> FALSE]

NoMetadata == [cost |-> 0, retryCount |-> 0, escalated |-> FALSE, recommended |-> "none",
               retryRequested |-> FALSE, highRisk |-> FALSE, model |-> "claude-haiku-3.5",
               requiresHumanReview |-> FALSE, executions |-> 0]

\* computeScore before the clamp, in hundredths; nothing ran: no reason to doubt.
RawScore(confidence) ==
    LET share(set) == (Cardinality(set) * 100) \div Cardinality(enabled)
    IN  IF enabled = {} THEN 100
        ELSE 100 - share(outcome.failed) + (IF outcome.modified THEN 10 ELSE 0)
                 - 5 * outcome.findings - (IF outcome.review THEN 20 ELSE 0)
                 + (confidence - 50) \div 5

\* A defect: no clamp.
FinalScoreUnclamped(confidence) == RawScore(confidence)

FinalScore(confidence) == Min({100, Max({0, RawScore(confidence)})})

Metadata == [cost : Nat, retryCount : Nat, escalated : BOOLEAN,
             recommended : Model \cup {"none"}, retryRequested : BOOLEAN,
             highRisk : BOOLEAN, model : Model, requiresHumanReview : BOOLEAN,
             executions : 0..MaxExecutions]

Outcome == [ran : SUBSET enabled, failed : SUBSET enabled, modified : BOOLEAN,
            findings : Nat, violations : Nat, review : BOOLEAN, killed : BOOLEAN]

PipelineTypeOK ==
    /\ enabled \in SUBSET Stage
    /\ pending \subseteq enabled
    /\ content \in Text
    /\ scanned \in Text
    /\ metadata \in Metadata
    /\ outcome \in Outcome
    /\ \A confidence \in Confidence(content) : FinalScore(confidence) \in 0..100

PipelineInit ==
    /\ enabled \in Pipelines
    /\ pending = {}
    /\ content = {}
    /\ metadata = NoMetadata
    /\ outcome = NoOutcome
    /\ scanned = {}

----------------------------------------------------------------------------
(* The stages that keep something in the metadata.                          *)

EscalationTarget(model) ==
    CASE model = "claude-haiku-3.5" -> "claude-sonnet-4"
      [] OTHER                      -> "claude-opus-4"

RetryEscalator(meta) ==
    LET counted == [meta EXCEPT !.retryCount = @ + 1]
    IN  IF ~meta.retryRequested THEN meta
        ELSE IF counted.retryCount < MaxRetries THEN counted
        ELSE [counted EXCEPT !.escalated = TRUE, !.recommended = EscalationTarget(meta.model)]

RequestCost(meta, text) == CostOf[meta.model] * (IF "long" \in text THEN 2 ELSE 1)

CostLimiterPerRequest(meta, text) ==   \* a defect: nothing is carried over
    [meta EXCEPT !.cost = RequestCost(meta, text)]

CostLimiter(meta, text) == [meta EXCEPT !.cost = @ + RequestCost(meta, text)]

\* In hundredths: nothing in this layer writes the keys from which the gate takes
\* security findings, PII, licences and the budget, so these score 0, and the
\* confidence, which then counts 30.  Weights are in tenths.
ContentRisk(text) == (IF "danger" \in text THEN 30 ELSE 0)
                   + (IF "privilege" \in text THEN 20 ELSE 0)
                   + (IF "exposure" \in text THEN 15 ELSE 0)

InfraRisk(text) == (IF "production" \in text THEN 30 ELSE 0)
                 + (IF "terraform" \in text THEN 20 ELSE 0)
                 + (IF "kubernetes" \in text THEN 20 ELSE 0)
                 + (IF "ddl" \in text THEN 15 ELSE 0)

RiskScore(meta, text) ==
    LET implicit == 30 * 10 + ContentRisk(text) * 20 + InfraRisk(text) * 15
    IN  IF meta.highRisk THEN (implicit + 100 * 50) \div 185 ELSE implicit \div 135

HumanEscalationGate(meta, text) ==
    IF RiskScore(meta, text) >= RiskThreshold THEN [meta EXCEPT !.requiresHumanReview = TRUE]
                                              ELSE meta

Remember(stage, meta, text) ==
    CASE stage = "retry-escalator"       -> RetryEscalator(meta)
      [] stage = "cost-limiter"          -> CostLimiter(meta, text)
      [] stage = "human-escalation-gate" -> HumanEscalationGate(meta, text)
      [] OTHER                           -> meta

\* details.findings: the scanner, the PII detector.
Findings(stage, text) ==
    CASE stage = "security-scanner" -> SecurityScanner(text)
      [] stage = "pii-detector"     -> PiiFindings(text)
      [] OTHER                      -> 0

----------------------------------------------------------------------------
\* pipeline.execute: the caller says what the last attempt came to, how risky the
\* work is and which model it is for.
Execute(input, mark) ==
    /\ pending = {}
    /\ metadata.executions < MaxExecutions
    /\ pending' = enabled
    /\ content' = input
    /\ scanned' = {}
    /\ outcome' = NoOutcome
    /\ metadata' = [metadata EXCEPT !.retryRequested = mark.retryRequested,
                                    !.highRisk = mark.highRisk,
                                    !.model = mark.currentModel, !.executions = @ + 1]
    /\ UNCHANGED enabled

\* The stages run in the order in which build() has added them.
IsNext(stage) ==
    /\ stage \in pending
    /\ \E i \in DOMAIN StageOrder : /\ StageOrder[i] = stage
                                    /\ \A j \in 1..(i - 1) : StageOrder[j] \notin pending

StageRuns(stage) ==
    /\ IsNext(stage)
    /\ LET known == Remember(stage, metadata, content)
       IN  /\ pending' = pending \ {stage}
           /\ content' \in Effect(stage, content)
           /\ metadata' = known
           /\ scanned' = IF stage = "security-scanner" THEN content ELSE scanned
           /\ outcome' = [ran |-> outcome.ran \cup {stage},
                          failed |-> outcome.failed,
                          modified |-> outcome.modified \/ content' # content,
                          findings |-> outcome.findings + Findings(stage, content),
                          violations |-> IF stage = "license-checker" THEN LicenseChecker(content)
                                                                      ELSE outcome.violations,
                          review |-> outcome.review
                              \/ (stage = "human-escalation-gate"
                                  /\ RiskScore(metadata, content) >= RiskThreshold),
                          killed |-> outcome.killed
                              \/ (stage = "cost-limiter" /\ known.cost > MaxCost)]
    /\ UNCHANGED enabled

\* The text stays; what the stage put in the metadata before it threw is not modelled.
StageThrows(stage) ==
    /\ IsNext(stage)
    /\ outcome.failed = {}   \* bound: one stage of an execution throws
    /\ outcome' = [outcome EXCEPT !.failed = @ \cup {stage}]
    /\ pending' = pending \ {stage}
    /\ UNCHANGED <<enabled, content, metadata, scanned>>

\* The next work item has a context of its own.
NewContext ==
    /\ pending = {}
    /\ metadata.executions = MaxExecutions
    /\ metadata' = NoMetadata
    /\ outcome' = NoOutcome
    /\ content' = {}
    /\ scanned' = {}
    /\ UNCHANGED <<enabled, pending>>

PipelineNext ==
    \/ \E input \in Inputs, mark \in Marks : Execute(input, mark)
    \/ \E stage \in Stage : StageRuns(stage) \/ StageThrows(stage)
    \/ NewContext

PipelineSpec == PipelineInit /\ [][PipelineNext]_enhancementVars

----------------------------------------------------------------------------
\* Whatever the codecs and amplifiers make of a text, and whichever stage throws,
\* what is returned is what the security scanner has looked at, except that
\* personal data outside comments is gone once the detector has redacted it.
ScannedIsReturned ==
    (pending = {} /\ "security-scanner" \in outcome.ran) =>
        /\ content \subseteq scanned
        /\ scanned \ content \subseteq {"pii"}
        /\ (Redact /\ "pii-detector" \in outcome.ran) => "pii" \notin content

\* Once the requests of a context were over the budget, every later one that the cost
\* limiter sees is killed: the sum in the metadata survives the executions in
\* between, whichever model and text they are for and whichever stage throws.
BudgetStaysExceeded ==
    [][(metadata.cost > MaxCost /\ metadata'.executions > 0) =>
           /\ metadata'.cost > MaxCost
           /\ "cost-limiter" \in outcome'.ran \ outcome.ran => outcome'.killed]_enhancementVars
=============================================================================
