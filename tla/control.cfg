SPECIFICATION Spec
CONSTANTS
    \* Jarvis, its squad and its escalations
    Agent = {a1, a2}
    NoAgent = NoAgent
    VerticalOf <- OneVertical
    Item = {i1}
    NoItem = NoItem
    Call = {c1, c2}
    \* conflict resolver
    Editor = {e1, e2}
    NoEditor = NoEditor
    File = {f1}
    Priority <- TwoPriorities
    MaxConflicts = 2
    \* rate limiter
    Waiter = {w1, w2, w3}
    TokensPerMinute = 2
    \* model registry and router
    t1 = t1
    t2 = t2
    r1 = r1
    r2 = r2
    Tenant = {t1, t2}
    NoTenant = NoTenant
    Route = {r1, r2}
    ProviderOf <- Providers
    PriorityOf <- Priorities
    PriceOf <- Prices
    Request = {q1, q2}
    MaxFailures = 2
    Latency = {1}
    Turns = 2
    \* enhancement pipeline
    Inputs <- TextInputs
    Marks <- CallerMarks
    Pipelines <- BuiltPipelines
    Target = "claude"
    Format = "text"
    Redact = TRUE
    ExpectsSchema = FALSE
    CostOf <- ModelPrices
    MaxCost = 7
    MaxRetries = 2
    RiskThreshold = 40
    MaxExecutions = 2
INVARIANTS
    TypeOK
    WorkIsAnnounced
    BackOffsAreJustified
    DebtIsBounded
    RegisteredRoutesAreFound
    DisabledWithReason
    ScannedIsReturned
PROPERTIES
    SilentAgentsAreRelieved
    RequestsEnd
    BudgetStaysExceeded
\* The executions of a pipeline are bounded, after which it stops.
CHECK_DEADLOCK FALSE
