\* Two activations of the tracker and one of the monitor over one row, with
\* faults and restarts.
SPECIFICATION Spec
CONSTANTS
    DwiId = {d1}
    WorkItem = {w1}
    NoDwi = NoDwi
    NoWorkItem = NoWorkItem
    Handler = {h1, h2}
    Event <- AllEvents
    BudgetDwis = 1
    MaxReports = 2
    Pr = {p1}
    NoPr = NoPr
    GateHandler = {g1}
    MergeCarriesDwi = TRUE
SYMMETRY Interchangeable
INVARIANTS
    TypeOK
    BillableOnlyWhenAllGates
    StripeOnlyForDelivered
    RevertIsRequested
    ActivationsAreSound
PROPERTIES
    KeepsContract
