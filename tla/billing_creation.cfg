\* Three creations in flight against a budget of one DWI.
SPECIFICATION Spec
CONSTANTS
    DwiId = {d1, d2, d3, d4}
    WorkItem = {w1}
    NoDwi = NoDwi
    NoWorkItem = NoWorkItem
    Handler = {h1, h2, h3}
    Event <- OnlyCreations
    BudgetDwis = 1
    MaxReports = 2
    Pr = {p1}
    NoPr = NoPr
    GateHandler = {g1}
    MergeCarriesDwi = TRUE
SYMMETRY Interchangeable
INVARIANTS
    OvershootIsBounded
