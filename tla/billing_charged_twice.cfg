\* Two activations: one DWI, two usage records.
SPECIFICATION ReliableSpec
CONSTANTS
    DwiId = {d1}
    WorkItem = {w1}
    NoDwi = NoDwi
    NoWorkItem = NoWorkItem
    Handler = {h1, h2}
    Event <- AllEvents
    BudgetDwis = 1
    MaxReports = 2
    Pr = {p1}
    NoPr = NoPr
    GateHandler = {g1}
    MergeCarriesDwi = TRUE
INVARIANTS
    ChargedOnce
