\* One activation of the tracker against one of the monitor.
SPECIFICATION ReliableSpec
CONSTANTS
    DwiId = {d1}
    WorkItem = {w1}
    NoDwi = NoDwi
    NoWorkItem = NoWorkItem
    Handler = {h1}
    Event <- AllEvents
    BudgetDwis = 1
    MaxReports = 2
    Pr = {p1}
    NoPr = NoPr
    GateHandler = {g1}
    MergeCarriesDwi = TRUE
PROPERTIES
    RevertedStaysUnbillable
