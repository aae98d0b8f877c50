\* One pull request, two overlapping ticks, every fault.
SPECIFICATION Spec
CONSTANTS
    DwiId = {d1}
    WorkItem = {w1}
    NoDwi = NoDwi
    NoWorkItem = NoWorkItem
    Handler = {h1}
    Event <- AllEvents
    BudgetDwis = 0
    MaxReports = 1
    Pr = {p1}
    NoPr = NoPr
    ItemOf <- OneItem
    Tick = {t1, t2}
    Answered <- WithoutReviews
SYMMETRY Ticks
INVARIANTS
    TypeOK
    EvidenceIsTrue
    FlagIsBacked
