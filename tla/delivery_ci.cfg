\* No faults, one tick at a time.
SPECIFICATION ReliableSpec
CONSTANTS
    DwiId = {d1}
    WorkItem = {w1}
    NoDwi = NoDwi
    NoWorkItem = NoWorkItem
    Handler = {h1}
    Event <- AllEvents
    BudgetDwis = 0
    MaxReports = 1
    Pr = {p1}
    NoPr = NoPr
    ItemOf <- OneItem
    Tick = {t1}
    Answered <- WithoutReviews
PROPERTIES
    CiPassedIsRecorded
