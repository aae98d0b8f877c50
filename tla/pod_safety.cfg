\* Two pods, two work items, every fault.
SPECIFICATION Spec
CONSTANTS
    Agent = {a1, a2}
    NoAgent = NoAgent
    WorkItem = {1, 2}
    NoItem = NoItem
    Answers <- AnyAnswer
SYMMETRY Pods
INVARIANTS
    TypeOK
    EventsFollowThePr
    ResolvedIsAnnounced
    CodingHasItsOwnWatchdog
