\* One pod, one work item, no faults.
SPECIFICATION ReliableSpec
CONSTANTS
    Agent = {a1}
    NoAgent = NoAgent
    WorkItem = {1}
    NoItem = NoItem
    Answers <- AlwaysClaim
INVARIANTS
    NoPrFromAKilledSession
