\* Two pods racing for one work item, no faults.
SPECIFICATION ReliableSpec
CONSTANTS
    Agent = {a1, a2}
    NoAgent = NoAgent
    WorkItem = {1}
    NoItem = NoItem
    Answers <- AlwaysClaim
INVARIANTS
    ActiveIsInHand
PROPERTIES
    EveryItemIsAnswered
