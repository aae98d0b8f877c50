SPECIFICATION Spec
CONSTANTS
    \* governance
    Event = {v1, v2, v3}
    MaxFlights = 2
    Signature = {g1}
    Report = {p1, p2}
    HighFrequencyThreshold = 3
    MaxReported = 4
    Grantee = {a1}
    Scope = {d1, d2}
    MaxTime = 3
    Policy = {y1, y2}
    Filer = {f1, f2}
    \* usage and invoices
    Worker = {w1}
    AwuLength = 3
    TickLength = 2
    MaxClock = 9
    MaxBooked = 2
    Dwi <- TwoDwis
    WorkItemOf <- LargeAndTiny
    Generator = {n1}
    LastDay = 2
    \* tenants
    Signup = {s1, s2}
    Slug = {u1}
    Editor = {e1, e2}
    Quota = {5}
    \* memories and skills
    MaxMemories = 2
    Adder = {b1, b2}
    MaxEntriesPerCategory = 1
    MaxPromotions = 1
    x1 = x1
    x2 = x2
    x3 = x3
    Skill = {k1}
    Sample = {x1, x2, x3}
    DeltaOf <- Deltas
    MaxLinks = 2
INVARIANTS
    TypeOK
    EventsAreKept
    CountsAreBacked
    ClaimsSpendThePolicy
    SessionsAreBookedOnce
    InvoicesMatchStripe
    SlugsAreUnique
    ActiveIsProvisioned
    ScoresAreBacked
PROPERTIES
    RevocationIsInvisible
    ForgottenOnlyFromTheArchive
\* Each part's history is bounded, after which it stops.
CHECK_DEADLOCK FALSE
