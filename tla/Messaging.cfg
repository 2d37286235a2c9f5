SPECIFICATION FairSpec
CONSTANTS
    e1 = e1
    e2 = e2
    e3 = e3
    e4 = e4
    r1 = r1
    d1 = d1
    Events = {e1, e2, e3, e4}
    Resources = {r1}
    Deliveries = {d1}
    Resource <- MCResource
    OccurredAt <- MCOccurredAt
    Targeted <- MCTargeted
    Handlers = {h1, h2}
    Workers = {w1, w2}
    MaxAttempts = 3
    Publications <- MCPublications
    MaxRestarts = 1
    None = None
CHECK_DEADLOCK FALSE
INVARIANTS
    SentTwiceOnlyInDoubt
    NewestEventStands
PROPERTIES
    DeliveriesSettle
    EventsAreReported
