SPECIFICATION FairSpec
CONSTANTS
    a1 = a1
    r1 = r1
    w1 = w1
    Applications = {a1}
    Replicas = {r1}
    Workers = {w1}
    Events <- Resent
    MaxAttempts = 2
    MaxCopies = 1
PROPERTY
    EventsAreSettled
CHECK_DEADLOCK FALSE
