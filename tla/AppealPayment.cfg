SPECIFICATION FairSpec
CONSTANTS
    p1 = p1
    c1 = c1  c2 = c2
    Appeals = {p1}
    Calls = {c1, c2}
INVARIANTS
    AppealFeesAreSettled
PROPERTY
    PaidFeesAreReleased
CHECK_DEADLOCK FALSE
