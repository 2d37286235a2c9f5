SPECIFICATION Spec
CONSTANTS
    a1 = a1
    r1 = r1  r2 = r2
    w1 = w1  w2 = w2
    Applications = {a1}
    Replicas = {r1, r2}
    Workers = {w1, w2}
    Events <- OnceEach
    MaxAttempts = 1
    MaxCopies = 2
INVARIANTS
    NoEventLost
PROPERTIES
    EachEventAppliedOnce
CHECK_DEADLOCK FALSE
SYMMETRY Symmetry
