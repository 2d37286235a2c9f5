SPECIFICATION Spec
CONSTANTS
    a1 = a1  a2 = a2
    c1 = c1  c2 = c2  c3 = c3
    Applications = {a1, a2}
    Calls = {c1, c2, c3}
    None = None
    FirstYear = 1
    LastYear = 1
    MaxSequence = 1
SYMMETRY Symmetry
INVARIANTS
    PaymentsAreConfirmed
    OwnedNumberIsShown
CHECK_DEADLOCK FALSE
