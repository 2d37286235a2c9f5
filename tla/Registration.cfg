SPECIFICATION Spec
CONSTANTS
    a1 = a1  a2 = a2  a3 = a3
    i1 = i1  i2 = i2  i3 = i3
    k1 = k1  k2 = k2
    e1 = e1
    Applications = {a1, a2, a3}
    Exams = {e1}
    Identities = {i1, i2, i3}
    RequestKeys = {k1, k2}
    None = None
    LegacyNumber = LegacyNumber
    Legacy = {a1}
    FirstYear = 1
    LastYear = 2
    MaxSequence = 2
    MaxCapacity = 2
    MaxRevisions = 2
    MaxLookups = 1
    DcrcRequired = TRUE
SYMMETRY Symmetry
INVARIANTS
    SeatsWithinCapacity
    WaitlistMatchesStatus
    EveryApplicationAnswersItsRequest
    NumbersMatchSlots
PROPERTIES
    PromotionIsFifo
    ImplementsNumberRegister
CHECK_DEADLOCK FALSE
