SPECIFICATION FairSpec
CONSTANTS
    Calls = {c1, c2}
    None = None
    MaxLogins = 2
    MaxWebhooks = 2
INVARIANTS
    OneSessionPerProof
    RefusedOpensNothing
    SessionsReachTheTab
PROPERTIES
    PanelSettles
CHECK_DEADLOCK FALSE
