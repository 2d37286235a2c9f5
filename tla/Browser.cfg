SPECIFICATION Spec
CONSTANTS
    Users = {u1}
    Requests = {q1, q2}
    Tabs = {b1, b2}
    None = None
    MaxSessions = 2
    MaxTokens = 3
INVARIANTS
    OneExchangePerToken
    CookieIsCurrent
PROPERTIES
    RevokedStaysRevoked
    LogoutSticks
CHECK_DEADLOCK FALSE
SYMMETRY Symmetry
