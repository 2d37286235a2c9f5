SPECIFICATION Spec
CONSTANTS
    Users = {u1, u2}
    Roles = {r1}
    Calls = {c1}
    None = None
    Services <- MCServices
    Jobs = {j1}
    Workers = {w1}
SYMMETRY Symmetry
CHECK_DEADLOCK FALSE
INVARIANTS
    HandoverKeepsAccounts
    JobsStayMoved
    OnlyLateAssignmentsRemain
