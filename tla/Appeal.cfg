SPECIFICATION Spec
CONSTANTS
    Sheets = {s1}
    Appeals = {p1, p2}
    Calls = {k1, k2}
INVARIANTS
    CertificatesAreNumbered
    OneActiveAppeal
    EachRevisionWasApproved
    CompletedRevisionsAreApplied
    OnlyLateCertificatesAreStale
CHECK_DEADLOCK FALSE
SYMMETRY Symmetry
