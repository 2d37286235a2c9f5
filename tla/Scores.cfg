SPECIFICATION ScoresSpec
CONSTANTS
    a1 = a1  a2 = a2
    x1 = x1
    u1 = u1
    p1 = p1  p2 = p2
    k1 = k1  k2 = k2
    NoOne = NoOne
    Exams = {x1}
    Applications = {a1, a2}
    ExamOf <- OneExam
    Users = {u1}
    ScoreValues <- Values
    Appeals = {p1, p2}
    Changes <- Raised
    Keys = {k1, k2}
    Forms <- RuleForms
    Horizon = 1
    MaxDrafts = 1
INVARIANTS
    ApprovedRulesAreDisjoint
    VersionsAreAHistory
    ReleasedScoresAreCurrent
    EachAppealRevisesOnce
PROPERTY
    DeclarationCountsAbsences
CHECK_DEADLOCK FALSE
SYMMETRY Symmetry
