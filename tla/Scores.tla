-------------------------------- MODULE Scores --------------------------------
(***************************************************************************)
(* Committees, score sheets, declarations and appeal revisions of the      *)
(* result service (result-service/src/result.service.ts) with its scoring  *)
(* rules and the eligibility projection they read.                         *)
(*                                                                         *)
(* submit, declareResults and applyAppealRevision run at SERIALIZABLE and  *)
(* setCommittee holds the committee row that a new sheet's foreign key     *)
(* needs: each is one step.  saveDraft checks the candidate and the head   *)
(* without locks and writes the sheet later.                               *)
(***************************************************************************)
EXTENDS ScoringRules

CONSTANTS
    Exams,          \* examinations
    Applications,   \* applications, each with at most one sheet
    ExamOf,         \* the examination of an application
    Users,          \* users who may head a committee
    ScoreValues,    \* what may be entered: a sequence of the four skill scores
    Appeals,        \* ids of approved appeals
    Changes,        \* revisions: functions from some of the skills to scores
    Keys,           \* idempotency keys
    MaxDrafts,      \* bound: saveDraft calls under way at once
    NoOne           \* the head of no committee

Skills == 1 .. 4
Original == "ORIGINAL"

\* An examination has finitely many applications.  Submissions and revisions have scopes of
\* their own among the idempotency records, score.submit:user and
\* score.appeal-revision:appeal, and an appeal's id is not what marks a submitted version.
ASSUME ScoresAssumption ==
    /\ IsFiniteSet(Applications)
    /\ Users \cap Appeals = {} /\ Original \notin Appeals
    /\ ExamOf \in [Applications -> Exams]
    /\ NoOne \notin Users
    /\ MaxDrafts \in Nat
    /\ ScoreValues \subseteq [Skills -> Int]
    /\ \A c \in Changes : DOMAIN c \subseteq Skills /\ \A k \in DOMAIN c : c[k] \in Int

VARIABLES
    eligibility,    \* candidate_eligibility.status
    head,           \* the committee's head, NoOne while there is no committee
    drafting,       \* saveDraft calls between their checks and their write
    sheet,          \* score_sheets, by application
    versions,       \* score_versions
    answers,        \* idempotency_records
    declared        \* the rule each examination was declared under

scoreVars == <<eligibility, head, drafting, sheet, versions, answers, declared>>
allScoreVars == <<ruleVars, scoreVars>>

NoRow == [row |-> "none"]
Released == {"PUBLISHED", "REVISED"}

\* Every vector of scores a sheet may come to hold.
Revised(scores, change) == [k \in Skills |-> IF k \in DOMAIN change THEN change[k] ELSE scores[k]]

HasSheet(a) == sheet[a] # NoRow
VersionsOf(a) == {v \in versions : v.application = a}
CurrentVersion(a) == CHOOSE v \in VersionsOf(a) : v.number = sheet[a].currentVersion
CommitteeEntered(x) == \E a \in Applications : ExamOf[a] = x /\ HasSheet(a)

ScoresTypeOK ==
    /\ RulesTypeOK
    /\ eligibility \in [Applications -> {"NONE", "ELIGIBLE", "ABSENT"}]
    /\ head \in [Exams -> Users \cup {NoOne}]
    /\ \A d \in drafting :
          d.application \in Applications /\ d.user \in Users /\ d.scores \in ScoreValues
    /\ \A a \in Applications : HasSheet(a) =>
          /\ sheet[a].status \in {"DRAFT"} \cup Released
          /\ sheet[a].enteredBy \in Users
          /\ sheet[a].draftScores \in [Skills -> Int]
          /\ sheet[a].currentVersion \in 0 .. Cardinality(Appeals) + 1
    /\ \A v \in versions :
          /\ v.application \in Applications /\ v.number \in 1 .. Cardinality(Appeals) + 1
          /\ v.scores \in [Skills -> Int] /\ v.overall \in Int
          /\ v.rule \in Forms /\ v.source \in {Original} \cup Appeals
    /\ \A r \in answers : r.scope \in Users \cup Appeals /\ r.key \in Keys
    /\ \A x \in Exams : declared[x] = NoRow \/ declared[x] \in Forms

ScoresInit ==
    /\ RulesInit
    /\ eligibility = [a \in Applications |-> "NONE"]
    /\ head = [x \in Exams |-> NoOne]
    /\ drafting = {}
    /\ sheet = [a \in Applications |-> NoRow]
    /\ versions = {}
    /\ answers = {}
    /\ declared = [x \in Exams |-> NoRow]

-----------------------------------------------------------------------------
(* The projection (Eligibility).                                           *)

\* A verification makes a candidate eligible, an absence needs the candidate's row.
Project(a) ==
    /\ \/ eligibility' = [eligibility EXCEPT ![a] = "ELIGIBLE"]
       \/ eligibility[a] # "NONE" /\ eligibility' = [eligibility EXCEPT ![a] = "ABSENT"]
    /\ UNCHANGED <<ruleVars, head, drafting, sheet, versions, answers, declared>>

-----------------------------------------------------------------------------
(* Committees and drafts.                                                  *)

SetCommittee(x, u) ==
    /\ ~CommitteeEntered(x)
    /\ head' = [head EXCEPT ![x] = u]
    /\ UNCHANGED <<ruleVars, eligibility, drafting, sheet, versions, answers, declared>>

Eligible(a) == eligibility[a] = "ELIGIBLE"

\* saveDraft reads the projection, the committee and its head ...
BeginDraft(a, u, scores) ==
    /\ Eligible(a)
    /\ head[ExamOf[a]] = u
    /\ Cardinality(drafting) < MaxDrafts
    /\ drafting' = drafting \cup {[application |-> a, user |-> u, scores |-> scores]}
    /\ UNCHANGED <<ruleVars, eligibility, head, sheet, versions, answers, declared>>

\* Mutated form of MayWrite: the sheet's status is read before it is locked.
MayWriteAnything(a) == TRUE

MayWrite(a) == HasSheet(a) => sheet[a].status = "DRAFT"

\* ... then locks the sheet, if there is one, and writes it.
SaveDraft(d) ==
    /\ drafting' = drafting \ {d}
    /\ MayWrite(d.application)
    /\ sheet' = [sheet EXCEPT ![d.application] =
            [status |-> IF HasSheet(d.application) THEN @.status ELSE "DRAFT",
             enteredBy |-> d.user, draftScores |-> d.scores,
             currentVersion |-> IF HasSheet(d.application) THEN @.currentVersion ELSE 0]]
    /\ UNCHANGED <<ruleVars, eligibility, head, versions, answers, declared>>

\* The sheet is no draft any more, or another first draft has taken the unique
\* (examId, applicationId).
RefuseDraft(d) ==
    /\ HasSheet(d.application)
    /\ drafting' = drafting \ {d}
    /\ UNCHANGED <<ruleVars, eligibility, head, sheet, versions, answers, declared>>

-----------------------------------------------------------------------------
(* Submission and declaration.                                             *)

Answered(scope, key) == \E r \in answers : r.scope = scope /\ r.key = key

Answer(scope, key, version) ==
    answers' = answers \cup {[scope |-> scope, key |-> key, application |-> version.application,
                              number |-> version.number, overall |-> version.overall]}

Version(a, number, scores, rule, source) ==
    [application |-> a, number |-> number, scores |-> scores, overall |-> Overall(scores, rule),
     rule |-> rule, source |-> source]

\* A submission by u.  A call whose key was answered before changes nothing.
Submit(a, u, key) ==
    /\ ~Answered(u, key)
    /\ HasSheet(a) /\ sheet[a].status = "DRAFT"
    /\ Eligible(a)
    /\ head[ExamOf[a]] = u
    /\ \E f \in ActiveRule :
          /\ Calculable(sheet[a].draftScores, f)
          /\ LET v == Version(a, 1, sheet[a].draftScores, f, Original) IN
                versions' = versions \cup {v} /\ Answer(u, key, v)
    /\ sheet' = [sheet EXCEPT ![a].status = "PUBLISHED", ![a].currentVersion = 1]
    /\ UNCHANGED <<ruleVars, eligibility, head, drafting, declared>>

InExam(x) == {a \in Applications : ExamOf[a] = x}
ReleasedIn(x) == {a \in InExam(x) : HasSheet(a) /\ sheet[a].status \in Released}
EligibleIn(x) == {a \in InExam(x) : Eligible(a)}

\* Mutated form of DeclareResults: any released sheet is enough.
DeclareResultsEarly(x) ==
    /\ declared[x] = NoRow
    /\ EligibleIn(x) # {} /\ ReleasedIn(x) # {}
    /\ \E f \in ActiveRule : declared' = [declared EXCEPT ![x] = f]
    /\ UNCHANGED <<ruleVars, eligibility, head, drafting, sheet, versions, answers>>

\* Sheets that are still SUBMITTED would be published here; none is since migration 0031.
DeclareResults(x) ==
    /\ declared[x] = NoRow
    /\ EligibleIn(x) # {}
    /\ Cardinality(ReleasedIn(x)) = Cardinality(EligibleIn(x))
    /\ \E f \in ActiveRule : declared' = [declared EXCEPT ![x] = f]
    /\ UNCHANGED <<ruleVars, eligibility, head, drafting, sheet, versions, answers>>

-----------------------------------------------------------------------------
(* Appeal revisions.  A repeated call has the same key or, sent anew,      *)
(* another one.                                                            *)

\* Mutated form of ReplayOf: the sheet's current version is answered.
ReplayOfCurrent(a, p) == {v \in VersionsOf(a) : v.number = sheet[a].currentVersion}

\* The version an appeal has produced.
ReplayOf(a, p) == {v \in VersionsOf(a) : v.source = p}

AppealApplied(p) == \E v \in versions : v.source = p

ReplayRevision(a, p, key) ==
    /\ ~Answered(p, key)
    /\ AppealApplied(p)
    /\ \E v \in ReplayOf(a, p) : Answer(p, key, v)
    /\ UNCHANGED <<ruleVars, eligibility, head, drafting, sheet, versions, declared>>

\* Mutated form of RevisionRule: the revision uses the rule in force.
RevisionRuleActive(v) == ActiveRule

\* The rule of the version that is revised.
RevisionRule(v) == {v.rule}

Revise(a, p, key, expected, change) ==
    /\ ~Answered(p, key)
    /\ ~AppealApplied(p)
    /\ HasSheet(a) /\ sheet[a].status \in Released
    /\ sheet[a].currentVersion = expected
    /\ Eligible(a)
    /\ LET current == CurrentVersion(a)
           scores == Revised(current.scores, change)
       IN  /\ scores # current.scores
           /\ \E f \in RevisionRule(current) :
                 /\ Calculable(scores, f)
                 /\ LET v == Version(a, current.number + 1, scores, f, p) IN
                       versions' = versions \cup {v} /\ Answer(p, key, v)
           /\ sheet' = [sheet EXCEPT ![a].status = "REVISED", ![a].draftScores = scores,
                                     ![a].currentVersion = current.number + 1]
    /\ UNCHANGED <<ruleVars, eligibility, head, drafting, declared>>

-----------------------------------------------------------------------------
ScoresNext ==
    \/ RulesStep /\ UNCHANGED scoreVars
    \/ \E a \in Applications : Project(a)
    \/ \E x \in Exams : DeclareResults(x) \/ \E u \in Users : SetCommittee(x, u)
    \/ \E d \in drafting : SaveDraft(d) \/ RefuseDraft(d)
    \/ \E a \in Applications, u \in Users :
          \/ \E s \in ScoreValues : BeginDraft(a, u, s)
          \/ \E key \in Keys : Submit(a, u, key)
    \/ \E a \in Applications, p \in Appeals, key \in Keys :
          \/ ReplayRevision(a, p, key)
          \/ \E n \in 1 .. Cardinality(Appeals) + 1, c \in Changes : Revise(a, p, key, n, c)

ScoresSpec == ScoresInit /\ [][ScoresNext]_allScoreVars

-----------------------------------------------------------------------------
(* Properties.                                                             *)

\* The versions of a sheet are its history: numbered from 1 to the current one, the first
\* one submitted and each later one made by an appeal of its own, from different scores,
\* all of them calculated with the rule of the submission.
VersionsAreAHistory ==
    \A a \in Applications : HasSheet(a) =>
        LET n == sheet[a].currentVersion IN
        /\ Cardinality(VersionsOf(a)) = n
        /\ \A i \in 1 .. n : \E v \in VersionsOf(a) :
              /\ v.number = i
              /\ v.source = Original <=> i = 1
              /\ \A w \in VersionsOf(a) :
                    /\ v.rule = w.rule
                    /\ w # v => v.source # w.source
                    /\ w.number = i - 1 => v.scores # w.scores

\* What is released is what the current version says: a draft that was checked before the
\* submission and written after it changes nothing the candidate sees.
ReleasedScoresAreCurrent ==
    \A a \in Applications : HasSheet(a) =>
        IF sheet[a].status = "DRAFT" THEN sheet[a].currentVersion = 0
        ELSE /\ sheet[a].draftScores = CurrentVersion(a).scores
             /\ sheet[a].status = "REVISED" <=> sheet[a].currentVersion > 1

\* However often and under whatever keys a revision is sent, all its answers name the one
\* version that the appeal has made.
EachAppealRevisesOnce ==
    \A p \in Appeals :
        /\ Cardinality({v \in versions : v.source = p}) <= 1
        /\ \A r \in answers : r.scope = p => \E v \in versions :
              v.source = p /\ v.application = r.application /\ v.number = r.number
                           /\ v.overall = r.overall

\* Results are declared while an eligible candidate has no released score only if a released
\* sheet of a candidate who is no longer eligible makes up the number: nothing but an absence
\* recorded after the scores can hide a missing score.
DeclarationCountsAbsences ==
    [][\A x \in Exams : declared'[x] # declared[x] /\ ~(EligibleIn(x) \subseteq ReleasedIn(x)) =>
          \E a \in ReleasedIn(x) : eligibility[a] = "ABSENT"]_allScoreVars

\* The tables behave as the log of VersionLog: the submission makes the first version, each
\* later one is the only version of an appeal, and none is changed or taken back.
Log == INSTANCE VersionLog WITH
    Sheets <- Applications,
    log <- [a \in Applications |-> [n \in 1 .. Cardinality(VersionsOf(a)) |->
                (CHOOSE v \in VersionsOf(a) : v.number = n).source]]
ImplementsVersionLog == Log!Spec
=============================================================================
