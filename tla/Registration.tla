---------------------------- MODULE Registration ----------------------------
(***************************************************************************)
(* The examination registration service                                    *)
(* (apps/registration-service/src/registration.service.ts): registration   *)
(* windows and capacity, applications from submission to attendance, the   *)
(* waitlist, DSTS numbers and idempotent submission.                       *)
(*                                                                         *)
(* One action is one database transaction.  submit and cancel run          *)
(* SERIALIZABLE, the other handlers lock the row they change, and a write  *)
(* conflict rolls the transaction back, so each takes effect at one point. *)
(* verify is the exception: it reads the application and asks DCRC about   *)
(* it before its transaction begins, and is two actions here.              *)
(*                                                                         *)
(* A handler that throws changes nothing: its action is not enabled.  Who  *)
(* may call what, notifications' wording and the append-only history table *)
(* are left out; the payment columns are not this module's.                *)
(***************************************************************************)
EXTENDS DstsNumbers

CONSTANTS
    Exams,              \* examination ids
    Identities,         \* identity keys (CIDs)
    RequestKeys,        \* pairs of a user and an Idempotency-Key
    LegacyNumber,       \* a number of the format that predates DSTS numbers
    Legacy,             \* applications that may predate DSTS numbers
    MaxCapacity,        \* bound: largest capacity a window is given
    MaxRevisions,       \* bound: profile snapshots per application
    MaxLookups,         \* bound: verifications that wait for DCRC at once
    DcrcRequired        \* DCRC_VERIFICATION_REQUIRED

ASSUME ApplicationsAssumption ==
    /\ IsFiniteSet(Applications)
    /\ Legacy \subseteq Applications
    /\ LegacyNumber \notin Numbers \cup {None}
    /\ None \notin Numbers \cup Exams \cup Identities

ASSUME BoundsAssumption ==
    /\ MaxCapacity \in Nat \ {0}
    /\ MaxRevisions \in Nat \ {0} /\ MaxLookups \in Nat
    /\ DcrcRequired \in BOOLEAN
    /\ None \notin 1 .. MaxRevisions

VARIABLES
    examStatus,         \* exams.status; NoRow before createExam
    capacity,           \* exams.capacity
    window,             \* now against registrationStart and registrationEnd
    status,             \* applications.status; NoRow before submit
    examOf,             \* applications.examId
    identityKey,        \* applications.identityKey
    registrationNumber, \* applications.registrationNumber
    releasedNumber,     \* applications.releasedRegistrationNumber
    reviewStarted,      \* applications.reviewStartedAt is set
    profile,            \* which revision applications.profileSnapshot holds
    dcrcMatched,        \* the revision behind applications.dcrcLookupId
    attendance,         \* attendance.overallStatus
    entry,              \* waitlist_entries.status
    positionKey,        \* waitlist_entries.positionKey
    answered,           \* idempotency_records: the application a request key made
    outbox,             \* the kinds of event recorded about each application
    lookups             \* verify calls that hold DCRC's answer

examVars == <<examStatus, capacity, window>>
profileVars == <<profile, dcrcMatched, lookups>>
waitlistVars == <<entry, positionKey>>
identityVars == <<examOf, identityKey, answered>>
vars == <<examVars, profileVars, waitlistVars, identityVars, numberVars, status,
          registrationNumber, releasedNumber, reviewStarted, attendance, outbox>>

NoRow == "NO_ROW"
ExamStatuses == {"DRAFT", "PUBLISHED", "REGISTRATION_OPEN", "REGISTRATION_CLOSED",
                 "IN_PROGRESS", "RESULTS_DECLARED", "ARCHIVED", "CANCELLED"}
ApplicationStatuses == {"SUBMITTED", "WAITLISTED", "UNDER_REVIEW", "RETURNED",
                        "VERIFIED", "CANCELLED", "ABSENT"}
Windows == {"BEFORE", "DURING", "AFTER"}
EntryStatuses == {"WAITING", "PROMOTED", "CANCELLED"}
EventTypes == {"ApplicationSubmitted", "ApplicationWaitlisted", "ApplicationCancelled",
               "WaitlistCandidatePromoted", "ApplicationReturned",
               "ApplicationVerified", "CandidateMarkedAbsent"}
Revisions == 1 .. MaxRevisions
Capacities == 1 .. MaxCapacity

CapacityStatuses == {"SUBMITTED", "UNDER_REVIEW", "RETURNED", "VERIFIED"}
SeatOccupyingStatuses == CapacityStatuses \cup {"ABSENT"}

\* The applications of exam e whose status is one of S.
Having(e, S) == {a \in Applications : examOf[a] = e /\ status[a] \in S}
Rows == {a \in Applications : status[a] # NoRow}
Waiting(e) == {a \in Applications : examOf[a] = e /\ entry[a] = "WAITING"}

Record(type, a) == outbox' = outbox \cup {<<type, a>>}

TypeOK ==
    /\ NumbersTypeOK
    /\ examStatus \in [Exams -> ExamStatuses \cup {NoRow}]
    /\ capacity \in [Exams -> Capacities]
    /\ window \in [Exams -> Windows]
    /\ status \in [Applications -> ApplicationStatuses \cup {NoRow}]
    /\ examOf \in [Applications -> Exams \cup {None}]
    /\ identityKey \in [Applications -> Identities \cup {None}]
    /\ registrationNumber \in [Applications -> Numbers \cup {None, LegacyNumber}]
    /\ releasedNumber \in [Applications -> Numbers \cup {None}]
    /\ reviewStarted \in [Applications -> BOOLEAN]
    /\ profile \in [Applications -> Revisions]
    /\ dcrcMatched \in [Applications -> Revisions \cup {None}]
    /\ attendance \in [Applications -> {NoRow, "PRESENT", "ABSENT"}]
    /\ entry \in [Applications -> EntryStatuses \cup {NoRow}]
    /\ positionKey \in [Applications -> Nat]
    /\ answered \in [RequestKeys -> Applications \cup {None}]
    /\ outbox \subseteq EventTypes \X Applications
    /\ lookups \subseteq Applications \X Revisions

\* A deployment that has just been migrated: some applications of older formats, each
\* of another identity, in windows that are open and hold them; no DSTS number yet.
Init ==
    /\ NumbersInit
    /\ capacity \in [Exams -> Capacities]
    /\ window = [e \in Exams |-> "DURING"]
    /\ examOf \in [Applications -> Exams \cup {None}]
    /\ identityKey \in [Applications -> Identities \cup {None}]
    /\ status \in [Applications -> {NoRow, "SUBMITTED", "VERIFIED"}]
    /\ \A a \in Applications : /\ status[a] # NoRow => a \in Legacy
                               /\ examOf[a] = None <=> status[a] = NoRow
                               /\ identityKey[a] = None <=> status[a] = NoRow
    /\ \A a, b \in Applications :
          identityKey[a] = identityKey[b] /\ identityKey[a] # None => a = b
    /\ examStatus = [e \in Exams |-> IF \E a \in Legacy : examOf[a] = e
                                     THEN "REGISTRATION_OPEN" ELSE NoRow]
    /\ \A e \in Exams : Cardinality(Having(e, CapacityStatuses)) <= capacity[e]
    /\ registrationNumber = [a \in Applications |->
                                IF status[a] = "VERIFIED" THEN LegacyNumber ELSE None]
    /\ releasedNumber = [a \in Applications |-> None]
    /\ reviewStarted = [a \in Applications |-> status[a] = "VERIFIED"]
    /\ profile = [a \in Applications |-> 1]
    /\ dcrcMatched = [a \in Applications |-> None]
    /\ attendance = [a \in Applications |-> NoRow]
    /\ entry = [a \in Applications |-> NoRow]
    /\ positionKey = [a \in Applications |-> 0]
    /\ answered = [k \in RequestKeys |-> None]
    /\ outbox = {"ApplicationVerified"} \X {a \in Applications : status[a] = "VERIFIED"}
    /\ lookups = {}

-----------------------------------------------------------------------------
(* Examination windows.                                                    *)

CreateExam(e, c, w) ==
    /\ examStatus[e] = NoRow
    /\ examStatus' = [examStatus EXCEPT ![e] = "DRAFT"]
    /\ capacity' = [capacity EXCEPT ![e] = c]
    /\ window' = [window EXCEPT ![e] = w]
    /\ UNCHANGED <<profileVars, waitlistVars, identityVars, numberVars, status,
                   registrationNumber, releasedNumber, reviewStarted, attendance, outbox>>

AllowedExamTransitions ==
    ({"DRAFT"} \X {"PUBLISHED", "CANCELLED"})
    \cup ({"PUBLISHED"} \X {"REGISTRATION_OPEN", "CANCELLED"})
    \cup ({"REGISTRATION_OPEN"} \X {"REGISTRATION_CLOSED", "CANCELLED"})
    \cup ({"REGISTRATION_CLOSED"} \X {"REGISTRATION_OPEN", "IN_PROGRESS", "CANCELLED"})
    \cup {<<"IN_PROGRESS", "RESULTS_DECLARED">>, <<"RESULTS_DECLARED", "ARCHIVED">>}

\* A closed window is reopened only before its closing time.
SetExamStatus(e, to) ==
    /\ <<examStatus[e], to>> \in AllowedExamTransitions
    /\ ~(examStatus[e] = "REGISTRATION_CLOSED" /\ to = "REGISTRATION_OPEN"
         /\ window[e] = "AFTER")
    /\ examStatus' = [examStatus EXCEPT ![e] = to]
    /\ UNCHANGED <<capacity, window, profileVars, waitlistVars, identityVars, numberVars,
                   status, registrationNumber, releasedNumber, reviewStarted, attendance,
                   outbox>>

ReservedSeats(e) == Cardinality(Having(e, SeatOccupyingStatuses))

\* c and w are the new capacity and where now lies in the new window; an edit of the
\* schedule reopens a closed window whose new closing time has not passed.
UpdateExam(e, c, w, scheduleEdited) ==
    /\ examStatus[e] \in {"DRAFT", "PUBLISHED", "REGISTRATION_OPEN", "REGISTRATION_CLOSED"}
    /\ ReservedSeats(e) <= c
    /\ w = window[e] \/ scheduleEdited
    /\ capacity' = [capacity EXCEPT ![e] = c]
    /\ window' = [window EXCEPT ![e] = w]
    /\ examStatus' = [examStatus EXCEPT ![e] =
            IF scheduleEdited /\ @ = "REGISTRATION_CLOSED" /\ w # "AFTER"
            THEN "REGISTRATION_OPEN" ELSE @]
    /\ UNCHANGED <<profileVars, waitlistVars, identityVars, numberVars, status,
                   registrationNumber, releasedNumber, reviewStarted, attendance, outbox>>

\* The clock passes the opening or the closing time of e's window.
TimePasses(e) ==
    /\ examStatus[e] # NoRow
    /\ window[e] # "AFTER"
    /\ window' = [window EXCEPT ![e] = IF @ = "BEFORE" THEN "DURING" ELSE "AFTER"]
    /\ UNCHANGED <<examStatus, capacity, profileVars, waitlistVars, identityVars, numberVars,
                   status, registrationNumber, releasedNumber, reviewStarted, attendance,
                   outbox>>

-----------------------------------------------------------------------------
(* Submission.  A request key that is already answered gets the recorded   *)
(* response again and changes nothing, so no action stands for it.         *)

\* Mutated form of HasFreeSeat: the seat after the last one is free too.
HasFreeSeatOffByOne(e) == Cardinality(Having(e, CapacityStatuses)) <= capacity[e]

HasFreeSeat(e) == Cardinality(Having(e, CapacityStatuses)) < capacity[e]

Duplicate(e, i) == \E a \in Rows : examOf[a] = e /\ identityKey[a] = i

\* Mutated form of Unanswered: the idempotency record is not looked up.
UnansweredUnread(k) == TRUE

Unanswered(k) == answered[k] = None

\* Date.now() while the examination row is locked: later than every earlier entry.
NextPositionKey == Cardinality({a \in Applications : entry[a] # NoRow}) + 1

TakeSeat(a, e) ==
    /\ HasFreeSeat(e)
    /\ status' = [status EXCEPT ![a] = "SUBMITTED"]
    /\ Record("ApplicationSubmitted", a)
    /\ UNCHANGED waitlistVars

JoinWaitlist(a, e) ==
    /\ ~HasFreeSeat(e)
    /\ status' = [status EXCEPT ![a] = "WAITLISTED"]
    /\ entry' = [entry EXCEPT ![a] = "WAITING"]
    /\ positionKey' = [positionKey EXCEPT ![a] = NextPositionKey]
    /\ Record("ApplicationWaitlisted", a)

Submit(a, e, i, k, n) ==
    /\ status[a] = NoRow
    /\ Unanswered(k)
    /\ examStatus[e] = "REGISTRATION_OPEN" /\ window[e] = "DURING"
    /\ ~Duplicate(e, i)
    /\ TakeSeat(a, e) \/ JoinWaitlist(a, e)
    /\ examOf' = [examOf EXCEPT ![a] = e]
    /\ identityKey' = [identityKey EXCEPT ![a] = i]
    /\ AllocateDstsNumber(a, n)
    /\ registrationNumber' = [registrationNumber EXCEPT ![a] = n]
    /\ answered' = [answered EXCEPT ![k] = a]
    /\ UNCHANGED <<examVars, profileVars, year, releasedNumber, reviewStarted, attendance>>

-----------------------------------------------------------------------------
(* Cancellation and promotion from the waitlist.                           *)

\* Mutated form of NextInLine: the newest entry is promoted first.
NextInLineNewest(e, b) ==
    b \in Waiting(e) /\ \A c \in Waiting(e) : positionKey[c] <= positionKey[b]

\* ORDER BY positionKey ASC over the waiting entries.
NextInLine(e, b) ==
    b \in Waiting(e) /\ \A c \in Waiting(e) : positionKey[b] <= positionKey[c]

MayCancel(a) == ~reviewStarted[a] /\ status[a] \in {"SUBMITTED", "WAITLISTED"}

CancelVars == <<examVars, profileVars, identityVars, numberVars, positionKey,
                registrationNumber, releasedNumber, reviewStarted, attendance>>

CancelledEntry(a) == [entry EXCEPT ![a] = IF @ = "WAITING" THEN "CANCELLED" ELSE @]

\* Mutated form of CancelAndPromote: the promoted entry stays WAITING.
CancelAndPromoteEntryKept(a, b) ==
    /\ MayCancel(a) /\ status[a] = "SUBMITTED"
    /\ NextInLine(examOf[a], b)
    /\ status' = [status EXCEPT ![a] = "CANCELLED", ![b] = "SUBMITTED"]
    /\ entry' = CancelledEntry(a)
    /\ outbox' = outbox \cup {<<"ApplicationCancelled", a>>, <<"WaitlistCandidatePromoted", b>>}
    /\ UNCHANGED CancelVars

\* cancel() of a seated application with b next in line: promoteNext is part of it.
CancelAndPromote(a, b) ==
    /\ MayCancel(a) /\ status[a] = "SUBMITTED"
    /\ NextInLine(examOf[a], b)
    /\ status' = [status EXCEPT ![a] = "CANCELLED", ![b] = "SUBMITTED"]
    /\ entry' = [CancelledEntry(a) EXCEPT ![b] = "PROMOTED"]
    /\ outbox' = outbox \cup {<<"ApplicationCancelled", a>>, <<"WaitlistCandidatePromoted", b>>}
    /\ UNCHANGED CancelVars

\* cancel() of a waitlisted application, or of a seated one with nobody waiting.
CancelAlone(a) ==
    /\ MayCancel(a)
    /\ status[a] = "WAITLISTED" \/ Waiting(examOf[a]) = {}
    /\ status' = [status EXCEPT ![a] = "CANCELLED"]
    /\ entry' = CancelledEntry(a)
    /\ Record("ApplicationCancelled", a)
    /\ UNCHANGED CancelVars

-----------------------------------------------------------------------------
(* Review.  transition() checks the status of the locked row, changes it   *)
(* and records the event, if the handler names one.                        *)

Transition(a, from, to) ==
    /\ status[a] = from
    /\ status' = [status EXCEPT ![a] = to]

StartReview(a) ==
    /\ Transition(a, "SUBMITTED", "UNDER_REVIEW")
    /\ reviewStarted' = [reviewStarted EXCEPT ![a] = TRUE]
    /\ UNCHANGED <<examVars, profileVars, waitlistVars, identityVars, numberVars,
                   registrationNumber, releasedNumber, attendance, outbox>>

ReturnForCorrection(a) ==
    /\ Transition(a, "UNDER_REVIEW", "RETURNED")
    /\ Record("ApplicationReturned", a)
    /\ UNCHANGED <<examVars, profileVars, waitlistVars, identityVars, numberVars,
                   registrationNumber, releasedNumber, reviewStarted, attendance>>

\* The applicant replaces the profile snapshot (at most MaxRevisions snapshots).
Resubmit(a) ==
    /\ profile[a] < MaxRevisions
    /\ Transition(a, "RETURNED", "SUBMITTED")
    /\ profile' = [profile EXCEPT ![a] = @ + 1]
    /\ UNCHANGED <<examVars, dcrcMatched, lookups, waitlistVars, identityVars, numberVars,
                   registrationNumber, releasedNumber, reviewStarted, attendance, outbox>>

\* The first half of verify(): the application is read without a lock, and DCRC
\* matches the snapshot that was read.
LookUpProfile(a) ==
    /\ DcrcRequired
    /\ status[a] = "UNDER_REVIEW"
    /\ Cardinality(lookups) < MaxLookups
    /\ lookups' = lookups \cup {<<a, profile[a]>>}
    /\ UNCHANGED <<examVars, profile, dcrcMatched, waitlistVars, identityVars, numberVars,
                   status, registrationNumber, releasedNumber, reviewStarted, attendance,
                   outbox>>

\* Where DCRC is required the second half of verify() carries the answer to the first.
UseLookup(a) ==
    \/ \E r \in Revisions :
          /\ DcrcRequired
          /\ <<a, r>> \in lookups
          /\ lookups' = lookups \ {<<a, r>>}
          /\ dcrcMatched' = [dcrcMatched EXCEPT ![a] = r]
    \/ /\ ~DcrcRequired
       /\ UNCHANGED <<lookups, dcrcMatched>>

\* An application without a number gets one when it is verified.
NumberOnVerify(a) ==
    IF registrationNumber[a] = None
    THEN \E n \in Numbers : /\ AllocateDstsNumber(a, n)
                            /\ registrationNumber' = [registrationNumber EXCEPT ![a] = n]
    ELSE UNCHANGED <<nextSequence, slot, registrationNumber>>

\* The second half of verify(): the transaction.
Verify(a) ==
    /\ Transition(a, "UNDER_REVIEW", "VERIFIED")
    /\ UseLookup(a)
    /\ NumberOnVerify(a)
    /\ Record("ApplicationVerified", a)
    /\ UNCHANGED <<examVars, profile, waitlistVars, identityVars, year, releasedNumber,
                   reviewStarted, attendance>>

\* The application left review while DCRC answered: APPLICATION_TRANSITION_INVALID.
VerifyRefused(a, r) ==
    /\ <<a, r>> \in lookups
    /\ status[a] # "UNDER_REVIEW"
    /\ lookups' = lookups \ {<<a, r>>}
    /\ UNCHANGED <<examVars, profile, dcrcMatched, waitlistVars, identityVars, numberVars,
                   status, registrationNumber, releasedNumber, reviewStarted, attendance,
                   outbox>>

-----------------------------------------------------------------------------
(* Attendance: the absence of any one skill is the absence of the whole    *)
(* examination.                                                            *)

MarkPresent(a) ==
    /\ status[a] = "VERIFIED"
    /\ attendance' = [attendance EXCEPT ![a] = "PRESENT"]
    /\ UNCHANGED <<examVars, profileVars, waitlistVars, identityVars, numberVars, status,
                   registrationNumber, releasedNumber, reviewStarted, outbox>>

\* Mutated form of GiveUpNumber: the column is cleared but not the slot.
GiveUpNumberColumnOnly(a) ==
    /\ UNCHANGED <<nextSequence, slot>>
    /\ releasedNumber' = [releasedNumber EXCEPT ![a] = registrationNumber[a]]
    /\ registrationNumber' = [registrationNumber EXCEPT ![a] = None]

\* The released number is kept beside the column it leaves; a legacy number stays.
GiveUpNumber(a) ==
    /\ ReleaseDstsNumber(a)
    /\ \/ \E n \in Numbers :
             /\ slot[n] = a
             /\ releasedNumber' = [releasedNumber EXCEPT ![a] = n]
             /\ registrationNumber' = [registrationNumber EXCEPT ![a] = None]
       \/ /\ ~OwnsNumber(a)
          /\ UNCHANGED <<releasedNumber, registrationNumber>>

MarkAbsent(a) ==
    /\ Transition(a, "VERIFIED", "ABSENT")
    /\ attendance' = [attendance EXCEPT ![a] = "ABSENT"]
    /\ GiveUpNumber(a)
    /\ Record("CandidateMarkedAbsent", a)
    /\ UNCHANGED <<examVars, profileVars, waitlistVars, identityVars, year, reviewStarted>>

-----------------------------------------------------------------------------
ExamStep ==
    \E e \in Exams :
        \/ \E c \in Capacities, w \in Windows : CreateExam(e, c, w)
        \/ \E to \in ExamStatuses : SetExamStatus(e, to)
        \/ \E c \in Capacities, w \in Windows, edited \in BOOLEAN : UpdateExam(e, c, w, edited)
        \/ TimePasses(e)

ApplicantStep(a) ==
    \/ \E e \in Exams, i \in Identities, k \in RequestKeys, n \in Numbers :
            Submit(a, e, i, k, n)
    \/ \E b \in Applications : CancelAndPromote(a, b)
    \/ CancelAlone(a)
    \/ Resubmit(a)

OfficerStep(a) ==
    \/ StartReview(a)
    \/ ReturnForCorrection(a)
    \/ LookUpProfile(a)
    \/ Verify(a)
    \/ \E r \in Revisions : VerifyRefused(a, r)
    \/ MarkPresent(a)
    \/ MarkAbsent(a)

YearStep ==
    /\ NewYear
    /\ UNCHANGED <<examVars, profileVars, waitlistVars, identityVars, status,
                   registrationNumber, releasedNumber, reviewStarted, attendance, outbox>>

Next ==
    \/ ExamStep
    \/ \E a \in Applications : ApplicantStep(a) \/ OfficerStep(a)
    \/ YearStep

Spec == Init /\ [][Next]_vars

-----------------------------------------------------------------------------
(* Properties.                                                             *)

\* The registrationNumber column and the slot table, written by different statements of
\* several handlers, always name the same holder for every DSTS number.  So no two
\* applications carry one number, and no number is lost to both tables.
NumbersMatchSlots ==
    \A a \in Applications, n \in Numbers : registrationNumber[a] = n <=> slot[n] = a

\* Submissions, promotions, capacity edits and resubmissions together never seat more
\* applications than the window's capacity.
SeatsWithinCapacity ==
    \A e \in Exams : Cardinality(Having(e, CapacityStatuses)) <= capacity[e]

\* A waitlist entry and the application it belongs to agree: WAITING exactly while the
\* application is WAITLISTED, PROMOTED only if it has left the waitlist for a seat.
WaitlistMatchesStatus ==
    \A a \in Applications :
        /\ entry[a] = "WAITING" <=> status[a] = "WAITLISTED"
        /\ entry[a] = "PROMOTED" => <<"WaitlistCandidatePromoted", a>> \in outbox
        /\ entry[a] = "CANCELLED" => status[a] = "CANCELLED"

\* An identity has one application per examination for ever, cancelled or not.
OneApplicationPerIdentity ==
    \A a, b \in Rows :
        examOf[a] = examOf[b] /\ identityKey[a] = identityKey[b] => a = b

\* A retried submission never makes a second application: every application of this
\* format is the recorded answer of a request key, and no two share one.
EveryApplicationAnswersItsRequest ==
    \A a \in Rows \ Legacy : \E k \in RequestKeys : answered[k] = a

\* Whoever leaves the waitlist for a seat waited longest: nobody of the same
\* examination who entered it earlier still waits.
PromotionIsFifo ==
    [][\A a \in Applications :
          status[a] = "WAITLISTED" /\ status'[a] = "SUBMITTED" =>
              \A b \in Waiting(examOf[a])' : positionKey[a] < positionKey[b]]_vars

\* Once a review has started an application is never cancelled, whatever returns and
\* resubmissions follow.
ReviewForbidsCancellation ==
    [][\A a \in Applications : reviewStarted[a] => status'[a] # "CANCELLED"]_vars

\* A number an application carries leaves it only by its own absence, and then stays on
\* record as the released one: reviews, corrections and the year's end keep it.
NumberKeptUntilAbsence ==
    [][\A a \in Applications :
          registrationNumber[a] # None /\ registrationNumber'[a] # registrationNumber[a] =>
              /\ status'[a] = "ABSENT"
              /\ registrationNumber'[a] = None
              /\ releasedNumber'[a] = registrationNumber[a]]_vars

\* The counter and the pool of slots behave as the register of NumberRegister: the
\* smallest number of the year nobody holds, reused only in its own year.
Register == INSTANCE NumberRegister WITH holder <- slot
ImplementsNumberRegister == Register!Spec
=============================================================================
