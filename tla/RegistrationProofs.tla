------------------------- MODULE RegistrationProofs -------------------------
(***************************************************************************)
(* Theorems about Registration, for every number of applications,          *)
(* examinations, identities, years and numbers per year: types, the DSTS   *)
(* numbers and the register they implement, seats and the waitlist, and    *)
(* the requests that repeated submissions answer.                          *)
(***************************************************************************)
EXTENDS Registration, FiniteSetTheorems, TLAPS

-----------------------------------------------------------------------------
(* Types.                                                                  *)

\* An allocation writes a slot and a counter of the declared types.
LEMMA AllocateKeepsTypes ==
    ASSUME NumbersTypeOK, NEW a \in Applications, NEW n \in Numbers,
           AllocateDstsNumber(a, n)
    PROVE  /\ nextSequence' \in [Years -> 1 .. (MaxSequence + 1)]
           /\ slot' \in [Numbers -> Applications \cup {None}]
  <1>1. CASE UNCHANGED <<nextSequence, slot>>
    BY <1>1 DEF NumbersTypeOK
  <1>2. CASE slot' = [slot EXCEPT ![n] = a] /\ UNCHANGED nextSequence
    BY <1>2 DEF NumbersTypeOK
  <1>3. CASE /\ nextSequence[year] <= MaxSequence
             /\ nextSequence' = [nextSequence EXCEPT ![year] = @ + 1]
             /\ slot' = [slot EXCEPT ![n] = a]
    BY <1>3, SequenceAssumption DEF NumbersTypeOK
  <1> QED
    BY <1>1, <1>2, <1>3 DEF AllocateDstsNumber

\* A release clears slots only.
LEMMA ReleaseKeepsTypes ==
    ASSUME NumbersTypeOK, NEW a \in Applications, ReleaseDstsNumber(a)
    PROVE  /\ nextSequence' \in [Years -> 1 .. (MaxSequence + 1)]
           /\ slot' \in [Numbers -> Applications \cup {None}]
  BY DEF NumbersTypeOK, ReleaseDstsNumber

\* Position keys are natural numbers: only finitely many entries precede a new one.
LEMMA NextPositionKeyIsNat ==
    NextPositionKey \in Nat
  <1> DEFINE Entered == {a \in Applications : entry[a] # NoRow}
  <1>1. IsFiniteSet(Entered)
    BY ApplicationsAssumption, FS_Subset
  <1>2. Cardinality(Entered) \in Nat
    BY <1>1, FS_CardinalityType
  <1> QED
    BY <1>2 DEF NextPositionKey

\* A freshly migrated deployment is well typed.
LEMMA InitTypes ==
    Init => TypeOK
  <1> SUFFICES ASSUME Init
               PROVE  TypeOK
    OBVIOUS
  <1>1. NumbersTypeOK
    BY YearsAssumption, SequenceAssumption
    DEF Init, NumbersInit, NumbersTypeOK, Years
  <1>2. examStatus \in [Exams -> ExamStatuses \cup {NoRow}]
    BY DEF Init, ExamStatuses
  <1>3. window \in [Exams -> Windows]
    BY DEF Init, Windows
  <1>4. status \in [Applications -> ApplicationStatuses \cup {NoRow}]
    BY DEF Init, ApplicationStatuses
  <1>5. profile \in [Applications -> Revisions] /\ dcrcMatched \in [Applications -> Revisions \cup {None}]
    BY BoundsAssumption DEF Init, Revisions
  <1>6. outbox \subseteq EventTypes \X Applications /\ lookups \subseteq Applications \X Revisions
    BY ApplicationsAssumption DEF Init, EventTypes
  <1> QED
    BY <1>1, <1>2, <1>3, <1>4, <1>5, <1>6 DEF Init, TypeOK

\* Every handler keeps every column, counter and pending call within its type.
LEMMA StepTypes ==
    TypeOK /\ [Next]_vars => TypeOK'
  <1> SUFFICES ASSUME TypeOK, [Next]_vars
               PROVE  TypeOK'
    OBVIOUS
  <1> USE DEF TypeOK, NumbersTypeOK, examVars, profileVars, waitlistVars, identityVars, numberVars
  <1>1. ASSUME NEW e \in Exams, NEW c \in Capacities, NEW w \in Windows, CreateExam(e, c, w)
        PROVE  TypeOK'
    BY <1>1 DEF CreateExam, ExamStatuses
  <1>2. ASSUME NEW e \in Exams, NEW to \in ExamStatuses, SetExamStatus(e, to)
        PROVE  TypeOK'
    BY <1>2 DEF SetExamStatus
  <1>3. ASSUME NEW e \in Exams, NEW c \in Capacities, NEW w \in Windows,
               NEW edited \in BOOLEAN, UpdateExam(e, c, w, edited)
        PROVE  TypeOK'
    BY <1>3 DEF UpdateExam, ExamStatuses
  <1>4. ASSUME NEW e \in Exams, TimePasses(e)
        PROVE  TypeOK'
    BY <1>4 DEF TimePasses, Windows
  <1>5. ASSUME NEW a \in Applications, NEW e \in Exams, NEW i \in Identities,
               NEW k \in RequestKeys, NEW n \in Numbers, Submit(a, e, i, k, n)
        PROVE  TypeOK'
    <2>1. /\ nextSequence' \in [Years -> 1 .. (MaxSequence + 1)]
          /\ slot' \in [Numbers -> Applications \cup {None}]
      BY <1>5, AllocateKeepsTypes DEF Submit
    <2>2. /\ status' \in [Applications -> ApplicationStatuses \cup {NoRow}]
          /\ entry' \in [Applications -> EntryStatuses \cup {NoRow}]
          /\ positionKey' \in [Applications -> Nat]
          /\ outbox' \subseteq EventTypes \X Applications
      <3>1. CASE TakeSeat(a, e)
        BY <3>1 DEF TakeSeat, Record, ApplicationStatuses, EventTypes
      <3>2. CASE JoinWaitlist(a, e)
        BY <3>2, NextPositionKeyIsNat
        DEF JoinWaitlist, Record, ApplicationStatuses, EventTypes, EntryStatuses
      <3> QED
        BY <1>5, <3>1, <3>2 DEF Submit
    <2> QED
      BY <1>5, <2>1, <2>2 DEF Submit
  <1>6. ASSUME NEW a \in Applications, NEW b \in Applications, CancelAndPromote(a, b)
        PROVE  TypeOK'
    BY <1>6 DEF CancelAndPromote, CancelVars, CancelledEntry, ApplicationStatuses,
                EntryStatuses, EventTypes
  <1>7. ASSUME NEW a \in Applications, CancelAlone(a)
        PROVE  TypeOK'
    BY <1>7 DEF CancelAlone, CancelVars, CancelledEntry, Record, ApplicationStatuses,
                EntryStatuses, EventTypes
  <1>8. ASSUME NEW a \in Applications, Resubmit(a)
        PROVE  TypeOK'
    BY <1>8, BoundsAssumption DEF Resubmit, Transition, ApplicationStatuses, Revisions
  <1>9. ASSUME NEW a \in Applications, StartReview(a)
        PROVE  TypeOK'
    BY <1>9 DEF StartReview, Transition, ApplicationStatuses
  <1>10. ASSUME NEW a \in Applications, ReturnForCorrection(a)
         PROVE  TypeOK'
    BY <1>10 DEF ReturnForCorrection, Transition, Record, ApplicationStatuses, EventTypes
  <1>11. ASSUME NEW a \in Applications, LookUpProfile(a)
         PROVE  TypeOK'
    BY <1>11 DEF LookUpProfile
  <1>12. ASSUME NEW a \in Applications, Verify(a)
         PROVE  TypeOK'
    <2>1. /\ nextSequence' \in [Years -> 1 .. (MaxSequence + 1)]
          /\ slot' \in [Numbers -> Applications \cup {None}]
          /\ registrationNumber' \in [Applications -> Numbers \cup {None, LegacyNumber}]
      BY <1>12, AllocateKeepsTypes DEF Verify, NumberOnVerify
    <2>2. /\ lookups' \subseteq Applications \X Revisions
          /\ dcrcMatched' \in [Applications -> Revisions \cup {None}]
      BY <1>12 DEF Verify, UseLookup
    <2>3. /\ status' \in [Applications -> ApplicationStatuses \cup {NoRow}]
          /\ outbox' \subseteq EventTypes \X Applications
      BY <1>12 DEF Verify, Transition, Record, ApplicationStatuses, EventTypes
    <2> QED
      BY <1>12, <2>1, <2>2, <2>3 DEF Verify
  <1>13. ASSUME NEW a \in Applications, NEW r \in Revisions, VerifyRefused(a, r)
         PROVE  TypeOK'
    BY <1>13 DEF VerifyRefused
  <1>14. ASSUME NEW a \in Applications, MarkPresent(a)
         PROVE  TypeOK'
    BY <1>14 DEF MarkPresent
  <1>15. ASSUME NEW a \in Applications, MarkAbsent(a)
         PROVE  TypeOK'
    <2>1. /\ nextSequence' \in [Years -> 1 .. (MaxSequence + 1)]
          /\ slot' \in [Numbers -> Applications \cup {None}]
      BY <1>15, ReleaseKeepsTypes DEF MarkAbsent, GiveUpNumber
    <2>2. /\ releasedNumber' \in [Applications -> Numbers \cup {None}]
          /\ registrationNumber' \in [Applications -> Numbers \cup {None, LegacyNumber}]
      <3>1. PICK n \in Numbers \cup {None} :
                 \/ /\ releasedNumber' = [releasedNumber EXCEPT ![a] = n]
                    /\ registrationNumber' = [registrationNumber EXCEPT ![a] = None]
                 \/ UNCHANGED <<releasedNumber, registrationNumber>>
        BY <1>15 DEF MarkAbsent, GiveUpNumber
      <3> QED
        BY <3>1
    <2>3. /\ status' \in [Applications -> ApplicationStatuses \cup {NoRow}]
          /\ attendance' \in [Applications -> {NoRow, "PRESENT", "ABSENT"}]
          /\ outbox' \subseteq EventTypes \X Applications
      BY <1>15 DEF MarkAbsent, Transition, Record, ApplicationStatuses, EventTypes
    <2>4. UNCHANGED <<examVars, profileVars, waitlistVars, identityVars, year, reviewStarted>>
      BY <1>15 DEF MarkAbsent
    <2> QED
      BY <2>1, <2>2, <2>3, <2>4
  <1>16. CASE YearStep
    <2>1. year' \in Years
      BY <1>16, YearsAssumption DEF YearStep, NewYear, Years
    <2> QED
      BY <1>16, <2>1 DEF YearStep, NewYear
  <1>17. CASE UNCHANGED vars
    BY <1>17 DEF vars
  <1>18. ExamStep => TypeOK'
    BY <1>1, <1>2, <1>3, <1>4 DEF ExamStep
  <1>19. \A a \in Applications : ApplicantStep(a) => TypeOK'
    BY <1>5, <1>6, <1>7, <1>8 DEF ApplicantStep
  <1>20. \A a \in Applications : OfficerStep(a) => TypeOK'
    BY <1>9, <1>10, <1>11, <1>12, <1>13, <1>14, <1>15 DEF OfficerStep
  <1> QED
    BY <1>16, <1>17, <1>18, <1>19, <1>20 DEF Next

\* Every column, counter and pending call keeps its type.
THEOREM TypeCorrect == Spec => []TypeOK
  BY InitTypes, StepTypes, PTL DEF Spec

-----------------------------------------------------------------------------
(* Numbers: the registrationNumber column against the slot table.          *)

\* The numbers the counter has not reached yet are held by nobody.
FreshNumbersUnheld ==
    \A y \in Years, s \in SequenceNumbers : nextSequence[y] <= s => slot[<<y, s>>] = None

\* NumbersMatchSlots is not inductive by itself: a fresh number must be one that
\* no application holds.
NumbersInv == TypeOK /\ NumbersMatchSlots /\ FreshNumbersUnheld

\* What happens to an examination happens to no application.
LEMMA ExamStepKeepsApplications ==
    ASSUME ExamStep
    PROVE  UNCHANGED <<profileVars, waitlistVars, identityVars, numberVars, status,
                       registrationNumber, releasedNumber, reviewStarted, attendance, outbox>>
  <1> SUFFICES ASSUME NEW e \in Exams,
                      \/ \E c \in Capacities, w \in Windows : CreateExam(e, c, w)
                      \/ \E to \in ExamStatuses : SetExamStatus(e, to)
                      \/ \E c \in Capacities, w \in Windows, edited \in BOOLEAN :
                             UpdateExam(e, c, w, edited)
                      \/ TimePasses(e)
               PROVE  UNCHANGED <<profileVars, waitlistVars, identityVars, numberVars, status,
                                  registrationNumber, releasedNumber, reviewStarted,
                                  attendance, outbox>>
    BY SMTT(20) DEF ExamStep
  <1>2. CASE \E c \in Capacities, w \in Windows : CreateExam(e, c, w)
    BY <1>2 DEF CreateExam
  <1>3. CASE \E to \in ExamStatuses : SetExamStatus(e, to)
    BY <1>3 DEF SetExamStatus
  <1>4. CASE \E c \in Capacities, w \in Windows, edited \in BOOLEAN : UpdateExam(e, c, w, edited)
    BY <1>4 DEF UpdateExam
  <1>5. CASE TimePasses(e)
    BY <1>5 DEF TimePasses
  <1> QED
    BY <1>2, <1>3, <1>4, <1>5

\* Only three handlers write numbers.
LEMMA StepsThatWriteNumbers ==
    ASSUME [Next]_vars
    PROVE  \/ \E a \in Applications, e \in Exams, i \in Identities, k \in RequestKeys,
                n \in Numbers : Submit(a, e, i, k, n)
           \/ \E a \in Applications : Verify(a)
           \/ \E a \in Applications : MarkAbsent(a)
           \/ /\ UNCHANGED <<nextSequence, slot, registrationNumber, releasedNumber>>
              /\ UNCHANGED year \/ NewYear
  <1> USE DEF numberVars
  <1>1. ASSUME ExamStep
        PROVE  UNCHANGED <<year, nextSequence, slot, registrationNumber, releasedNumber>>
    BY <1>1, ExamStepKeepsApplications
  <1>2. ASSUME NEW a \in Applications, ApplicantStep(a)
        PROVE  \/ \E e \in Exams, i \in Identities, k \in RequestKeys, n \in Numbers :
                     Submit(a, e, i, k, n)
               \/ UNCHANGED <<year, nextSequence, slot, registrationNumber, releasedNumber>>
    BY <1>2 DEF ApplicantStep, CancelAndPromote, CancelAlone, CancelVars, Resubmit
  <1>3. ASSUME NEW a \in Applications, OfficerStep(a)
        PROVE  \/ Verify(a) \/ MarkAbsent(a)
               \/ UNCHANGED <<year, nextSequence, slot, registrationNumber, releasedNumber>>
    BY <1>3 DEF OfficerStep, StartReview, ReturnForCorrection, LookUpProfile, VerifyRefused,
                MarkPresent
  <1>4. CASE YearStep
    BY <1>4 DEF YearStep, NewYear
  <1>5. CASE UNCHANGED vars
    BY <1>5 DEF vars
  <1> QED
    BY <1>1, <1>2, <1>3, <1>4, <1>5 DEF Next

\* What an allocation writes: nothing, for an application that already owns n, or the
\* slot of a number nobody held.
LEMMA AllocateTakesFreeNumber ==
    ASSUME NumbersTypeOK, FreshNumbersUnheld, NEW a \in Applications, NEW n \in Numbers,
           AllocateDstsNumber(a, n)
    PROVE  /\ \/ slot[n] = a /\ UNCHANGED <<nextSequence, slot>>
              \/ ~OwnsNumber(a) /\ slot[n] = None /\ slot' = [slot EXCEPT ![n] = a]
           /\ FreshNumbersUnheld'
  <1> USE DEF NumbersTypeOK, FreshNumbersUnheld
  <1>1. CASE slot[n] = a /\ UNCHANGED <<nextSequence, slot>>
    BY <1>1
  <1>2. ASSUME ~OwnsNumber(a), NEW s \in SequenceNumbers, n = <<year, s>>, LowestFree(year, s),
               slot' = [slot EXCEPT ![n] = a], UNCHANGED nextSequence
        PROVE  slot[n] = None /\ FreshNumbersUnheld'
    <2>1. slot[n] = None /\ s < nextSequence[year]
      BY <1>2 DEF LowestFree, FreeSequences
    <2>2. ASSUME NEW y \in Years, NEW t \in SequenceNumbers, nextSequence'[y] <= t
          PROVE  slot'[<<y, t>>] = None
      <3>1. <<y, t>> # n
        BY <1>2, <2>1, <2>2 DEF SequenceNumbers
      <3> QED
        BY <1>2, <2>2, <3>1 DEF Numbers
    <2> QED
      BY <2>1, <2>2
  <1>3. ASSUME ~OwnsNumber(a), nextSequence[year] <= MaxSequence,
               n = <<year, nextSequence[year]>>,
               nextSequence' = [nextSequence EXCEPT ![year] = @ + 1],
               slot' = [slot EXCEPT ![n] = a]
        PROVE  slot[n] = None /\ FreshNumbersUnheld'
    <2>1. nextSequence[year] \in SequenceNumbers
      BY <1>3, SequenceAssumption DEF SequenceNumbers
    <2>2. slot[n] = None
      BY <1>3, <2>1, SequenceAssumption DEF SequenceNumbers
    <2>3. ASSUME NEW y \in Years, NEW t \in SequenceNumbers, nextSequence'[y] <= t
          PROVE  slot'[<<y, t>>] = None
      <3>1. nextSequence[y] <= t /\ <<y, t>> # n
        BY <1>3, <2>3, SequenceAssumption DEF SequenceNumbers
      <3> QED
        BY <1>3, <2>3, <3>1 DEF Numbers
    <2> QED
      BY <2>2, <2>3
  <1> QED
    BY <1>1, <1>2, <1>3 DEF AllocateDstsNumber

\* Writing an allocated number into the column keeps column and slots together.
LEMMA AllocateKeepsMatch ==
    ASSUME NumbersInv, NEW a \in Applications, NEW n \in Numbers,
           AllocateDstsNumber(a, n),
           registrationNumber' = [registrationNumber EXCEPT ![a] = n]
    PROVE  NumbersMatchSlots' /\ FreshNumbersUnheld'
  <1> USE DEF NumbersInv, TypeOK, NumbersTypeOK, NumbersMatchSlots
  <1>1. FreshNumbersUnheld'
    BY AllocateTakesFreeNumber
  <1>2. CASE slot[n] = a /\ UNCHANGED <<nextSequence, slot>>
    BY <1>1, <1>2
  <1>3. CASE ~OwnsNumber(a) /\ slot[n] = None /\ slot' = [slot EXCEPT ![n] = a]
    <2>1. ASSUME NEW b \in Applications, NEW m \in Numbers
          PROVE  registrationNumber'[b] = m <=> slot'[m] = b
      <3>1. slot[m] # a
        BY <1>3 DEF OwnsNumber
      <3> QED
        BY <1>3, <3>1, NoneAssumption
    <2> QED
      BY <1>1, <2>1
  <1> QED
    BY <1>2, <1>3, AllocateTakesFreeNumber

\* An absence clears exactly the slot of the number that leaves the column.
LEMMA GiveUpReleases ==
    ASSUME NumbersInv, NEW a \in Applications, GiveUpNumber(a)
    PROVE  \/ UNCHANGED <<nextSequence, slot, registrationNumber>>
           \/ \E n \in Numbers :
                 /\ slot[n] = a
                 /\ slot' = [slot EXCEPT ![n] = None]
                 /\ registrationNumber[a] = n
                 /\ registrationNumber' = [registrationNumber EXCEPT ![a] = None]
                 /\ releasedNumber' = [releasedNumber EXCEPT ![a] = n]
                 /\ UNCHANGED nextSequence
  <1> USE DEF NumbersInv, TypeOK, NumbersTypeOK, NumbersMatchSlots
  <1>1. CASE ~OwnsNumber(a) /\ UNCHANGED <<releasedNumber, registrationNumber>>
    <2>1. slot' = slot
      BY <1>1 DEF GiveUpNumber, ReleaseDstsNumber, OwnsNumber
    <2> QED
      BY <1>1, <2>1 DEF GiveUpNumber, ReleaseDstsNumber
  <1>2. ASSUME NEW n \in Numbers, slot[n] = a,
               releasedNumber' = [releasedNumber EXCEPT ![a] = n],
               registrationNumber' = [registrationNumber EXCEPT ![a] = None]
        PROVE  slot' = [slot EXCEPT ![n] = None] /\ registrationNumber[a] = n
    <2>1. registrationNumber[a] = n
      BY <1>2
    <2>2. \A m \in Numbers : slot[m] = a => m = n
      BY <2>1
    <2>3. slot' = [m \in Numbers |-> IF slot[m] = a THEN None ELSE slot[m]]
      BY DEF GiveUpNumber, ReleaseDstsNumber
    <2>4. slot' = [m \in Numbers |-> IF m = n THEN None ELSE slot[m]]
      BY <1>2, <2>2, <2>3, Zenon
    <2> QED
      BY <2>1, <2>4
  <1> QED
    BY <1>1, <1>2 DEF GiveUpNumber, ReleaseDstsNumber

\* Before the first allocation every DSTS slot is free and no column holds a number.
LEMMA InitNumbers ==
    Init => NumbersMatchSlots /\ FreshNumbersUnheld
  BY NoneAssumption, ApplicationsAssumption
  DEF Init, NumbersInit, NumbersMatchSlots, FreshNumbersUnheld, Numbers

\* The strengthened invariant of the numbers is kept by every step: the three handlers
\* that write numbers keep column and slots together, the others touch neither.
LEMMA StepNumbers ==
    NumbersInv /\ [Next]_vars => NumbersMatchSlots' /\ FreshNumbersUnheld'
  <1> SUFFICES ASSUME NumbersInv, [Next]_vars
               PROVE  NumbersMatchSlots' /\ FreshNumbersUnheld'
    OBVIOUS
  <1>1. ASSUME NEW a \in Applications, NEW e \in Exams, NEW i \in Identities,
               NEW k \in RequestKeys, NEW n \in Numbers, Submit(a, e, i, k, n)
        PROVE  NumbersMatchSlots' /\ FreshNumbersUnheld'
    BY <1>1, AllocateKeepsMatch DEF Submit
  <1>2. ASSUME NEW a \in Applications, Verify(a)
        PROVE  NumbersMatchSlots' /\ FreshNumbersUnheld'
    <2>1. CASE UNCHANGED <<nextSequence, slot, registrationNumber>>
      BY <2>1 DEF NumbersInv, NumbersMatchSlots, FreshNumbersUnheld
    <2> QED
      BY <1>2, <2>1, AllocateKeepsMatch DEF Verify, NumberOnVerify
  <1>3. ASSUME NEW a \in Applications, MarkAbsent(a)
        PROVE  NumbersMatchSlots' /\ FreshNumbersUnheld'
    <2>1. CASE UNCHANGED <<nextSequence, slot, registrationNumber>>
      BY <2>1 DEF NumbersInv, NumbersMatchSlots, FreshNumbersUnheld
    <2>2. ASSUME NEW n \in Numbers, slot[n] = a, slot' = [slot EXCEPT ![n] = None],
                 registrationNumber[a] = n,
                 registrationNumber' = [registrationNumber EXCEPT ![a] = None],
                 UNCHANGED nextSequence
          PROVE  NumbersMatchSlots' /\ FreshNumbersUnheld'
      <3>1. NumbersMatchSlots'
        BY <2>2, NoneAssumption, ApplicationsAssumption
        DEF NumbersInv, TypeOK, NumbersTypeOK, NumbersMatchSlots
      <3>2. FreshNumbersUnheld'
        BY <2>2 DEF NumbersInv, TypeOK, NumbersTypeOK, FreshNumbersUnheld, Numbers
      <3> QED
        BY <3>1, <3>2
    <2> QED
      BY <1>3, <2>1, <2>2, GiveUpReleases DEF MarkAbsent
  <1>4. CASE UNCHANGED <<nextSequence, slot, registrationNumber>>
    BY <1>4 DEF NumbersInv, NumbersMatchSlots, FreshNumbersUnheld
  <1> QED
    BY <1>1, <1>2, <1>3, <1>4, StepsThatWriteNumbers

\* Types, column against slots, and fresh numbers unheld, in every reachable state.
THEOREM NumbersInvariant == Spec => []NumbersInv
  <1>1. Init => NumbersInv
    BY InitTypes, InitNumbers DEF NumbersInv
  <1>2. NumbersInv /\ [Next]_vars => NumbersInv'
    BY StepTypes, StepNumbers DEF NumbersInv
  <1> QED
    BY <1>1, <1>2, PTL DEF Spec

\* The registrationNumber column and the slot table always name the same holder.
THEOREM NumbersConsistent == Spec => []NumbersMatchSlots
  BY NumbersInvariant, PTL DEF NumbersInv

-----------------------------------------------------------------------------
(* The counter and the pool implement the number register.                 *)

\* allocateDstsNumber for an application without a slot is Assign of the register: the
\* lowest free slot, or the counter's number, is the smallest number nobody holds.
LEMMA AllocateIsAssign ==
    ASSUME NumbersInv, NEW a \in Applications, NEW n \in Numbers,
           AllocateDstsNumber(a, n), UNCHANGED year
    PROVE  \/ UNCHANGED <<slot, year>>
           \/ \E s \in SequenceNumbers : Register!Assign(a, s)
  <1> USE DEF NumbersInv, TypeOK, NumbersTypeOK
  <1>1. CASE slot[n] = a /\ UNCHANGED <<nextSequence, slot>>
    BY <1>1
  <1>2. ASSUME ~OwnsNumber(a), NEW s \in SequenceNumbers, n = <<year, s>>, LowestFree(year, s),
               slot' = [slot EXCEPT ![n] = a]
        PROVE  Register!Assign(a, s)
    <2>1. slot[<<year, s>>] = None /\ s < nextSequence[year]
      BY <1>2 DEF LowestFree, FreeSequences
    <2>2. ASSUME NEW t \in 1 .. (s - 1)
          PROVE  slot[<<year, t>>] # None
      <3>1. t \in SequenceNumbers /\ t < s /\ t < nextSequence[year]
        BY <2>1, SequenceAssumption DEF SequenceNumbers
      <3> QED
        BY <1>2, <3>1 DEF LowestFree, FreeSequences, SequenceNumbers
    <2> QED
      BY <1>2, <2>1, <2>2
      DEF OwnsNumber, Register!Assign, Register!Numbers, Register!Years,
          Register!SequenceNumbers, Numbers, Years, SequenceNumbers
  <1>3. ASSUME ~OwnsNumber(a), FreeSequences(year) = {}, nextSequence[year] <= MaxSequence,
               n = <<year, nextSequence[year]>>,
               slot' = [slot EXCEPT ![n] = a]
        PROVE  \E s \in SequenceNumbers : Register!Assign(a, s)
    <2> DEFINE s == nextSequence[year]
    <2>1. s \in SequenceNumbers
      BY <1>3, SequenceAssumption DEF SequenceNumbers
    <2>2. slot[<<year, s>>] = None
      BY <2>1, SequenceAssumption DEF FreshNumbersUnheld, SequenceNumbers
    <2>3. ASSUME NEW t \in 1 .. (s - 1)
          PROVE  slot[<<year, t>>] # None
      <3>1. t \in SequenceNumbers /\ t < s
        BY <2>1, SequenceAssumption DEF SequenceNumbers
      <3> QED
        BY <1>3, <3>1 DEF FreeSequences
    <2>4. Register!Assign(a, s)
      BY <1>3, <2>2, <2>3
      DEF OwnsNumber, Register!Assign, Register!Numbers, Register!Years,
          Register!SequenceNumbers, Numbers, Years, SequenceNumbers
    <2> QED
      BY <2>1, <2>4
  <1> QED
    BY <1>1, <1>2, <1>3 DEF AllocateDstsNumber

\* Every step of the service is a step of the register or leaves it unchanged.
LEMMA StepRefinesRegister ==
    NumbersInv /\ [Next]_vars => [Register!Next]_(Register!registerVars)
  <1> SUFFICES ASSUME NumbersInv, [Next]_vars
               PROVE  Register!Next \/ UNCHANGED <<slot, year>>
    BY DEF Register!registerVars
  <1> USE DEF Register!Next, Register!Numbers, Register!Years, Register!SequenceNumbers,
              Numbers, Years, SequenceNumbers
  <1>1. ASSUME NEW a \in Applications, NEW e \in Exams, NEW i \in Identities,
               NEW k \in RequestKeys, NEW n \in Numbers, Submit(a, e, i, k, n)
        PROVE  Register!Next \/ UNCHANGED <<slot, year>>
    BY <1>1, AllocateIsAssign DEF Submit
  <1>2. ASSUME NEW a \in Applications, Verify(a)
        PROVE  Register!Next \/ UNCHANGED <<slot, year>>
    BY <1>2, AllocateIsAssign DEF Verify, NumberOnVerify
  <1>3. ASSUME NEW a \in Applications, MarkAbsent(a)
        PROVE  Register!Next \/ UNCHANGED <<slot, year>>
    <2>1. ASSUME NEW n \in Numbers, slot[n] = a, slot' = [slot EXCEPT ![n] = None]
          PROVE  Register!Release(n)
      BY <1>3, <2>1, NoneAssumption DEF MarkAbsent, Register!Release
    <2> QED
      BY <1>3, <2>1, GiveUpReleases DEF MarkAbsent
  <1>4. CASE UNCHANGED slot /\ (UNCHANGED year \/ NewYear)
    BY <1>4 DEF NewYear, Register!NewYear
  <1> QED
    BY <1>1, <1>2, <1>3, <1>4, StepsThatWriteNumbers

\* Counter and pool hand out and take back numbers as the abstract register does.
THEOREM RegisterImplemented == Spec => ImplementsNumberRegister
  <1>1. Init => Register!Init
    BY DEF Init, NumbersInit, Register!Init, Register!Numbers, Register!Years,
           Register!SequenceNumbers, Numbers, Years, SequenceNumbers
  <1> QED
    BY <1>1, StepRefinesRegister, NumbersInvariant, PTL
    DEF Spec, ImplementsNumberRegister, Register!Spec

-----------------------------------------------------------------------------
(* Rows: what a row that exists, or does not exist yet, looks like.        *)

\* Nothing but submit writes to an application that has no row, and an application's
\* examination exists.
RowsInv ==
    /\ TypeOK
    /\ WaitlistMatchesStatus
    /\ OneApplicationPerIdentity
    /\ \A a \in Applications : status[a] = NoRow =>
           entry[a] = NoRow /\ registrationNumber[a] = None /\ ~reviewStarted[a]
    /\ \A a \in Applications, e \in Exams : examOf[a] = e => examStatus[e] # NoRow
    /\ \A a \in Applications : reviewStarted[a] => status[a] # "CANCELLED"

\* The rows of a freshly migrated deployment satisfy the row invariant.
LEMMA InitRows ==
    Init => RowsInv
  <1> SUFFICES ASSUME Init
               PROVE  RowsInv
    OBVIOUS
  <1>1. WaitlistMatchesStatus
    BY DEF Init, WaitlistMatchesStatus, NoRow
  <1>2. OneApplicationPerIdentity
    <2>1. \A a \in Rows : identityKey[a] # None
      BY DEF Init, Rows
    <2> QED
      BY <2>1 DEF Init, OneApplicationPerIdentity, Rows
  <1>3. \A a \in Applications : status[a] = NoRow =>
            entry[a] = NoRow /\ registrationNumber[a] = None /\ ~reviewStarted[a]
    BY ApplicationsAssumption DEF Init, NoRow
  <1>4. \A a \in Applications, e \in Exams : examOf[a] = e => examStatus[e] # NoRow
    BY ApplicationsAssumption DEF Init, NoRow
  <1>5. \A a \in Applications : reviewStarted[a] => status[a] # "CANCELLED"
    BY ApplicationsAssumption DEF Init
  <1> QED
    BY <1>1, <1>2, <1>3, <1>4, <1>5, InitTypes DEF RowsInv

\* Handlers other than submit, cancel and the review and attendance transitions leave
\* every row as it is.
RowsKept ==
    UNCHANGED <<status, examOf, identityKey, registrationNumber, reviewStarted, entry, outbox>>

\* A step that leaves the columns of the row invariant alone keeps it.
LEMMA RowsKeptKeepRows ==
    ASSUME RowsInv, RowsKept, TypeOK',
           \A e \in Exams : examStatus[e] # NoRow => examStatus'[e] # NoRow
    PROVE  RowsInv'
  BY DEF RowsInv, RowsKept, WaitlistMatchesStatus, OneApplicationPerIdentity, Rows

\* A transition of one seated row keeps the rows, unless it cancels a reviewed one.
LEMMA TransitionKeepsRows ==
    ASSUME RowsInv, TypeOK', NEW a \in Applications, NEW to \in ApplicationStatuses,
           status[a] \in CapacityStatuses, to \notin {"WAITLISTED", "CANCELLED"},
           status' = [status EXCEPT ![a] = to],
           outbox \subseteq outbox',
           UNCHANGED <<examStatus, examOf, identityKey, entry>>,
           \A b \in Applications : b # a => /\ registrationNumber'[b] = registrationNumber[b]
                                           /\ reviewStarted'[b] = reviewStarted[b]
    PROVE  RowsInv'
  <1>0. /\ status \in [Applications -> ApplicationStatuses \cup {NoRow}]
        /\ entry \in [Applications -> EntryStatuses \cup {NoRow}]
        /\ WaitlistMatchesStatus /\ OneApplicationPerIdentity
    BY DEF RowsInv, TypeOK
  <1> USE DEF ApplicationStatuses, CapacityStatuses, NoRow
  <1>1. WaitlistMatchesStatus'
    <2> SUFFICES ASSUME NEW b \in Applications
                 PROVE  /\ entry[b] = "WAITING" <=> status'[b] = "WAITLISTED"
                        /\ entry[b] = "PROMOTED" => <<"WaitlistCandidatePromoted", b>> \in outbox'
                        /\ entry[b] = "CANCELLED" => status'[b] = "CANCELLED"
      BY DEF WaitlistMatchesStatus
    <2> QED
      BY <1>0 DEF WaitlistMatchesStatus
  <1>2. OneApplicationPerIdentity'
    <2>1. Rows' = Rows
      BY <1>0 DEF Rows
    <2> QED
      BY <1>0, <2>1 DEF OneApplicationPerIdentity
  <1>3. \A b \in Applications : status'[b] = NoRow =>
            entry'[b] = NoRow /\ registrationNumber'[b] = None /\ ~reviewStarted'[b]
    BY <1>0 DEF RowsInv
  <1>4. \A b \in Applications : reviewStarted'[b] => status'[b] # "CANCELLED"
    BY <1>0 DEF RowsInv
  <1> QED
    BY <1>1, <1>2, <1>3, <1>4 DEF RowsInv

\* submit adds a row of a new identity under an unanswered key, seated or waiting.
LEMMA SubmitKeepsRows ==
    ASSUME RowsInv, TypeOK', NEW a \in Applications, NEW e \in Exams, NEW i \in Identities,
           NEW k \in RequestKeys, NEW n \in Numbers, Submit(a, e, i, k, n)
    PROVE  RowsInv'
  <1> USE DEF RowsInv, TypeOK, examVars, ApplicationStatuses, NoRow
  <1>1. PICK s \in {"SUBMITTED", "WAITLISTED"} :
            /\ status' = [status EXCEPT ![a] = s]
            /\ \/ s = "SUBMITTED" /\ UNCHANGED entry
               \/ s = "WAITLISTED" /\ entry' = [entry EXCEPT ![a] = "WAITING"]
            /\ outbox \subseteq outbox'
    BY DEF Submit, TakeSeat, JoinWaitlist, waitlistVars, Record
  <1>2. WaitlistMatchesStatus'
    <2>1. status[a] = NoRow /\ entry[a] = NoRow
      BY DEF Submit
    <2> SUFFICES ASSUME NEW b \in Applications
                 PROVE  /\ entry'[b] = "WAITING" <=> status'[b] = "WAITLISTED"
                        /\ entry'[b] = "PROMOTED" => <<"WaitlistCandidatePromoted", b>> \in outbox'
                        /\ entry'[b] = "CANCELLED" => status'[b] = "CANCELLED"
      BY DEF WaitlistMatchesStatus
    <2>2. CASE b = a
      BY <1>1, <2>1, <2>2
    <2>3. CASE b # a
      BY <1>1, <2>3 DEF WaitlistMatchesStatus
    <2> QED
      BY <2>2, <2>3
  <1>3. OneApplicationPerIdentity'
    <2>1. Rows' = Rows \cup {a} /\ a \notin Rows
      BY <1>1 DEF Rows, Submit
    <2>2. /\ examOf' = [examOf EXCEPT ![a] = e]
          /\ identityKey' = [identityKey EXCEPT ![a] = i]
          /\ \A b \in Rows : ~(examOf[b] = e /\ identityKey[b] = i)
      BY DEF Submit, Duplicate
    <2> QED
      BY <2>1, <2>2 DEF OneApplicationPerIdentity, Rows
  <1>4. \A b \in Applications : status'[b] = NoRow =>
            entry'[b] = NoRow /\ registrationNumber'[b] = None /\ ~reviewStarted'[b]
    BY <1>1 DEF Submit
  <1>5. \A b \in Applications, f \in Exams : examOf'[b] = f => examStatus'[f] # NoRow
    BY DEF Submit
  <1>6. \A b \in Applications : reviewStarted'[b] => status'[b] # "CANCELLED"
    BY <1>1 DEF Submit
  <1> QED
    BY <1>2, <1>3, <1>4, <1>5, <1>6

\* cancel with promoteNext moves one row out and one row into a seat, entries included.
LEMMA CancelAndPromoteKeepsRows ==
    ASSUME RowsInv, TypeOK', NEW a \in Applications, NEW b \in Applications,
           CancelAndPromote(a, b)
    PROVE  RowsInv'
  <1> USE DEF RowsInv, TypeOK, examVars, identityVars, ApplicationStatuses, EntryStatuses, NoRow
  <1>1. /\ status[a] = "SUBMITTED" /\ ~reviewStarted[a]
        /\ entry[b] = "WAITING" /\ status[b] = "WAITLISTED" /\ a # b /\ entry[a] # "WAITING"
    BY DEF CancelAndPromote, MayCancel, NextInLine, Waiting, WaitlistMatchesStatus
  <1>2. /\ status' = [status EXCEPT ![a] = "CANCELLED", ![b] = "SUBMITTED"]
        /\ entry' = [entry EXCEPT ![b] = "PROMOTED"]
        /\ outbox \subseteq outbox' /\ <<"WaitlistCandidatePromoted", b>> \in outbox'
        /\ UNCHANGED <<examStatus, examOf, identityKey, registrationNumber, reviewStarted>>
    <2>1. entry' = [entry EXCEPT ![b] = "PROMOTED"]
      BY <1>1, Zenon DEF CancelAndPromote, CancelledEntry
    <2> QED
      BY <2>1 DEF CancelAndPromote, CancelVars
  <1>3. WaitlistMatchesStatus'
    <2> SUFFICES ASSUME NEW c \in Applications
                 PROVE  /\ entry'[c] = "WAITING" <=> status'[c] = "WAITLISTED"
                        /\ entry'[c] = "PROMOTED" => <<"WaitlistCandidatePromoted", c>> \in outbox'
                        /\ entry'[c] = "CANCELLED" => status'[c] = "CANCELLED"
      BY DEF WaitlistMatchesStatus
    <2>1. CASE c = a
      <3>1. status'[c] = "CANCELLED" /\ entry'[c] = entry[c]
        BY <1>1, <1>2, <2>1
      <3> QED
        BY <1>1, <1>2, <2>1, <3>1 DEF WaitlistMatchesStatus
    <2>2. CASE c = b
      BY <1>1, <1>2, <2>2
    <2>3. CASE c # a /\ c # b
      <3>1. status'[c] = status[c] /\ entry'[c] = entry[c]
        BY <1>2, <2>3
      <3> QED
        BY <1>2, <3>1 DEF WaitlistMatchesStatus
    <2> QED
      BY <2>1, <2>2, <2>3
  <1>4. OneApplicationPerIdentity'
    <2>1. Rows' = Rows
      BY <1>1, <1>2 DEF Rows
    <2> QED
      BY <1>2, <2>1 DEF OneApplicationPerIdentity
  <1> QED
    BY <1>1, <1>2, <1>3, <1>4

\* cancel without a promotion closes the row and its waitlist entry.
LEMMA CancelAloneKeepsRows ==
    ASSUME RowsInv, TypeOK', NEW a \in Applications, CancelAlone(a)
    PROVE  RowsInv'
  <1> USE DEF RowsInv, TypeOK, examVars, identityVars, ApplicationStatuses, EntryStatuses, NoRow
  <1>1. /\ status[a] \in {"SUBMITTED", "WAITLISTED"} /\ ~reviewStarted[a]
        /\ status' = [status EXCEPT ![a] = "CANCELLED"]
        /\ entry' = [entry EXCEPT ![a] = IF @ = "WAITING" THEN "CANCELLED" ELSE @]
        /\ outbox \subseteq outbox'
        /\ UNCHANGED <<examStatus, examOf, identityKey, registrationNumber, reviewStarted>>
    BY DEF CancelAlone, MayCancel, CancelVars, CancelledEntry, Record
  <1>2. WaitlistMatchesStatus'
    <2> SUFFICES ASSUME NEW c \in Applications
                 PROVE  /\ entry'[c] = "WAITING" <=> status'[c] = "WAITLISTED"
                        /\ entry'[c] = "PROMOTED" => <<"WaitlistCandidatePromoted", c>> \in outbox'
                        /\ entry'[c] = "CANCELLED" => status'[c] = "CANCELLED"
      BY DEF WaitlistMatchesStatus
    <2>1. CASE c = a
      BY <1>1, <2>1 DEF WaitlistMatchesStatus
    <2>2. CASE c # a
      BY <1>1, <2>2 DEF WaitlistMatchesStatus
    <2> QED
      BY <2>1, <2>2
  <1>3. OneApplicationPerIdentity'
    <2>1. Rows' = Rows
      BY <1>1 DEF Rows
    <2> QED
      BY <1>1, <2>1 DEF OneApplicationPerIdentity
  <1> QED
    BY <1>1, <1>2, <1>3

\* Every step keeps the row invariant.
LEMMA StepRows ==
    RowsInv /\ [Next]_vars => RowsInv'
  <1> SUFFICES ASSUME RowsInv, [Next]_vars
               PROVE  RowsInv'
    OBVIOUS
  <1> USE DEF examVars, profileVars, waitlistVars, identityVars, numberVars
  <1>0. TypeOK /\ TypeOK'
    BY StepTypes DEF RowsInv
  <1>1. CASE ExamStep
    <2>1. RowsKept
      BY <1>1, ExamStepKeepsApplications DEF RowsKept
    <2>2. \A e \in Exams : examStatus[e] # NoRow => examStatus'[e] # NoRow
      BY <1>0, <1>1
      DEF ExamStep, CreateExam, SetExamStatus, UpdateExam, TimePasses, TypeOK, ExamStatuses, NoRow
    <2> QED
      BY <1>0, <2>1, <2>2, RowsKeptKeepRows
  <1>2. ASSUME NEW a \in Applications, ApplicantStep(a)
        PROVE  RowsInv'
    <2>1. CASE Resubmit(a)
      BY <1>0, <2>1, TransitionKeepsRows
      DEF Resubmit, Transition, CapacityStatuses, ApplicationStatuses
    <2> QED
      BY <1>0, <1>2, <2>1, SubmitKeepsRows, CancelAndPromoteKeepsRows, CancelAloneKeepsRows
      DEF ApplicantStep
  <1>3. ASSUME NEW a \in Applications, OfficerStep(a)
        PROVE  RowsInv'
    <2>1. CASE StartReview(a)
      BY <1>0, <2>1, TransitionKeepsRows
      DEF StartReview, Transition, CapacityStatuses, ApplicationStatuses, TypeOK
    <2>2. CASE ReturnForCorrection(a)
      BY <1>0, <2>2, TransitionKeepsRows
      DEF ReturnForCorrection, Transition, Record, CapacityStatuses, ApplicationStatuses
    <2>3. CASE Verify(a)
      <3>1. \A b \in Applications : b # a => registrationNumber'[b] = registrationNumber[b]
        BY <1>0, <2>3 DEF Verify, NumberOnVerify, TypeOK
      <3> QED
        BY <1>0, <2>3, <3>1, TransitionKeepsRows
        DEF Verify, Transition, Record, CapacityStatuses, ApplicationStatuses
    <2>4. CASE MarkAbsent(a)
      <3>1. \A b \in Applications : b # a => registrationNumber'[b] = registrationNumber[b]
        BY <1>0, <2>4 DEF MarkAbsent, GiveUpNumber, TypeOK
      <3> QED
        BY <1>0, <2>4, <3>1, TransitionKeepsRows
        DEF MarkAbsent, Transition, Record, CapacityStatuses, ApplicationStatuses
    <2>5. ASSUME LookUpProfile(a) \/ MarkPresent(a) \/ \E r \in Revisions : VerifyRefused(a, r)
          PROVE  RowsInv'
      <3>1. RowsKept /\ UNCHANGED examStatus
        BY <2>5 DEF LookUpProfile, MarkPresent, VerifyRefused, RowsKept
      <3> QED
        BY <1>0, <3>1, RowsKeptKeepRows
    <2> QED
      BY <1>3, <2>1, <2>2, <2>3, <2>4, <2>5 DEF OfficerStep
  <1>4. CASE YearStep \/ UNCHANGED vars
    <2>1. RowsKept /\ UNCHANGED examStatus
      BY <1>4 DEF YearStep, vars, RowsKept
    <2> QED
      BY <1>0, <2>1, RowsKeptKeepRows
  <1> QED
    BY <1>1, <1>2, <1>3, <1>4 DEF Next

\* The row invariant holds in every reachable state.
THEOREM RowsInvariant == Spec => []RowsInv
  BY InitRows, StepRows, PTL DEF Spec

\* An identity has one application per examination, whatever was cancelled.
THEOREM OnePerIdentity == Spec => []OneApplicationPerIdentity
  BY RowsInvariant, PTL DEF RowsInv

\* Waitlist entries and application statuses agree.
THEOREM WaitlistConsistent == Spec => []WaitlistMatchesStatus
  BY RowsInvariant, PTL DEF RowsInv

\* A reviewed application is never cancelled.
THEOREM ReviewedNeverCancelled == Spec => ReviewForbidsCancellation
  <1>1. RowsInv /\ RowsInv' /\ [Next]_vars =>
            [\A a \in Applications : reviewStarted[a] => status'[a] # "CANCELLED"]_vars
    <2> SUFFICES ASSUME RowsInv, RowsInv', Next, NEW a \in Applications, reviewStarted[a]
                 PROVE  status'[a] # "CANCELLED"
      OBVIOUS
    <2>1. reviewStarted'[a]
      <3>1. \/ UNCHANGED reviewStarted
            \/ \E b \in Applications : reviewStarted' = [reviewStarted EXCEPT ![b] = TRUE]
        <4>1. CASE ExamStep \/ YearStep
          BY <4>1, ExamStepKeepsApplications DEF YearStep
        <4>2. ASSUME NEW b \in Applications, ApplicantStep(b)
              PROVE  UNCHANGED reviewStarted
          BY <4>2 DEF ApplicantStep, Submit, CancelAndPromote, CancelAlone, CancelVars, Resubmit
        <4>3. ASSUME NEW b \in Applications, OfficerStep(b)
              PROVE  \/ UNCHANGED reviewStarted
                     \/ reviewStarted' = [reviewStarted EXCEPT ![b] = TRUE]
          BY <4>3 DEF OfficerStep, StartReview, ReturnForCorrection, LookUpProfile, Verify,
                      VerifyRefused, MarkPresent, MarkAbsent
        <4> QED
          BY <4>1, <4>2, <4>3 DEF Next
      <3> QED
        BY <3>1 DEF RowsInv, TypeOK
    <2> QED
      BY <2>1 DEF RowsInv
  <1> QED
    BY <1>1, RowsInvariant, PTL DEF Spec, ReviewForbidsCancellation

-----------------------------------------------------------------------------
(* Seats.                                                                  *)

Seated(e) == Having(e, CapacityStatuses)

SeatsInv == RowsInv /\ SeatsWithinCapacity

\* The applications counted against a capacity are finitely many.
LEMMA HavingIsFinite ==
    ASSUME NEW e, NEW S
    PROVE  IsFiniteSet(Having(e, S)) /\ Cardinality(Having(e, S)) \in Nat
  BY ApplicationsAssumption, FS_Subset, FS_CardinalityType DEF Having

\* An examination whose seated applications are not more than before keeps its bound.
LEMMA NoMoreSeated ==
    ASSUME SeatsWithinCapacity, RowsInv, NEW e \in Exams,
           Seated(e)' \subseteq Seated(e), capacity'[e] = capacity[e]
    PROVE  Cardinality(Seated(e)') <= capacity'[e]
  <1>1. Cardinality(Seated(e)') <= Cardinality(Seated(e))
    BY HavingIsFinite, FS_Subset DEF Seated
  <1>2. Cardinality(Seated(e)) <= capacity[e]
    BY DEF SeatsWithinCapacity, Seated
  <1>3. Cardinality(Seated(e)) \in Nat /\ Cardinality(Seated(e)') \in Nat /\ capacity[e] \in Nat
    <2>1. Seated(e)' \in SUBSET Applications
      BY DEF Seated, Having
    <2> QED
      BY <2>1, HavingIsFinite, ApplicationsAssumption, FS_Subset, FS_CardinalityType,
         BoundsAssumption
      DEF Seated, RowsInv, TypeOK, Capacities
  <1> QED
    BY <1>1, <1>2, <1>3

\* Every handler but four seats nobody and keeps capacities.
LEMMA StepsThatSeat ==
    ASSUME RowsInv, [Next]_vars
    PROVE  \/ \E e \in Exams, c \in Capacities, w \in Windows : CreateExam(e, c, w)
           \/ \E e \in Exams, c \in Capacities, w \in Windows, edited \in BOOLEAN :
                UpdateExam(e, c, w, edited)
           \/ \E a \in Applications, e \in Exams, i \in Identities, k \in RequestKeys,
                n \in Numbers : Submit(a, e, i, k, n)
           \/ \E a, b \in Applications : CancelAndPromote(a, b)
           \/ UNCHANGED capacity /\ \A e \in Exams : Seated(e)' \subseteq Seated(e)
  <1> USE DEF examVars, identityVars, Seated, Having
  <1>1. CASE ExamStep
    BY <1>1 DEF ExamStep, SetExamStatus, TimePasses
  <1>2. ASSUME NEW a \in Applications,
               CancelAlone(a) \/ Resubmit(a) \/ OfficerStep(a)
        PROVE  UNCHANGED capacity /\ \A e \in Exams : Seated(e)' \subseteq Seated(e)
    <2>1. UNCHANGED <<capacity, examOf>>
      BY <1>2 DEF CancelAlone, CancelVars, Resubmit, OfficerStep, StartReview,
                  ReturnForCorrection, LookUpProfile, Verify, VerifyRefused, MarkPresent,
                  MarkAbsent
    <2>2. \/ UNCHANGED status
          \/ status' = [status EXCEPT ![a] = "CANCELLED"]
          \/ \E to \in ApplicationStatuses :
                status[a] \in CapacityStatuses /\ status' = [status EXCEPT ![a] = to]
      BY <1>2 DEF CancelAlone, Resubmit, OfficerStep, StartReview,
                  ReturnForCorrection, LookUpProfile, Verify, VerifyRefused, MarkPresent,
                  MarkAbsent, Transition, CapacityStatuses, ApplicationStatuses
    <2> QED
      BY <2>1, <2>2 DEF RowsInv, TypeOK, CapacityStatuses
  <1>3. CASE YearStep \/ UNCHANGED vars
    BY <1>3 DEF YearStep, vars
  <1> QED
    BY <1>1, <1>2, <1>3 DEF Next, ApplicantStep

\* Every step keeps the seats taken within the capacity: the four handlers that seat
\* somebody or change a capacity check the count or move a seat.
LEMMA StepSeats ==
    SeatsInv /\ [Next]_vars => SeatsWithinCapacity'
  <1> SUFFICES ASSUME SeatsInv, [Next]_vars, NEW e \in Exams
               PROVE  Cardinality(Seated(e)') <= capacity'[e]
    BY DEF SeatsWithinCapacity, Seated
  <1> USE DEF examVars, identityVars
  <1>0. RowsInv /\ SeatsWithinCapacity
    BY DEF SeatsInv
  <1>1. ASSUME NEW f \in Exams, NEW c \in Capacities, NEW w \in Windows, CreateExam(f, c, w)
        PROVE  Cardinality(Seated(e)') <= capacity'[e]
    <2>1. Seated(e)' = Seated(e)
      BY <1>1 DEF CreateExam, Seated, Having
    <2>2. CASE e = f
      <3>1. Seated(e) = {} /\ capacity'[e] = c
        BY <1>0, <1>1, <2>2 DEF CreateExam, RowsInv, TypeOK, Seated, Having
      <3> QED
        BY <2>1, <3>1, FS_EmptySet, BoundsAssumption DEF Capacities
    <2>3. CASE e # f
      BY <1>0, <1>1, <2>1, <2>3, NoMoreSeated DEF CreateExam, RowsInv, TypeOK
    <2> QED
      BY <2>2, <2>3
  <1>2. ASSUME NEW f \in Exams, NEW c \in Capacities, NEW w \in Windows,
               NEW edited \in BOOLEAN, UpdateExam(f, c, w, edited)
        PROVE  Cardinality(Seated(e)') <= capacity'[e]
    <2>1. Seated(e)' = Seated(e)
      BY <1>2 DEF UpdateExam, Seated, Having
    <2>2. CASE e = f
      <3>1. Seated(e) \subseteq Having(e, SeatOccupyingStatuses)
        BY DEF Seated, Having, SeatOccupyingStatuses
      <3>2. Cardinality(Seated(e)) <= Cardinality(Having(e, SeatOccupyingStatuses))
        BY <3>1, HavingIsFinite, FS_Subset
      <3>3. Cardinality(Having(e, SeatOccupyingStatuses)) <= c /\ capacity'[e] = c
        BY <1>0, <1>2, <2>2 DEF UpdateExam, ReservedSeats, RowsInv, TypeOK
      <3> QED
        BY <2>1, <3>2, <3>3, HavingIsFinite, BoundsAssumption DEF Seated, Capacities
    <2>3. CASE e # f
      BY <1>0, <1>2, <2>1, <2>3, NoMoreSeated DEF UpdateExam, RowsInv, TypeOK
    <2> QED
      BY <2>2, <2>3
  <1>3. ASSUME NEW a \in Applications, NEW f \in Exams, NEW i \in Identities,
               NEW k \in RequestKeys, NEW n \in Numbers, Submit(a, f, i, k, n)
        PROVE  Cardinality(Seated(e)') <= capacity'[e]
    <2>1. /\ capacity'[e] = capacity[e] /\ a \notin Seated(e)
          /\ \A b \in Applications : b # a => examOf'[b] = examOf[b] /\ status'[b] = status[b]
      BY <1>0, <1>3
      DEF Submit, TakeSeat, JoinWaitlist, RowsInv, TypeOK, Seated, Having, NoRow, CapacityStatuses
    <2>2. CASE e = f /\ TakeSeat(a, f)
      <3>1. Seated(e)' \subseteq Seated(e) \cup {a}
        BY <2>1 DEF Seated, Having
      <3>2. Cardinality(Seated(e)) < capacity[e]
        BY <2>2 DEF TakeSeat, HasFreeSeat, Seated
      <3>3. /\ IsFiniteSet(Seated(e) \cup {a})
            /\ Cardinality(Seated(e) \cup {a}) = Cardinality(Seated(e)) + 1
        BY <2>1, HavingIsFinite, FS_AddElement DEF Seated
      <3>4. /\ Cardinality(Seated(e)') <= Cardinality(Seated(e) \cup {a})
            /\ Cardinality(Seated(e)') \in Nat
        BY <3>1, <3>3, FS_Subset, FS_CardinalityType
      <3> QED
        BY <1>0, <2>1, <3>2, <3>3, <3>4, HavingIsFinite, BoundsAssumption
        DEF Seated, RowsInv, TypeOK, Capacities
    <2>3. CASE ~(e = f /\ TakeSeat(a, f))
      <3>1. ~(examOf'[a] = e /\ status'[a] \in CapacityStatuses)
        BY <1>0, <1>3, <2>3
        DEF Submit, JoinWaitlist, RowsInv, TypeOK, CapacityStatuses
      <3>2. Seated(e)' \subseteq Seated(e)
        BY <2>1, <3>1 DEF Seated, Having
      <3> QED
        BY <1>0, <2>1, <3>2, NoMoreSeated
    <2> QED
      BY <2>2, <2>3
  <1>4. ASSUME NEW a \in Applications, NEW b \in Applications, CancelAndPromote(a, b)
        PROVE  Cardinality(Seated(e)') <= capacity'[e]
    <2>1. /\ status[a] = "SUBMITTED" /\ examOf[b] = examOf[a] /\ UNCHANGED <<examOf, capacity>>
          /\ status' = [status EXCEPT ![a] = "CANCELLED", ![b] = "SUBMITTED"]
          /\ status[b] = "WAITLISTED"
      BY <1>0, <1>4
      DEF CancelAndPromote, CancelVars, NextInLine, Waiting, RowsInv, WaitlistMatchesStatus
    <2>2. CASE examOf[a] # e
      <3>1. Seated(e)' \subseteq Seated(e)
        BY <1>0, <2>1, <2>2 DEF Seated, Having, RowsInv, TypeOK
      <3> QED
        BY <1>0, <2>1, <3>1, NoMoreSeated
    <2>3. CASE examOf[a] = e
      <3>1. a \in Seated(e) /\ b \notin Seated(e) /\ a # b
        BY <2>1, <2>3 DEF Seated, Having, CapacityStatuses
      <3>2. Seated(e)' \subseteq (Seated(e) \ {a}) \cup {b}
        BY <1>0, <2>1, <3>1 DEF Seated, Having, RowsInv, TypeOK, CapacityStatuses
      <3>3. /\ IsFiniteSet(Seated(e) \ {a})
            /\ Cardinality(Seated(e) \ {a}) = Cardinality(Seated(e)) - 1
        BY <3>1, HavingIsFinite, FS_RemoveElement DEF Seated
      <3>4. /\ IsFiniteSet((Seated(e) \ {a}) \cup {b})
            /\ Cardinality((Seated(e) \ {a}) \cup {b}) = Cardinality(Seated(e) \ {a}) + 1
        BY <3>1, <3>3, FS_AddElement
      <3>5. /\ Cardinality(Seated(e)') <= Cardinality((Seated(e) \ {a}) \cup {b})
            /\ Cardinality(Seated(e)') \in Nat
        BY <3>2, <3>4, FS_Subset, FS_CardinalityType
      <3>6. Cardinality(Seated(e)) <= capacity[e] /\ Cardinality(Seated(e)) \in Nat
        BY <1>0, HavingIsFinite DEF SeatsWithinCapacity, Seated
      <3> QED
        BY <1>0, <2>1, <3>3, <3>4, <3>5, <3>6, BoundsAssumption DEF RowsInv, TypeOK, Capacities
    <2> QED
      BY <2>2, <2>3
  <1>5. CASE UNCHANGED capacity /\ \A f \in Exams : Seated(f)' \subseteq Seated(f)
    BY <1>0, <1>5, NoMoreSeated
  <1> QED
    BY <1>0, <1>1, <1>2, <1>3, <1>4, <1>5, StepsThatSeat

\* Seats are never oversold: at most capacity applications hold one.
THEOREM SeatsNeverOversold == Spec => []SeatsWithinCapacity
  <1>1. Init => SeatsInv
    BY InitRows DEF SeatsInv, Init, SeatsWithinCapacity
  <1>2. SeatsInv /\ [Next]_vars => SeatsInv'
    BY StepRows, StepSeats DEF SeatsInv
  <1> QED
    BY <1>1, <1>2, PTL DEF Spec, SeatsInv

-----------------------------------------------------------------------------
(* Numbers leave an application only by its absence.                       *)

\* Reviews, corrections, promotions and the year's end keep an application's number.
THEOREM NumberKept == Spec => NumberKeptUntilAbsence
  <1>1. NumbersInv /\ RowsInv /\ [Next]_vars =>
            [\A a \in Applications :
                registrationNumber[a] # None /\ registrationNumber'[a] # registrationNumber[a] =>
                    /\ status'[a] = "ABSENT"
                    /\ registrationNumber'[a] = None
                    /\ releasedNumber'[a] = registrationNumber[a]]_vars
    <2> SUFFICES ASSUME NumbersInv, RowsInv, [Next]_vars, NEW a \in Applications,
                        registrationNumber[a] # None,
                        registrationNumber'[a] # registrationNumber[a]
                 PROVE  /\ status'[a] = "ABSENT"
                        /\ registrationNumber'[a] = None
                        /\ releasedNumber'[a] = registrationNumber[a]
      OBVIOUS
    <2>1. ~\E b \in Applications, e \in Exams, i \in Identities, k \in RequestKeys,
              n \in Numbers : Submit(b, e, i, k, n)
      BY DEF Submit, RowsInv, TypeOK
    <2>2. ~\E b \in Applications : Verify(b)
      BY DEF Verify, NumberOnVerify, RowsInv, TypeOK
    <2>3. ASSUME NEW b \in Applications, MarkAbsent(b)
          PROVE  /\ status'[a] = "ABSENT"
                 /\ registrationNumber'[a] = None
                 /\ releasedNumber'[a] = registrationNumber[a]
      <3>1. PICK n \in Numbers :
                /\ registrationNumber[b] = n
                /\ registrationNumber' = [registrationNumber EXCEPT ![b] = None]
                /\ releasedNumber' = [releasedNumber EXCEPT ![b] = n]
        BY <2>3, GiveUpReleases DEF MarkAbsent
      <3>2. status' = [status EXCEPT ![b] = "ABSENT"]
        BY <2>3 DEF MarkAbsent, Transition
      <3>3. a = b
        BY <3>1 DEF RowsInv, TypeOK
      <3> QED
        BY <3>1, <3>2, <3>3 DEF RowsInv, TypeOK
    <2> QED
      BY <2>1, <2>2, <2>3, StepsThatWriteNumbers
  <1> QED
    BY <1>1, NumbersInvariant, RowsInvariant, PTL DEF Spec, NumberKeptUntilAbsence

-----------------------------------------------------------------------------
(* The waitlist is first in, first out.                                    *)

Entered == {a \in Applications : entry[a] # NoRow}

\* Position keys tell entries apart and none is ahead of the clock.
KeysFollowArrival ==
    /\ \A a \in Entered : positionKey[a] <= Cardinality(Entered)
    /\ \A a, b \in Entered : positionKey[a] = positionKey[b] => a = b

\* Every step keeps position keys in the order in which entries were made.
LEMMA StepKeys ==
    RowsInv /\ KeysFollowArrival /\ [Next]_vars => KeysFollowArrival'
  <1> SUFFICES ASSUME RowsInv, KeysFollowArrival, [Next]_vars
               PROVE  KeysFollowArrival'
    OBVIOUS
  <1> USE DEF waitlistVars
  <1>1. ASSUME NEW a \in Applications, NEW e \in Exams, NEW i \in Identities,
               NEW k \in RequestKeys, NEW n \in Numbers, Submit(a, e, i, k, n),
               JoinWaitlist(a, e)
        PROVE  KeysFollowArrival'
    <2>1. a \notin Entered
      BY <1>1 DEF Submit, RowsInv, Entered
    <2>2. Entered' = Entered \cup {a}
      BY <1>1 DEF JoinWaitlist, RowsInv, TypeOK, Entered, NoRow
    <2>3. /\ IsFiniteSet(Entered) /\ Cardinality(Entered) \in Nat
          /\ Cardinality(Entered') = Cardinality(Entered) + 1
      BY <2>1, <2>2, ApplicationsAssumption, FS_Subset, FS_AddElement, FS_CardinalityType
      DEF Entered
    <2>4. positionKey' = [positionKey EXCEPT ![a] = Cardinality(Entered) + 1]
      BY <1>1 DEF JoinWaitlist, NextPositionKey, Entered
    <2>5. positionKey \in [Applications -> Nat] /\ Entered \subseteq Applications
      BY DEF RowsInv, TypeOK, Entered
    <2>6. \A b \in Entered : positionKey'[b] = positionKey[b] /\ positionKey[b] <= Cardinality(Entered)
      BY <2>1, <2>4, <2>5 DEF KeysFollowArrival
    <2>7. positionKey'[a] = Cardinality(Entered) + 1
      BY <2>4, <2>5
    <2>8. \A b \in Entered' : positionKey'[b] <= Cardinality(Entered')
      BY <2>2, <2>3, <2>5, <2>6, <2>7
    <2>9. \A b, c \in Entered' : positionKey'[b] = positionKey'[c] => b = c
      BY <2>2, <2>3, <2>5, <2>6, <2>7 DEF KeysFollowArrival
    <2> QED
      BY <2>8, <2>9 DEF KeysFollowArrival
  <1>2. CASE UNCHANGED positionKey /\ \A a \in Applications : entry'[a] = NoRow <=> entry[a] = NoRow
    <2>1. Entered' = Entered
      BY <1>2 DEF Entered
    <2> QED
      BY <1>2, <2>1 DEF KeysFollowArrival
  <1>3. CASE UNCHANGED <<entry, positionKey>>
    BY <1>2, <1>3
  <1>4. CASE ExamStep \/ YearStep
    BY <1>3, <1>4, ExamStepKeepsApplications DEF YearStep
  <1>5. ASSUME NEW a \in Applications, ApplicantStep(a)
        PROVE  KeysFollowArrival'
    <2>1. CASE \E b \in Applications : CancelAndPromote(a, b)
      <3>1. PICK b \in Applications : CancelAndPromote(a, b)
        BY <2>1
      <3>2. entry[b] = "WAITING"
        BY <3>1 DEF CancelAndPromote, NextInLine, Waiting
      <3>3. \A c \in Applications : entry'[c] = NoRow <=> entry[c] = NoRow
        BY <3>1, <3>2 DEF CancelAndPromote, CancelledEntry, RowsInv, TypeOK, NoRow
      <3> QED
        BY <1>2, <3>1, <3>3 DEF CancelAndPromote, CancelVars
    <2>2. CASE CancelAlone(a)
      <3>1. \A c \in Applications : entry'[c] = NoRow <=> entry[c] = NoRow
        BY <2>2 DEF CancelAlone, CancelledEntry, RowsInv, TypeOK, NoRow
      <3> QED
        BY <1>2, <2>2, <3>1 DEF CancelAlone, CancelVars
    <2> QED
      BY <1>1, <1>3, <1>5, <2>1, <2>2 DEF ApplicantStep, Submit, TakeSeat, Resubmit
  <1>6. ASSUME NEW a \in Applications, OfficerStep(a)
        PROVE  KeysFollowArrival'
    BY <1>3, <1>6 DEF OfficerStep, StartReview, ReturnForCorrection, LookUpProfile, Verify,
                      VerifyRefused, MarkPresent, MarkAbsent
  <1>7. CASE UNCHANGED vars
    BY <1>3, <1>7 DEF vars
  <1> QED
    BY <1>4, <1>5, <1>6, <1>7 DEF Next

\* An application leaves the waitlist for a seat by being promoted.
LEMMA OnlyPromotionLeavesWaitlist ==
    ASSUME RowsInv, [Next]_vars, NEW a \in Applications,
           status[a] = "WAITLISTED", status'[a] = "SUBMITTED"
    PROVE  \E c \in Applications : CancelAndPromote(c, a)
  <1> USE DEF RowsInv, TypeOK, NoRow
  <1>1. CASE ExamStep \/ YearStep \/ UNCHANGED vars
    BY <1>1, ExamStepKeepsApplications DEF YearStep, vars
  <1>2. ASSUME NEW b \in Applications, ApplicantStep(b)
        PROVE  \E c \in Applications : CancelAndPromote(c, a)
    <2>1. ASSUME NEW c \in Applications, CancelAndPromote(b, c)
          PROVE  c = a
      BY <2>1 DEF CancelAndPromote
    <2> QED
      BY <1>2, <2>1 DEF ApplicantStep, Submit, TakeSeat, JoinWaitlist, CancelAlone, Resubmit,
                        Transition
  <1>3. ASSUME NEW b \in Applications, OfficerStep(b)
        PROVE  \E c \in Applications : CancelAndPromote(c, a)
    BY <1>3 DEF OfficerStep, StartReview, ReturnForCorrection, LookUpProfile, Verify,
                VerifyRefused, MarkPresent, MarkAbsent, Transition
  <1> QED
    BY <1>1, <1>2, <1>3 DEF Next

\* Nobody who entered the waitlist earlier still waits when an application is promoted.
THEOREM WaitlistIsFifo == Spec => PromotionIsFifo
  <1>1. Init => KeysFollowArrival
    BY DEF Init, KeysFollowArrival, Entered
  <1>2. RowsInv /\ KeysFollowArrival /\ [Next]_vars =>
            [\A a \in Applications :
                status[a] = "WAITLISTED" /\ status'[a] = "SUBMITTED" =>
                    \A b \in Waiting(examOf[a])' : positionKey[a] < positionKey[b]]_vars
    <2> SUFFICES ASSUME RowsInv, KeysFollowArrival, [Next]_vars, NEW a \in Applications,
                        status[a] = "WAITLISTED", status'[a] = "SUBMITTED",
                        NEW b \in Waiting(examOf[a])'
                 PROVE  positionKey[a] < positionKey[b]
      OBVIOUS
    <2>1. PICK c \in Applications : CancelAndPromote(c, a)
      BY OnlyPromotionLeavesWaitlist
    <2>2. /\ b \in Applications /\ entry'[b] = "WAITING"
          /\ UNCHANGED examOf /\ examOf[b] = examOf[a]
      BY <2>1 DEF Waiting, CancelAndPromote, CancelVars, identityVars
    <2>3. entry[b] = "WAITING" /\ b # a
      BY <2>1, <2>2 DEF CancelAndPromote, CancelledEntry, RowsInv, TypeOK
    <2>4. positionKey[a] <= positionKey[b] /\ entry[a] = "WAITING"
      BY <2>1, <2>2, <2>3 DEF CancelAndPromote, NextInLine, Waiting
    <2>5. positionKey[a] # positionKey[b]
      BY <2>2, <2>3, <2>4 DEF KeysFollowArrival, Entered, NoRow
    <2> QED
      BY <2>2, <2>4, <2>5 DEF RowsInv, TypeOK
  <1> QED
    BY <1>1, <1>2, StepKeys, RowsInvariant, PTL DEF Spec, PromotionIsFifo

\* A submission answers a key that answered nothing before, and writes one row.
LEMMA SubmitAnswers ==
    ASSUME NEW a \in Applications, NEW e \in Exams, NEW i \in Identities,
           NEW k \in RequestKeys, NEW n \in Numbers, Submit(a, e, i, k, n)
    PROVE  /\ answered[k] = None
           /\ answered' = [answered EXCEPT ![k] = a]
           /\ \E s : status' = [status EXCEPT ![a] = s]
  BY DEF Submit, Unanswered, TakeSeat, JoinWaitlist

\* Every application of this format stays the recorded answer of a request key: a later
\* request is answered under a key that answered nothing before.
THEOREM RequestsAnsweredOnce == Spec => []EveryApplicationAnswersItsRequest
  <1> USE DEF EveryApplicationAnswersItsRequest, Rows
  <1>1. Init => EveryApplicationAnswersItsRequest
    BY DEF Init, NoRow
  <1>2. RowsInv /\ EveryApplicationAnswersItsRequest /\ [Next]_vars =>
            EveryApplicationAnswersItsRequest'
    <2> SUFFICES ASSUME RowsInv, EveryApplicationAnswersItsRequest, [Next]_vars
                 PROVE  EveryApplicationAnswersItsRequest'
      OBVIOUS
    <2>0. TypeOK
      BY DEF RowsInv
    <2>1. ASSUME UNCHANGED answered,
                 \A a \in Applications : status[a] = NoRow => status'[a] = NoRow
          PROVE  EveryApplicationAnswersItsRequest'
      BY <2>1
    <2>2. CASE ExamStep
      BY <2>1, <2>2, ExamStepKeepsApplications DEF identityVars
    <2>3. CASE YearStep \/ UNCHANGED vars
      BY <2>1, <2>3 DEF YearStep, vars, identityVars
    <2>4. ASSUME NEW a \in Applications, ApplicantStep(a)
          PROVE  EveryApplicationAnswersItsRequest'
      <3>1. CASE \E e \in Exams, i \in Identities, k \in RequestKeys, n \in Numbers :
                     Submit(a, e, i, k, n)
        <4>1. PICK k \in RequestKeys :
                  /\ answered[k] = None
                  /\ answered' = [answered EXCEPT ![k] = a]
                  /\ \E s : status' = [status EXCEPT ![a] = s]
          BY <3>1, SubmitAnswers
        <4>2. \A b \in Applications : b # a => status'[b] = status[b]
          BY <2>0, <4>1 DEF TypeOK
        <4>3. answered'[k] = a
          BY <2>0, <4>1 DEF TypeOK
        <4>4. \A j \in RequestKeys : answered[j] # None => answered'[j] = answered[j]
          BY <2>0, <4>1 DEF TypeOK
        <4> QED
          BY <4>2, <4>3, <4>4, NoneAssumption
      <3>2. CASE \E b \in Applications : CancelAndPromote(a, b)
        <4>1. PICK b \in Applications : CancelAndPromote(a, b)
          BY <3>2
        <4>2. status[a] # NoRow /\ status[b] # NoRow
          BY <4>1
          DEF CancelAndPromote, MayCancel, NextInLine, Waiting, RowsInv, WaitlistMatchesStatus,
              NoRow
        <4> QED
          BY <2>0, <2>1, <4>1, <4>2 DEF CancelAndPromote, CancelVars, identityVars, TypeOK
      <3>3. CASE CancelAlone(a)
        BY <2>0, <2>1, <3>3 DEF CancelAlone, CancelVars, identityVars, MayCancel, TypeOK, NoRow
      <3>4. CASE Resubmit(a)
        BY <2>0, <2>1, <3>4 DEF Resubmit, Transition, identityVars, TypeOK, NoRow
      <3> QED
        BY <2>4, <3>1, <3>2, <3>3, <3>4 DEF ApplicantStep
    <2>5. ASSUME NEW a \in Applications, OfficerStep(a)
          PROVE  EveryApplicationAnswersItsRequest'
      <3>1. UNCHANGED answered
        BY <2>0, <2>5 DEF OfficerStep, StartReview, ReturnForCorrection, LookUpProfile, Verify,
                    VerifyRefused, MarkPresent, MarkAbsent, identityVars
      <3>2. \A b \in Applications : status[b] = NoRow => status'[b] = NoRow
        BY <2>0, <2>5 DEF OfficerStep, StartReview, ReturnForCorrection, LookUpProfile, Verify,
                    VerifyRefused, MarkPresent, MarkAbsent, Transition, NoRow, TypeOK
      <3> QED
        BY <2>1, <3>1, <3>2
    <2> QED
      BY <2>2, <2>3, <2>4, <2>5 DEF Next
  <1> QED
    BY <1>1, <1>2, RowsInvariant, PTL DEF Spec
=============================================================================
