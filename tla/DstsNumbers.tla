----------------------------- MODULE DstsNumbers -----------------------------
(***************************************************************************)
(* The pool of DSTS registration numbers of the registration service       *)
(* (apps/registration-service/src/dsts-number.ts and the tables of         *)
(* migration 0041).  A number is a pair <<year, sequence>>: its text is a  *)
(* letter for the hundred the sequence is in, the last two digits of the   *)
(* year and the sequence, so two pairs of one century never share a text.  *)
(*                                                                         *)
(* Both operations are called inside the transaction of the handler that   *)
(* needs them; the row lock on the year's counter makes each of them one   *)
(* step for every other transaction.                                       *)
(***************************************************************************)
EXTENDS Integers, FiniteSets

CONSTANTS
    Applications,       \* application ids
    None,               \* SQL NULL
    FirstYear,          \* the calendar year in which the behaviour begins
    LastYear,           \* bound: the last calendar year considered
    MaxSequence         \* fresh numbers per year; 999 in the code

ASSUME YearsAssumption ==
    /\ FirstYear \in Nat
    /\ LastYear \in Nat
    /\ FirstYear <= LastYear
    /\ LastYear - FirstYear < 100

ASSUME SequenceAssumption == MaxSequence \in Nat \ {0}

ASSUME NoneAssumption == None \notin Applications

VARIABLES
    year,               \* registrationYear(now)
    nextSequence,       \* dsts_number_counters.next_sequence, by year
    slot                \* dsts_number_slots.application_id, by number

numberVars == <<year, nextSequence, slot>>

Years == FirstYear .. LastYear
SequenceNumbers == 1 .. MaxSequence
Numbers == Years \X SequenceNumbers

NumbersInit ==
    /\ year = FirstYear
    /\ nextSequence = [y \in Years |-> 1]
    /\ slot = [n \in Numbers |-> None]

NumbersTypeOK ==
    /\ year \in Years
    /\ nextSequence \in [Years -> 1 .. (MaxSequence + 1)]
    /\ slot \in [Numbers -> Applications \cup {None}]

-----------------------------------------------------------------------------
\* The issued numbers of year y that nobody owns any more.
FreeSequences(y) ==
    {s \in SequenceNumbers : s < nextSequence[y] /\ slot[<<y, s>>] = None}

OwnsNumber(a) == \E n \in Numbers : slot[n] = a

\* ORDER BY sequence LIMIT 1 over the free slots.
LowestFree(y, s) ==
    /\ s \in FreeSequences(y)
    /\ \A t \in FreeSequences(y) : s <= t

\* Mutated form of AllocateDstsNumber: fresh numbers before released ones.
AllocateFreshFirst(a, n) ==
    \/ /\ slot[n] = a
       /\ UNCHANGED <<nextSequence, slot>>
    \/ /\ ~OwnsNumber(a)
       /\ nextSequence[year] > MaxSequence
       /\ \E s \in SequenceNumbers : n = <<year, s>> /\ LowestFree(year, s)
       /\ slot' = [slot EXCEPT ![n] = a]
       /\ UNCHANGED nextSequence
    \/ /\ ~OwnsNumber(a)
       /\ nextSequence[year] <= MaxSequence
       /\ n = <<year, nextSequence[year]>>
       /\ nextSequence' = [nextSequence EXCEPT ![year] = @ + 1]
       /\ slot' = [slot EXCEPT ![n] = a]

\* a gets number n: the slot it already owns, else the lowest free slot of the
\* current year, else a fresh number.  With no slot free and the year's numbers
\* used up it is disabled: DSTS_ANNUAL_LIMIT rolls the caller's transaction back.
AllocateDstsNumber(a, n) ==
    \/ /\ slot[n] = a
       /\ UNCHANGED <<nextSequence, slot>>
    \/ /\ ~OwnsNumber(a)
       /\ \E s \in SequenceNumbers : n = <<year, s>> /\ LowestFree(year, s)
       /\ slot' = [slot EXCEPT ![n] = a]
       /\ UNCHANGED nextSequence
    \/ /\ ~OwnsNumber(a)
       /\ FreeSequences(year) = {}
       /\ nextSequence[year] <= MaxSequence
       /\ n = <<year, nextSequence[year]>>
       /\ nextSequence' = [nextSequence EXCEPT ![year] = @ + 1]
       /\ slot' = [slot EXCEPT ![n] = a]

\* Detaches whatever slot a owns; an application without one (a legacy number)
\* changes nothing.
ReleaseDstsNumber(a) ==
    /\ slot' = [n \in Numbers |-> IF slot[n] = a THEN None ELSE slot[n]]
    /\ UNCHANGED nextSequence

\* Midnight of 1 January in Asia/Thimphu.
NewYear ==
    /\ year < LastYear
    /\ year' = year + 1
    /\ UNCHANGED <<nextSequence, slot>>
=============================================================================
