--------------------------- MODULE NumberRegister ---------------------------
(***************************************************************************)
(* What the registration service promises about DSTS numbers               *)
(* (docs/dsts-numbering.md), with no counter and no pool: a register that  *)
(* says who holds each number.  An application that holds none gets the    *)
(* smallest number of the current calendar year that nobody holds, an      *)
(* absent candidate's number goes back to its own year, and nothing else   *)
(* ever changes hands.                                                     *)
(***************************************************************************)
EXTENDS Integers

CONSTANTS
    Applications,       \* applications that may hold a number
    None,               \* nobody holds the number
    FirstYear,          \* the calendar year in which the behaviour begins
    LastYear,           \* bound: the last calendar year considered
    MaxSequence         \* numbers per year (999 in the code)

VARIABLES
    holder,             \* holder[<<y, s>>]: the application that holds number s of year y
    year                \* the current calendar year in Asia/Thimphu

Years == FirstYear .. LastYear
SequenceNumbers == 1 .. MaxSequence
Numbers == Years \X SequenceNumbers

registerVars == <<holder, year>>

Init ==
    /\ holder = [n \in Numbers |-> None]
    /\ year = FirstYear

\* a, which holds no number, is given the smallest number of the year nobody holds.
Assign(a, s) ==
    /\ \A n \in Numbers : holder[n] # a
    /\ holder[<<year, s>>] = None
    /\ \A t \in 1 .. (s - 1) : holder[<<year, t>>] # None
    /\ holder' = [holder EXCEPT ![<<year, s>>] = a]
    /\ UNCHANGED year

\* The holder of number n gives it back.
Release(n) ==
    /\ holder[n] # None
    /\ holder' = [holder EXCEPT ![n] = None]
    /\ UNCHANGED year

NewYear ==
    /\ year < LastYear
    /\ year' = year + 1
    /\ UNCHANGED holder

Next ==
    \/ \E a \in Applications, s \in SequenceNumbers : Assign(a, s)
    \/ \E n \in Numbers : Release(n)
    \/ NewYear

Spec == Init /\ [][Next]_registerVars
=============================================================================
