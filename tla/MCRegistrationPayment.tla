------------------------ MODULE MCRegistrationPayment ------------------------
(* Small instances of RegistrationPayment for TLC.                          *)
EXTENDS RegistrationPayment, TLC

\* Applications are interchangeable, and so are calls.
Symmetry == Permutations(Applications) \cup Permutations(Calls)
=============================================================================
