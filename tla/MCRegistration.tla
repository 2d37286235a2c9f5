--------------------------- MODULE MCRegistration ---------------------------
(* Small instances of Registration for TLC.                                 *)
EXTENDS Registration, TLC

\* Applications that start in the same state, identities and request keys are
\* interchangeable.
Symmetry ==
    Permutations(Applications \ Legacy) \cup Permutations(Identities)
        \cup Permutations(RequestKeys)
=============================================================================
