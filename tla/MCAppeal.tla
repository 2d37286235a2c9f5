------------------------------- MODULE MCAppeal -------------------------------
(* Small instances of Appeal for TLC.                                        *)
EXTENDS Appeal

Symmetry == Permutations(Appeals) \cup Permutations(Calls)
=============================================================================
