------------------------------ MODULE MCBrowser ------------------------------
(* Small instances of Browser for TLC.                                      *)
EXTENDS Browser, TLC

Symmetry == Permutations(Users) \cup Permutations(Requests) \cup Permutations(Tabs)
=============================================================================
