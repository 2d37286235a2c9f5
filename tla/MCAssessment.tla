----------------------------- MODULE MCAssessment -----------------------------
(* A small instance of Assessment for TLC.                                  *)
EXTENDS Assessment, TLC

Symmetry == Permutations(Papers)
=============================================================================
