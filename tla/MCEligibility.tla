---------------------------- MODULE MCEligibility ----------------------------
(* Small instances of Eligibility for TLC.                                  *)
EXTENDS Eligibility, TLC

\* Each application is verified once and may become absent once.
OnceEach == {"ApplicationVerified", "CandidateMarkedAbsent"} \X Applications \X {1}

\* Each application is verified once, and its notice may be sent again.
Resent == {"ApplicationVerified"} \X Applications \X {1, 2}

Symmetry == Permutations(Replicas) \cup Permutations(Workers)
=============================================================================
