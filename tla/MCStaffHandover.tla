--------------------------- MODULE MCStaffHandover ---------------------------
(* Small instances of StaffHandover for TLC.                                *)
EXTENDS StaffHandover, TLC

\* Reporting differs from the other services; result stands for all of these.
MCServices == <<"result", "reporting">>

Symmetry == Permutations(Users)
=============================================================================
