------------------------------- MODULE MCScores -------------------------------
(* Small instances of Scores for TLC.  Scores run from 0 to 2 in steps of a  *)
(* half.                                                                     *)
EXTENDS Scores, TLC

Band(min, max, standard) == [min |-> min, max |-> max, standard |-> standard]

Rule(from, to, bands) ==
    [minimum |-> 0, maximum |-> 2000, increment |-> 500, decimals |-> 1,
     from |-> from, to |-> to, bands |-> bands]

\* Given out of order: standards 1 to 3.
Standards == <<Band(1500, 2000, 3), Band(0, 0, 1), Band(500, 1000, 2)>>
Labels == <<Band(0, 900, NoStandard), Band(1000, 2000, NoStandard)>>
\* No standard for 1.5.
Gap == <<Band(0, 1000, 1), Band(2000, 2000, 2)>>

\* A rule for the first day, one from the second day on, one that overlaps both, and one
\* that is refused.
RuleForms ==
    {Rule(0, 1, Standards), Rule(1, Forever, Labels), Rule(0, Forever, Labels), Rule(0, 1, Gap)}

Values == {<<500, 1500, 500, 1000>>, <<2000, 2000, 500, 0>>}

Raised == {(1 :> 1000), (1 :> 2000) @@ (2 :> 1500)}

OneExam == [a \in Applications |-> CHOOSE x \in Exams : TRUE]

Symmetry ==
    Permutations(Applications) \cup Permutations(Appeals) \cup Permutations(Keys)
=============================================================================
