-------------------------------- MODULE FeeDesk --------------------------------
(***************************************************************************)
(* What the appeal service promises about the fee of an appeal             *)
(* (appeal.service.ts, appeal-birms.service.ts), with no payments, copies  *)
(* of them, advices or calls: an appeal waits at the desk until its fee is *)
(* settled, by a payment or by a waiver, and goes on to the committee      *)
(* once.  Nothing calls it back, and no fee that was settled is due again. *)
(***************************************************************************)

CONSTANT Appeals

VARIABLES
    desk,           \* where each appeal is
    settled         \* the appeals whose fee was paid or waived

deskVars == <<desk, settled>>

Init ==
    /\ desk = [p \in Appeals |-> "NO_ROW"]
    /\ settled = {}

Submit(p) ==
    /\ desk[p] = "NO_ROW"
    /\ desk' = [desk EXCEPT ![p] = "SUBMITTED"]
    /\ UNCHANGED settled

\* The payer pays, before the service knows of it or after the appeal has left.
Settle(p) ==
    /\ desk[p] # "NO_ROW"
    /\ settled' = settled \cup {p}
    /\ UNCHANGED desk

\* Appeals that wait leave the desk, at once while fees are waived, with a fee that is
\* settled by then.
Release(P) ==
    /\ \A p \in P : desk[p] = "SUBMITTED"
    /\ desk' = [p \in Appeals |-> IF p \in P THEN "RELEASED" ELSE desk[p]]
    /\ settled' \in {settled, settled \cup P} /\ P \subseteq settled'

SubmitWaived(p) ==
    /\ desk[p] = "NO_ROW"
    /\ desk' = [desk EXCEPT ![p] = "RELEASED"]
    /\ settled' = settled \cup {p}

Next ==
    \/ \E p \in Appeals : Submit(p) \/ Settle(p) \/ SubmitWaived(p)
    \/ \E P \in SUBSET Appeals : Release(P)

Spec == Init /\ [][Next]_deskVars
=============================================================================
