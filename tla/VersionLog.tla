------------------------------ MODULE VersionLog ------------------------------
(***************************************************************************)
(* What the result service promises about the versions of a score          *)
(* (result-service/src/result.service.ts), with no tables, statuses, rules *)
(* or idempotency keys: a log for each score sheet that says what made     *)
(* each version.  The submission makes the first, an appeal makes the next *)
(* one of one sheet and only once, and no version ever goes.               *)
(***************************************************************************)
EXTENDS Sequences, Integers

CONSTANTS
    Sheets,         \* score sheets
    Appeals,        \* appeals
    Original        \* what made a submitted version

VARIABLE log        \* log[s][n]: what made version n of sheet s

logVars == <<log>>

\* A sheet may have been submitted before.
Init == log \in [Sheets -> {<<>>, <<Original>>}]

Applied(p) == \E s \in Sheets : \E n \in 2 .. Len(log[s]) : log[s][n] = p

Submit(s) ==
    /\ log[s] = <<>>
    /\ log' = [log EXCEPT ![s] = <<Original>>]

Revise(s, p) ==
    /\ log[s] # <<>>
    /\ ~Applied(p)
    /\ log' = [log EXCEPT ![s] = Append(@, p)]

Next == \E s \in Sheets : Submit(s) \/ \E p \in Appeals : Revise(s, p)

Spec == Init /\ [][Next]_logVars
=============================================================================
