----------------------------- MODULE MCMessaging -----------------------------
(* Small instances of Messaging for TLC.  Reporting and deliveries share    *)
(* nothing but the events, so each behaviour looks at one of them: three    *)
(* events of one resource, of which two handlers can read the row that the  *)
(* first has left, and commit in either order; or an event that brings a    *)
(* delivery about.  One event is published twice in either.                 *)
EXTENDS Messaging

CONSTANTS e1, e2, e3, e4, r1, d1

MCResource == [e \in Events |-> r1]
MCOccurredAt == [e \in Events |->
    IF e = e1 THEN 1 ELSE IF e = e2 THEN 2 ELSE IF e = e3 THEN 3 ELSE 4]
MCTargeted == [e \in Events |-> IF e = e4 THEN {d1} ELSE {}]
MCPublications ==
    {[e \in Events |-> IF e = e1 THEN 2 ELSE IF e = e4 THEN 0 ELSE 1],
     [e \in Events |-> IF e = e4 THEN 2 ELSE 0]}
=============================================================================
