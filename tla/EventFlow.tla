------------------------------ MODULE EventFlow ------------------------------
(***************************************************************************)
(* What the services promise one another about events                      *)
(* (libs/common/src/rabbit-outbox.ts and the services' consumers), with no *)
(* replicas, channels, copies or handlers.  An event is recorded with the  *)
(* change it tells of, and only then sent, perhaps again and again.  A     *)
(* consumer applies it once, and the broker has it until it was applied    *)
(* or lies with the dead letters.                                          *)
(***************************************************************************)

CONSTANT Events

VARIABLES
    recorded,       \* events in the outbox
    transit,        \* events that the broker has for the consumer
    applied,        \* events whose effect the consumer has committed
    dead            \* events that it has given up at least once

flowVars == <<recorded, transit, applied, dead>>

\* Events may be in the outbox before the consumer is looked at.
Init ==
    /\ recorded \in SUBSET Events
    /\ transit = {} /\ applied = {} /\ dead = {}

Record(e) ==
    /\ recorded' = recorded \cup {e}
    /\ UNCHANGED <<transit, applied, dead>>

Send(e) ==
    /\ e \in recorded
    /\ transit' = transit \cup {e}
    /\ UNCHANGED <<recorded, applied, dead>>

\* The consumer applies an event, gives it up, or is done with it for now.
Consume(e) ==
    /\ e \in transit
    /\ \/ e \notin applied /\ applied' = applied \cup {e} /\ UNCHANGED dead
       \/ dead' = dead \cup {e} /\ UNCHANGED applied
       \/ UNCHANGED <<applied, dead>>
    /\ \/ UNCHANGED transit
       \/ transit' = transit \ {e} /\ e \in applied' \cup dead'
    /\ UNCHANGED recorded

Next == \E e \in Events : Record(e) \/ Send(e) \/ Consume(e)

Spec == Init /\ [][Next]_flowVars
=============================================================================
