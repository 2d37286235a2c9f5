--------------------------------- MODULE Birms ---------------------------------
(***************************************************************************)
(* BIRMS, the revenue system that collects the fees, as its clients in the *)
(* registration and appeal services see it: an advice for each reference   *)
(* number, which payers and banks move.                                    *)
(***************************************************************************)

AdviceStates == {"PENDING", "PAID", "FAILED", "CANCELLED", "REVERSED"}

\* The payer pays, the bank refuses, or a payment is taken back.
BirmsMoves ==
    {<<"PENDING", "PAID">>, <<"PENDING", "FAILED">>, <<"FAILED", "PAID">>,
     <<"PAID", "REVERSED">>, <<"PAID", "PENDING">>, <<"PENDING", "CANCELLED">>}

\* A request for a new advice repeats a live one, and cancels no payment.
AdviceAfter(state) == IF state \in {"PENDING", "PAID"} THEN state ELSE "PENDING"
=============================================================================
