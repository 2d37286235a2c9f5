----------------------------- MODULE AppealPayment -----------------------------
(***************************************************************************)
(* The fee of an appeal: payments.status and the columns that decide what  *)
(* may happen to it next (appeal-birms.service.ts and the submission,      *)
(* confirmation and waiver of appeal.service.ts).  Appeal starts from      *)
(* where this module ends, with the appeal released to the committee.      *)
(*                                                                         *)
(* Submission, confirmation and waiver lock what they change.  The calls   *)
(* around BIRMS do not: an advice saves the payment it read before it      *)
(* asked BIRMS, and a synchronization loads the payment once more, after a *)
(* confirmation if BIRMS has it as paid, and then saves it.                *)
(***************************************************************************)
EXTENDS Birms

CONSTANTS
    Appeals,
    Calls               \* bound: the requests under way at once

VARIABLES
    status,             \* appeals.status, as far as the fee is concerned
    payment,            \* payments: one row for each appeal
    waiveFees,          \* appeal_fee_settings.waiveFees
    birms,              \* BIRMS: the advice of each appeal's reference number
    call,               \* how far each of Calls has come
    everPaid,           \* history: BIRMS or another gateway had the fee as paid
    waived              \* history: the administrator waived the fee

birmsVars == <<birms, everPaid>>
feeVars == <<status, payment, waiveFees, birmsVars, call, waived>>

Unset == "NONE"
PaymentStatuses == {"INITIATED", "PAID", "FAILED", "WAIVED"}

\* What a confirmation names as its transaction: the receipt if BIRMS has told one, or
\* else the advice.  OTHER is a transaction of another gateway.
Transactions == {"RECEIPT", "ADVICE", "OTHER"}

\* advised is whether paymentAdviceNo and providerReference are set, receipt whether
\* paymentReceiptNo is.
Payment == [status : PaymentStatuses, advised : BOOLEAN, receipt : BOOLEAN,
            transaction : Transactions \cup {Unset}]

Answer == [state : AdviceStates, receipt : BOOLEAN]

\* copy is the payment the call will save.
Nothing == [of |-> Unset]
Idle == [op |-> "idle"]
Call == [op : {"advice", "sync"}, of : Appeals,
         phase : {"sent", "answered", "confirmed", "loaded"},
         answer : Answer \cup {Nothing}, copy : Payment \cup {Nothing}]

FeeTypeOK ==
    /\ status \in [Appeals -> {"NO_ROW", "SUBMITTED", "RELEASED"}]
    /\ payment \in [Appeals -> Payment]
    /\ waiveFees \in BOOLEAN
    /\ birms \in [Appeals -> AdviceStates \cup {Unset}]
    /\ call \in [Calls -> Call \cup {Idle}]
    /\ everPaid \subseteq Appeals /\ waived \subseteq Appeals

Due == [status |-> "INITIATED", advised |-> FALSE, receipt |-> FALSE, transaction |-> Unset]

FeeInit ==
    /\ status = [p \in Appeals |-> "NO_ROW"]
    /\ payment = [p \in Appeals |-> Due]
    /\ waiveFees = FALSE
    /\ birms = [p \in Appeals |-> Unset]
    /\ call = [c \in Calls |-> Idle]
    /\ everPaid = {} /\ waived = {}

-----------------------------------------------------------------------------
(* Submission and waiver.                                                  *)

Submit(p) ==
    /\ status[p] = "NO_ROW"
    /\ status' = [status EXCEPT ![p] = IF waiveFees THEN "RELEASED" ELSE "SUBMITTED"]
    /\ payment' = [payment EXCEPT ![p].status = IF waiveFees THEN "WAIVED" ELSE "INITIATED"]
    /\ waived' = IF waiveFees THEN waived \cup {p} ELSE waived
    /\ UNCHANGED <<waiveFees, birmsVars, call>>

\* The fees a waiver reaches: an advice, or a transaction of any gateway, is left alone.
Awaiting ==
    {p \in Appeals : /\ status[p] = "SUBMITTED"
                     /\ payment[p].status \in {"INITIATED", "FAILED"}
                     /\ ~payment[p].advised /\ payment[p].transaction = Unset}

SetFeeWaiver(waive) ==
    LET P == IF waive THEN Awaiting ELSE {} IN
    /\ waiveFees' = waive
    /\ status' = [p \in Appeals |-> IF p \in P THEN "RELEASED" ELSE status[p]]
    /\ payment' = [p \in Appeals |-> IF p \in P THEN [payment[p] EXCEPT !.status = "WAIVED"]
                                     ELSE payment[p]]
    /\ waived' = waived \cup P
    /\ UNCHANGED <<birmsVars, call>>

-----------------------------------------------------------------------------
(* BIRMS.                                                                  *)

AdviceMoves(p, to) ==
    /\ <<birms[p], to>> \in BirmsMoves
    /\ birms' = [birms EXCEPT ![p] = to]
    /\ everPaid' = IF to = "PAID" THEN everPaid \cup {p} ELSE everPaid
    /\ UNCHANGED <<status, payment, waiveFees, call, waived>>

At(c, op, phase) == call[c] # Idle /\ call[c].op = op /\ call[c].phase = phase

\* BIRMS makes an advice, or tells how one stands and, if it is paid, perhaps a receipt.
BirmsAnswers(c) ==
    /\ \/ /\ At(c, "advice", "sent")
          /\ birms' = [birms EXCEPT ![call[c].of] = AdviceAfter(@)]
       \/ /\ At(c, "sync", "sent")
          /\ birms[call[c].of] # Unset
          /\ UNCHANGED birms
    /\ \E receipt \in {FALSE, birms'[call[c].of] = "PAID"} :
          call' = [call EXCEPT ![c].phase = "answered",
                               ![c].answer = [state |-> birms'[call[c].of], receipt |-> receipt]]
    /\ UNCHANGED <<status, payment, waiveFees, everPaid, waived>>

\* BIRMS refuses, its answer is lost after 15 seconds, a statement fails, or the process
\* stops.
CallStops(c) ==
    /\ call[c] # Idle
    /\ \/ /\ At(c, "advice", "sent")
          /\ birms' = [birms EXCEPT ![call[c].of] = AdviceAfter(@)]
       \/ UNCHANGED birms
    /\ call' = [call EXCEPT ![c] = Idle]
    /\ UNCHANGED <<status, payment, waiveFees, everPaid, waived>>

-----------------------------------------------------------------------------
(* createAdvice.                                                           *)

Begin(c, op, p, copy) ==
    /\ call[c] = Idle
    /\ call' = [call EXCEPT ![c] = [op |-> op, of |-> p, phase |-> "sent", answer |-> Nothing,
                                    copy |-> copy]]
    /\ UNCHANGED <<status, payment, waiveFees, birmsVars, waived>>

\* An advice that was given out before is given out again, without BIRMS.
BeginAdvice(c, p) ==
    /\ status[p] = "SUBMITTED"
    /\ payment[p].status \in {"INITIATED", "FAILED"}
    /\ ~payment[p].advised
    /\ Begin(c, "advice", p, payment[p])

\* Mutated form of MapStatus: what BIRMS calls a payment is not in the list.
MapStatusUnlisted(state) ==
    IF state \in {"FAILED", "CANCELLED", "REVERSED"} THEN "FAILED" ELSE "INITIATED"

\* Mutated form of MapStatus: what did not fail was paid.
MapStatusUnlessFailed(state) ==
    IF state \in {"FAILED", "CANCELLED", "REVERSED"} THEN "FAILED" ELSE "PAID"

MapStatus(state) ==
    CASE state = "PAID" -> "PAID"
      [] state \in {"FAILED", "CANCELLED", "REVERSED"} -> "FAILED"
      [] OTHER -> "INITIATED"

\* The payment as it was read before BIRMS was asked is saved, with what BIRMS answered.
SaveAdvice(c) ==
    /\ At(c, "advice", "answered")
    /\ payment' = [payment EXCEPT ![call[c].of] =
          [call[c].copy EXCEPT !.status = MapStatus(call[c].answer.state), !.advised = TRUE]]
    /\ call' = [call EXCEPT ![c] = Idle]
    /\ UNCHANGED <<status, waiveFees, birmsVars, waived>>

-----------------------------------------------------------------------------
(* synchronize, for a payer who asks (refresh) and for BIRMS, or anybody,  *)
(* who posts to the callback.                                              *)

BeginSync(c, p) == payment[p].advised /\ Begin(c, "sync", p, Nothing)

\* confirmPayment, in one SERIALIZABLE transaction, by which the appeal is released.
Confirmed(p, transaction) ==
    /\ status[p] = "SUBMITTED" /\ payment[p].status = "INITIATED"
    /\ status' = [status EXCEPT ![p] = "RELEASED"]
    /\ payment' = [payment EXCEPT ![p].status = "PAID", ![p].transaction = transaction]

\* ... and again by the same transaction, which changes nothing.
AlreadyConfirmed(p, transaction) ==
    /\ payment[p].status = "PAID" /\ payment[p].transaction = transaction
    /\ UNCHANGED <<status, payment>>

\* A payment BIRMS has as paid is confirmed first; if that is refused the call ends.
Confirm(c) ==
    LET p == call[c].of
        transaction == IF call[c].answer.receipt THEN "RECEIPT" ELSE "ADVICE"
    IN  /\ At(c, "sync", "answered")
        /\ MapStatus(call[c].answer.state) = "PAID"
        /\ Confirmed(p, transaction) \/ AlreadyConfirmed(p, transaction)
        /\ call' = [call EXCEPT ![c].phase = "confirmed"]
        /\ UNCHANGED <<waiveFees, birmsVars, waived>>

LoadForSync(c) ==
    /\ \/ At(c, "sync", "confirmed")
       \/ At(c, "sync", "answered") /\ MapStatus(call[c].answer.state) # "PAID"
    /\ call' = [call EXCEPT ![c].phase = "loaded", ![c].copy = payment[call[c].of]]
    /\ UNCHANGED <<status, payment, waiveFees, birmsVars, waived>>

SaveSync(c) ==
    /\ At(c, "sync", "loaded")
    /\ payment' = [payment EXCEPT ![call[c].of] =
          [call[c].copy EXCEPT !.status = MapStatus(call[c].answer.state), !.advised = TRUE,
                               !.receipt = @ \/ call[c].answer.receipt]]
    /\ call' = [call EXCEPT ![c] = Idle]
    /\ UNCHANGED <<status, waiveFees, birmsVars, waived>>

\* Another gateway confirms a payment with the internal secret.
GatewayConfirms(p) ==
    /\ Confirmed(p, "OTHER")
    /\ everPaid' = everPaid \cup {p}
    /\ UNCHANGED <<waiveFees, birms, call, waived>>

-----------------------------------------------------------------------------
FeeNext ==
    \/ \E p \in Appeals :
          \/ Submit(p)
          \/ GatewayConfirms(p)
          \/ \E to \in AdviceStates : AdviceMoves(p, to)
          \/ \E c \in Calls : BeginAdvice(c, p)
          \/ \E c \in Calls : BeginSync(c, p)
    \/ \E waive \in BOOLEAN : SetFeeWaiver(waive)
    \/ \E c \in Calls :
          \/ BirmsAnswers(c)
          \/ CallStops(c)
          \/ SaveAdvice(c)
          \/ Confirm(c)
          \/ LoadForSync(c)
          \/ SaveSync(c)

FeeSpec == FeeInit /\ [][FeeNext]_feeVars

\* A payer who has an advice keeps asking how it stands, and neither BIRMS nor the process
\* fails every time; a call to BIRMS does not outlast its timeout.
Fairness ==
    /\ \A c \in Calls : WF_feeVars(BirmsAnswers(c) \/ CallStops(c) \/ SaveAdvice(c))
    /\ \A p \in Appeals :
          /\ SF_feeVars(\E c \in Calls : BeginSync(c, p))
          /\ SF_feeVars(\E c \in Calls : At(c, "sync", "sent") /\ call[c].of = p /\ BirmsAnswers(c))
          /\ SF_feeVars(\E c \in Calls : At(c, "sync", "answered") /\ call[c].of = p /\ Confirm(c))

FairSpec == FeeSpec /\ Fairness

-----------------------------------------------------------------------------
(* Properties.                                                             *)

\* However advices, refreshes, callbacks and waivers overlap, and whatever copies of the
\* payment they write back: no appeal reaches the committee before its fee was paid or
\* waived, and a payment is PAID or has a receipt only if it was paid.
AppealFeesAreSettled ==
    \A p \in Appeals :
        /\ status[p] = "RELEASED" => p \in everPaid \cup waived
        /\ payment[p].status = "PAID" \/ payment[p].receipt => p \in everPaid
        /\ payment[p].status = "WAIVED" => p \in waived

Billed(p) == payment[p].advised /\ status[p] = "SUBMITTED"

\* A payer with an advice whose fee BIRMS has as paid for good gets the appeal to the
\* committee, unless the payment's row has come to say FAILED, or PAID, without it.
PaidFeesAreReleased ==
    \A p \in Appeals :
        [](Billed(p) /\ [](birms[p] = "PAID") =>
            <>(status[p] = "RELEASED" \/ payment[p].status \in {"FAILED", "PAID"}))

\* With all its copies and calls the service behaves as the desk of FeeDesk, where a fee is
\* settled by what BIRMS, another gateway or the administrator did, not by what a payment's
\* row says.
Desk == INSTANCE FeeDesk WITH
    desk <- status,
    settled <- everPaid \cup waived
ImplementsFeeDesk == Desk!Spec
=============================================================================
