------------------------- MODULE RegistrationPayment -------------------------
(***************************************************************************)
(* Payment of the registration fee (birms-payment.service.ts), manual      *)
(* entry of a payment and attendance (registration.service.ts), on the     *)
(* columns of one row of applications.                                     *)
(*                                                                         *)
(* Every BIRMS operation reads the row, waits for BIRMS and then writes.   *)
(* A call is therefore several actions: its beginning, the instant at      *)
(* which BIRMS acts on the request, and its transactions.  A refresh, a    *)
(* callback and a reversal load the row again without a lock and save it,  *)
(* and a reversal that BIRMS confirms does so once more; a cancellation    *)
(* saves the copy it read at its beginning; attendance loads the row under *)
(* an advisory lock nobody else takes.  Saving an entity writes every      *)
(* column in which it differs from the stored row.                         *)
(*                                                                         *)
(* BIRMS is external: it knows an advice by the application's reference    *)
(* number and moves it as payers and banks do.  A request that is refused, *)
(* lost or timed out ends its call, before or after BIRMS acted on it.     *)
(***************************************************************************)
EXTENDS DstsNumbers, Birms

CONSTANT
    Calls               \* bound: the requests of a behaviour

ASSUME CallsAssumption == None \notin Numbers \cup Calls

VARIABLES
    row,                \* applications: the columns this module's handlers write
    attendance,         \* attendance.overallStatus
    birms,              \* BIRMS: the state of the advice of each reference number
    call,               \* how far each of Calls has come
    everPaid,           \* history: BIRMS reported the application paid
    staffSaid           \* history: the final statuses staff recorded, or a fee of 0

birmsVars == <<birms, everPaid>>
vars == <<numberVars, row, attendance, birms, call, everPaid, staffSaid>>

NoRow == "NO_ROW"
Statuses == {"UNDER_REVIEW", "VERIFIED", "ABSENT"}
PaymentStatuses == {"INITIATED", "PAID", "FAILED", "CANCELLED", "REVERSED", "WAIVED"}
References == {"BIRMS", "STAFF"}

ASSUME AdviceAssumption == None \notin AdviceStates

Row == [status : Statuses, registrationNumber : Numbers \cup {None},
        paymentStatus : PaymentStatuses, paymentReference : References \cup {None},
        advised : BOOLEAN,      \* paymentAdviceNo is set
        redirect : BOOLEAN,     \* paymentRedirectUrl is set
        receipt : BOOLEAN]      \* paymentReceiptNo is set

Syncs == {"refresh", "callback", "reversal"}
Operations == Syncs \cup {"advice", "cancel", "attendance"}

\* copy is the entity the call will save; receiptRead is whether the entity a callback
\* read at its beginning had a receipt; answer is what BIRMS said of the advice.
NotBegun == [op |-> "none"]
Done == [op |-> "done"]
Call == [op : Operations, of : Applications, copy : Row \cup {None}, receiptRead : BOOLEAN,
         phase : {"sent", "answered", "loaded", "synchronized", "reloaded"},
         answer : AdviceStates \cup {None}]

InFlight(c) == call[c] \notin {NotBegun, Done}

TypeOK ==
    /\ NumbersTypeOK
    /\ row \in [Applications -> Row]
    /\ attendance \in [Applications -> {NoRow, "PRESENT", "ABSENT"}]
    /\ birms \in [Applications -> AdviceStates \cup {None}]
    /\ call \in [Calls -> Call \cup {NotBegun, Done}]
    /\ everPaid \subseteq Applications
    /\ staffSaid \in [Applications -> SUBSET {"PAID", "WAIVED"}]

\* Submitted, paid for or free of charge, and under review.
Init ==
    /\ NumbersInit
    /\ row \in [Applications ->
                  [status : {"UNDER_REVIEW"}, registrationNumber : {None},
                   paymentStatus : {"INITIATED", "WAIVED"}, paymentReference : {None},
                   advised : {FALSE}, redirect : {FALSE}, receipt : {FALSE}]]
    /\ attendance = [a \in Applications |-> NoRow]
    /\ birms = [a \in Applications |-> None]
    /\ call = [c \in Calls |-> NotBegun]
    /\ everPaid = {}
    /\ staffSaid = [a \in Applications |-> {row[a].paymentStatus} \cap {"WAIVED"}]

-----------------------------------------------------------------------------
(* BIRMS.                                                                  *)

AdviceMoves(a, to) ==
    /\ <<birms[a], to>> \in BirmsMoves
    /\ birms' = [birms EXCEPT ![a] = to]
    /\ everPaid' = IF to = "PAID" THEN everPaid \cup {a} ELSE everPaid
    /\ UNCHANGED <<numberVars, row, attendance, call, staffSaid>>

\* BIRMS acts on the request of c and its answer reaches the service; or it is lost.
Answered(c, answer) ==
    \/ call' = [call EXCEPT ![c].phase = "answered", ![c].answer = answer]
    \/ call' = [call EXCEPT ![c] = Done]

BirmsAnswers(c) ==
    LET a == call[c].of IN
    /\ InFlight(c) /\ call[c].phase = "sent"
    /\ \/ /\ call[c].op = "advice"
          /\ birms' = [birms EXCEPT ![a] = AdviceAfter(@)]
       \/ /\ call[c].op = "cancel"
          /\ birms[a] = "PENDING"
          /\ birms' = [birms EXCEPT ![a] = "CANCELLED"]
       \/ /\ call[c].op \in Syncs
          /\ birms[a] # None
          /\ UNCHANGED birms
    /\ Answered(c, birms'[a])
    /\ UNCHANGED <<numberVars, row, attendance, everPaid, staffSaid>>

\* BIRMS refuses the request of c, or never gets it.
BirmsFails(c) ==
    /\ InFlight(c) /\ call[c].phase = "sent"
    /\ call' = [call EXCEPT ![c] = Done]
    /\ UNCHANGED <<numberVars, row, attendance, birmsVars, staffSaid>>

-----------------------------------------------------------------------------
(* The calls begin: the row is read, the conditions on it are checked and  *)
(* the request is sent.                                                    *)

Begin(c, op, a) ==
    /\ call[c] = NotBegun
    /\ call' = [call EXCEPT ![c] = [op |-> op, of |-> a,
                                    copy |-> IF op \in {"cancel", "attendance"} THEN row[a] ELSE None,
                                    receiptRead |-> op = "callback" /\ row[a].receipt,
                                    phase |-> IF op = "attendance" THEN "loaded" ELSE "sent",
                                    answer |-> None]]
    /\ UNCHANGED <<numberVars, row, attendance, birmsVars, staffSaid>>

\* An advice that still has its redirect is given out again, without BIRMS.
AdviceStillGood(r) ==
    r.advised /\ r.redirect /\ r.paymentStatus \in {"INITIATED", "FAILED", "REVERSED"}

BeginAdvice(c, a) ==
    /\ row[a].paymentStatus \notin {"WAIVED", "PAID"}
    /\ row[a].status = "VERIFIED"
    /\ ~AdviceStillGood(row[a])
    /\ Begin(c, "advice", a)

BeginRefresh(c, a) ==
    /\ row[a].paymentReference # None
    /\ Begin(c, "refresh", a)

BeginCancel(c, a) ==
    /\ row[a].advised
    /\ row[a].paymentStatus = "INITIATED"
    /\ Begin(c, "cancel", a)

\* Mutated form of BeginCallback: the payload is believed.
CallbackBelieved(c, a) ==
    /\ row[a].paymentReference = "BIRMS"
    /\ call[c] = NotBegun
    /\ row' = [row EXCEPT ![a].paymentStatus = "PAID"]
    /\ UNCHANGED <<numberVars, attendance, birmsVars, call, staffSaid>>

\* BIRMS, or anybody, posts to the callback or the reversal endpoint: the row is found
\* by the reference or by the receipt number.
BeginCallback(c, a) ==
    /\ row[a].paymentReference = "BIRMS"
    /\ Begin(c, "callback", a)

BeginReversal(c, a) ==
    /\ row[a].receipt
    /\ Begin(c, "reversal", a)

\* markAttendance reads the row under the advisory lock of its application.
BeginAbsent(c, a) ==
    /\ row[a].status = "VERIFIED"
    /\ \A d \in Calls : InFlight(d) => ~(call[d].op = "attendance" /\ call[d].of = a)
    /\ Begin(c, "attendance", a)

-----------------------------------------------------------------------------
(* The calls end.                                                          *)

\* mapStatus: what is not known to be something else is INITIATED.
MapStatus(state) == IF state = "PENDING" THEN "INITIATED" ELSE state

Holds(c, op, phase) == InFlight(c) /\ call[c].op = op /\ call[c].phase = phase

\* The registration number is UNIQUE: a copy that brings back a number somebody else
\* has by now is not saved.
MaySave(a, r) ==
    r.registrationNumber # None =>
        \A b \in Applications \ {a} : row[b].registrationNumber # r.registrationNumber

\* createAdvice writes the payment columns of the locked row.
FinishAdvice(c) ==
    LET a == call[c].of IN
    /\ Holds(c, "advice", "answered")
    /\ row' = [row EXCEPT ![a].paymentStatus = MapStatus(call[c].answer),
                          ![a].paymentReference = "BIRMS",
                          ![a].advised = TRUE, ![a].redirect = TRUE]
    /\ call' = [call EXCEPT ![c] = Done]
    /\ UNCHANGED <<numberVars, attendance, birmsVars, staffSaid>>

\* cancel saves the copy it read before it asked BIRMS.
FinishCancel(c) ==
    LET a == call[c].of
        r == [call[c].copy EXCEPT !.paymentStatus = "CANCELLED", !.redirect = FALSE] IN
    /\ Holds(c, "cancel", "answered")
    /\ row' = IF MaySave(a, r) THEN [row EXCEPT ![a] = r] ELSE row
    /\ call' = [call EXCEPT ![c] = Done]
    /\ UNCHANGED <<numberVars, attendance, birmsVars, staffSaid>>

\* synchronize loads the row without a lock ...
LoadForSync(c) ==
    /\ InFlight(c) /\ call[c].op \in Syncs /\ call[c].phase = "answered"
    /\ call' = [call EXCEPT ![c].phase = "loaded", ![c].copy = row[call[c].of]]
    /\ UNCHANGED <<numberVars, row, attendance, birmsVars, staffSaid>>

\* An advice that is open again after it was paid was reversed.
SynchronizedStatus(previous, state) ==
    IF previous = "PAID" /\ MapStatus(state) = "INITIATED" THEN "REVERSED" ELSE MapStatus(state)

\* The synchronized statuses with which an operation goes on after synchronize.
GoesOnWith(op) ==
    IF op = "callback" THEN {"PAID"} ELSE IF op = "reversal" THEN {"REVERSED", "CANCELLED"} ELSE {}

\* ... and saves it.  BIRMS may name the receipt of a payment.
SaveSync(c) ==
    LET a == call[c].of
        copy == call[c].copy
        synced(receipt) ==
            [copy EXCEPT !.paymentStatus = SynchronizedStatus(@, call[c].answer),
                         !.advised = TRUE,
                         !.receipt = @ \/ receipt] IN
    /\ InFlight(c) /\ call[c].op \in Syncs /\ call[c].phase = "loaded"
    /\ \E receipt \in {FALSE, call[c].answer = "PAID"} :
          IF MaySave(a, copy)
          THEN /\ row' = [row EXCEPT ![a] = synced(receipt)]
               /\ call' = [call EXCEPT ![c] =
                     IF synced(receipt).paymentStatus \in GoesOnWith(call[c].op)
                     THEN [@ EXCEPT !.phase = "synchronized", !.copy = None, !.answer = None]
                     ELSE Done]
          ELSE call' = [call EXCEPT ![c] = Done] /\ UNCHANGED row
    /\ UNCHANGED <<numberVars, attendance, birmsVars, staffSaid>>

\* After that a callback stores the receipt of its payload, or else the one it read at
\* its beginning.
FinishCallback(c) ==
    LET a == call[c].of IN
    /\ Holds(c, "callback", "synchronized")
    /\ \E named \in BOOLEAN : row' = [row EXCEPT ![a].receipt = named \/ call[c].receiptRead]
    /\ call' = [call EXCEPT ![c] = Done]
    /\ UNCHANGED <<numberVars, attendance, birmsVars, staffSaid>>

\* After it a reversal loads the row without a lock once more ...
LoadForReversal(c) ==
    /\ Holds(c, "reversal", "synchronized")
    /\ call' = [call EXCEPT ![c].phase = "reloaded", ![c].copy = row[call[c].of]]
    /\ UNCHANGED <<numberVars, row, attendance, birmsVars, staffSaid>>

\* ... and saves it with the details of the reversal, which no other column depends on.
SaveReversal(c) ==
    LET a == call[c].of
        copy == call[c].copy IN
    /\ Holds(c, "reversal", "reloaded")
    /\ row' = IF MaySave(a, copy) THEN [row EXCEPT ![a] = copy] ELSE row
    /\ call' = [call EXCEPT ![c] = Done]
    /\ UNCHANGED <<numberVars, attendance, birmsVars, staffSaid>>

\* Mutated form of GiveUpNumber: the slot stays taken.
GiveUpNumberColumnOnly(a) == UNCHANGED <<nextSequence, slot>>

GiveUpNumber(a) == ReleaseDstsNumber(a)

\* An absence releases the slot and saves the copy without its number.
FinishAbsent(c) ==
    LET a == call[c].of
        r == [call[c].copy EXCEPT !.status = "ABSENT",
                                  !.registrationNumber = IF OwnsNumber(a) THEN None ELSE @] IN
    /\ Holds(c, "attendance", "loaded")
    /\ MaySave(a, r)
    /\ GiveUpNumber(a)
    /\ row' = [row EXCEPT ![a] = r]
    /\ attendance' = [attendance EXCEPT ![a] = "ABSENT"]
    /\ call' = [call EXCEPT ![c] = Done]
    /\ UNCHANGED <<year, birmsVars, staffSaid>>

-----------------------------------------------------------------------------
(* Handlers that lock the row.                                             *)

MarkPresent(a) ==
    /\ row[a].status = "VERIFIED"
    /\ \A d \in Calls : InFlight(d) => ~(call[d].op = "attendance" /\ call[d].of = a)
    /\ attendance' = [attendance EXCEPT ![a] = "PRESENT"]
    /\ UNCHANGED <<numberVars, row, birmsVars, call, staffSaid>>

Verify(a, n) ==
    LET r == [row[a] EXCEPT !.status = "VERIFIED", !.registrationNumber = n] IN
    /\ row[a].status = "UNDER_REVIEW"
    /\ AllocateDstsNumber(a, n)
    /\ MaySave(a, r)
    /\ row' = [row EXCEPT ![a] = r]
    /\ UNCHANGED <<year, attendance, birmsVars, call, staffSaid>>

\* recordPayment: a payment over the counter names a reference, a waiver may.
RecordPayment(a, final, reference) ==
    /\ row[a].paymentStatus \notin {"PAID", "WAIVED"}
    /\ final = "PAID" => reference = "STAFF"
    /\ row' = [row EXCEPT ![a].paymentStatus = final, ![a].paymentReference = reference]
    /\ staffSaid' = [staffSaid EXCEPT ![a] = @ \cup {final}]
    /\ UNCHANGED <<numberVars, attendance, birmsVars, call>>

-----------------------------------------------------------------------------
CallStep(c) ==
    \/ \E a \in Applications :
          \/ BeginAdvice(c, a)
          \/ BeginRefresh(c, a)
          \/ BeginCancel(c, a)
          \/ BeginCallback(c, a)
          \/ BeginReversal(c, a)
          \/ BeginAbsent(c, a)
    \/ BirmsAnswers(c)
    \/ BirmsFails(c)
    \/ FinishAdvice(c)
    \/ FinishCancel(c)
    \/ LoadForSync(c)
    \/ SaveSync(c)
    \/ FinishCallback(c)
    \/ LoadForReversal(c)
    \/ SaveReversal(c)
    \/ FinishAbsent(c)

ApplicationStep(a) ==
    \/ \E to \in AdviceStates : AdviceMoves(a, to)
    \/ MarkPresent(a)
    \/ \E n \in Numbers : Verify(a, n)
    \/ \E final \in {"PAID", "WAIVED"}, reference \in {"STAFF", None} :
            RecordPayment(a, final, reference)

Next ==
    \/ \E c \in Calls : CallStep(c)
    \/ \E a \in Applications : ApplicationStep(a)

Spec == Init /\ [][Next]_vars

-----------------------------------------------------------------------------
(* Properties.                                                             *)

\* However calls overlap, whatever they write back and whoever posts to the callback: a
\* fee is PAID, or has a receipt, only if BIRMS had it as paid or staff took it, and
\* WAIVED only if staff waived it or there was none.
PaymentsAreConfirmed ==
    \A a \in Applications :
        /\ row[a].paymentStatus = "PAID" => a \in everPaid \/ "PAID" \in staffSaid[a]
        /\ row[a].paymentStatus = "WAIVED" => "WAIVED" \in staffSaid[a]
        /\ row[a].receipt => a \in everPaid

\* Whatever copies of rows are written back, the application that owns a slot shows its
\* number: no slot is lost to an application that does not know it.
OwnedNumberIsShown ==
    \A a \in Applications, n \in Numbers : slot[n] = a => row[a].registrationNumber = n
=============================================================================
