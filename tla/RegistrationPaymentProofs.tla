----------------------- MODULE RegistrationPaymentProofs -----------------------
(***************************************************************************)
(* Theorems about RegistrationPayment, for any applications, years, number *)
(* of sequences and calls in flight.                                       *)
(***************************************************************************)
EXTENDS RegistrationPayment, TLAPS

-----------------------------------------------------------------------------
(* The inductive invariant.                                                *)

\* What row r says of the payment of a is known to be so.
Confirmed(a, r) ==
    /\ r.paymentStatus = "PAID" => a \in everPaid \/ "PAID" \in staffSaid[a]
    /\ r.paymentStatus = "WAIVED" => "WAIVED" \in staffSaid[a]
    /\ r.receipt => a \in everPaid

\* Row r shows every number that a owns.
Shows(a, r) == \A n \in Numbers : slot[n] = a => r.registrationNumber = n

UnderReview(a) == row[a].status = "UNDER_REVIEW"

\* An application that is under review has neither number nor advice.
RowInOrder(a) ==
    /\ Confirmed(a, row[a])
    /\ Shows(a, row[a])
    /\ UnderReview(a) => ~OwnsNumber(a) /\ birms[a] = None /\ ~row[a].advised
    /\ birms[a] = "PAID" => a \in everPaid

\* A copy that will be saved is one of a row that was verified, and no older than that.
CopyInOrder(a, r) ==
    /\ r.status # "UNDER_REVIEW"
    /\ Confirmed(a, r)
    /\ Shows(a, r)

\* A cancellation and an absence hold a copy from their beginning, others once they have
\* loaded it.
HasCopy(k) == k.op \in {"cancel", "attendance"} \/ k.phase \in {"loaded", "reloaded"}

CallInOrder(c) ==
    InFlight(c) =>
        LET k == call[c] IN
        /\ HasCopy(k) => k.copy \in Row /\ CopyInOrder(k.of, k.copy) /\ ~UnderReview(k.of)
        /\ k.op = "advice" \/ k.phase \in {"answered", "synchronized"} => ~UnderReview(k.of)
        /\ k.op # "attendance" /\ k.phase \in {"answered", "loaded"} => k.answer \in AdviceStates
        /\ k.answer = "PAID" \/ k.receiptRead => k.of \in everPaid
        /\ k.op = "callback" /\ k.phase = "synchronized" => k.of \in everPaid

IInv ==
    /\ TypeOK
    /\ \A a \in Applications : RowInOrder(a)
    /\ \A c \in Calls : CallInOrder(c)

-----------------------------------------------------------------------------
(* What steps never take back.                                             *)

Progress ==
    /\ everPaid \subseteq everPaid'
    /\ \A a \in Applications :
          /\ staffSaid[a] \subseteq staffSaid'[a]
          /\ ~UnderReview(a) => ~UnderReview(a)'
          /\ \A n \in Numbers : slot'[n] = a => slot[n] = a \/ UnderReview(a)

\* Then what a row or a copy says stays true.
LEMMA ConfirmedStays ==
    ASSUME Progress, NEW a \in Applications, NEW r, Confirmed(a, r)
    PROVE  Confirmed(a, r)'
  BY DEF Progress, Confirmed

\* A copy stays in order, unless its application is still under review.
LEMMA CopyStays ==
    ASSUME Progress, NEW a \in Applications, NEW r, CopyInOrder(a, r), ~UnderReview(a)
    PROVE  CopyInOrder(a, r)'
  BY ConfirmedStays DEF Progress, CopyInOrder, Shows

\* So does a call that the step is not about.
LEMMA CallStays ==
    ASSUME TypeOK, Progress, NEW c \in Calls, CallInOrder(c), call'[c] = call[c]
    PROVE  CallInOrder(c)'
  <1> SUFFICES ASSUME InFlight(c)
               PROVE  CallInOrder(c)'
    BY DEF CallInOrder, InFlight
  <1>1. call[c] \in Call /\ call[c].of \in Applications
    BY DEF TypeOK, InFlight, Call
  <1> DEFINE k == call[c]
  <1>2. HasCopy(k) => CopyInOrder(k.of, k.copy)' /\ ~UnderReview(k.of)'
    BY <1>1, CopyStays DEF CallInOrder, Progress
  <1>3. k.op = "advice" \/ k.phase \in {"answered", "synchronized"} => ~UnderReview(k.of)'
    BY <1>1 DEF CallInOrder, Progress
  <1> QED
    BY <1>1, <1>2, <1>3
       DEF CallInOrder, Progress, CopyInOrder, Confirmed, Shows, UnderReview, HasCopy

\* And so does the row of another application.
LEMMA RowStays ==
    ASSUME Progress, NEW a \in Applications, RowInOrder(a), row'[a] = row[a], birms'[a] = birms[a],
           \A n \in Numbers : slot'[n] = a => slot[n] = a
    PROVE  RowInOrder(a)'
  BY ConfirmedStays DEF Progress, RowInOrder, Confirmed, Shows, OwnsNumber, UnderReview

\* What the conjuncts of the invariant need of a step.
LEMMA StepFrame ==
    ASSUME IInv, Progress, TypeOK', \A a \in Applications : RowInOrder(a)',
           \A c \in Calls : call'[c] = call[c] \/ CallInOrder(c)'
    PROVE  IInv'
  BY CallStays DEF IInv

CallTypes == Call \cup {NotBegun, Done}

\* A call that is over has nothing to keep.
LEMMA OverIsInOrder ==
    ASSUME NEW c \in Calls, call'[c] = Done
    PROVE  CallInOrder(c)'
  BY DEF CallInOrder, InFlight

\* Steps of a call that change nothing else.
LEMMA CallFrame ==
    ASSUME IInv, NEW c \in Calls, NEW k \in CallTypes, call' = [call EXCEPT ![c] = k],
           k = Done \/ CallInOrder(c)',
           UNCHANGED <<numberVars, row, attendance, birmsVars, staffSaid>>
    PROVE  IInv'
  <1>1. /\ year' = year /\ nextSequence' = nextSequence /\ slot' = slot
        /\ row' = row /\ attendance' = attendance /\ birms' = birms
        /\ everPaid' = everPaid /\ staffSaid' = staffSaid
    BY DEF numberVars, birmsVars
  <1>2. Progress
    BY <1>1 DEF Progress, UnderReview
  <1>3. TypeOK'
    BY <1>1 DEF IInv, TypeOK, NumbersTypeOK, CallTypes
  <1>4. \A a \in Applications : RowInOrder(a)'
    BY <1>1, <1>2, RowStays DEF IInv
  <1>5. \A d \in Calls \ {c} : call'[d] = call[d]
    OBVIOUS
  <1>6. CallInOrder(c)'
    BY OverIsInOrder DEF IInv, TypeOK
  <1> QED
    BY <1>2, <1>3, <1>4, <1>5, <1>6, StepFrame

\* Steps of a call that save a row.
LEMMA SaveFrame ==
    ASSUME IInv, NEW c \in Calls, NEW k \in CallTypes, call' = [call EXCEPT ![c] = k],
           k = Done \/ CallInOrder(c)',
           NEW a \in Applications, NEW r \in Row, row' = [row EXCEPT ![a] = r],
           CopyInOrder(a, r), ~UnderReview(a),
           UNCHANGED <<numberVars, attendance, birmsVars, staffSaid>>
    PROVE  IInv'
  <1>1. /\ year' = year /\ nextSequence' = nextSequence /\ slot' = slot
        /\ attendance' = attendance /\ birms' = birms
        /\ everPaid' = everPaid /\ staffSaid' = staffSaid
    BY DEF numberVars, birmsVars
  <1>2. /\ row' \in [Applications -> Row] /\ row'[a] = r
        /\ \A b \in Applications \ {a} : row'[b] = row[b]
    BY DEF IInv, TypeOK
  <1>3. Progress
    BY <1>1, <1>2 DEF Progress, UnderReview, CopyInOrder
  <1>4. TypeOK'
    BY <1>1, <1>2 DEF IInv, TypeOK, NumbersTypeOK, CallTypes
  <1>5. \A b \in Applications \ {a} : RowInOrder(b)'
    BY <1>1, <1>2, <1>3, RowStays DEF IInv
  <1>6. RowInOrder(a)'
    BY <1>1, <1>2 DEF RowInOrder, CopyInOrder, Confirmed, Shows, UnderReview, IInv
  <1>7. \A d \in Calls \ {c} : call'[d] = call[d]
    OBVIOUS
  <1>8. CallInOrder(c)'
    BY OverIsInOrder DEF IInv, TypeOK
  <1> QED
    BY <1>3, <1>4, <1>5, <1>6, <1>7, <1>8, StepFrame

-----------------------------------------------------------------------------
(* The calls.                                                              *)

\* A call in flight is a record of a known kind.
LEMMA FlightsAreCalls ==
    ASSUME IInv, NEW c \in Calls, InFlight(c)
    PROVE  call[c] \in Call /\ call[c].of \in Applications /\ CallInOrder(c)
  BY DEF IInv, TypeOK, InFlight, Call

\* A call begins with a copy of a row that was verified, or with none.
LEMMA BeginKeeps ==
    ASSUME IInv, NEW c \in Calls, NEW op \in Operations, NEW a \in Applications, Begin(c, op, a),
           op \in {"advice", "cancel", "attendance"} => ~UnderReview(a)
    PROVE  IInv'
  <1> DEFINE k == [op |-> op, of |-> a,
                   copy |-> IF op \in {"cancel", "attendance"} THEN row[a] ELSE None,
                   receiptRead |-> op = "callback" /\ row[a].receipt,
                   phase |-> IF op = "attendance" THEN "loaded" ELSE "sent",
                   answer |-> None]
  <1>1. row[a] \in Row /\ RowInOrder(a)
    BY DEF IInv, TypeOK
  <1>2. k \in Call
    BY <1>1 DEF Call, Operations, Syncs, Row
  <1>3. call' = [call EXCEPT ![c] = k]
    BY DEF Begin
  <1>4. call'[c] = k
    BY <1>3 DEF IInv, TypeOK
  <1>5. /\ slot' = slot /\ row' = row /\ everPaid' = everPaid /\ staffSaid' = staffSaid
    BY DEF Begin, numberVars, birmsVars
  <1>6. /\ k.op = op /\ k.of = a /\ k.answer = None /\ (k.receiptRead => row[a].receipt)
        /\ op = "attendance" => k.phase = "loaded"
        /\ op # "attendance" => k.phase = "sent"
        /\ op \in {"cancel", "attendance"} => k.copy = row[a]
    OBVIOUS
  <1> HIDE DEF k
  <1>7. HasCopy(k) => op \in {"cancel", "attendance"}
    BY <1>6 DEF HasCopy
  <1>8. ~UnderReview(a) => CopyInOrder(a, row[a])'
    BY <1>1, <1>5 DEF CopyInOrder, RowInOrder, Confirmed, Shows, UnderReview
  <1>9. k.receiptRead => a \in everPaid
    BY <1>1, <1>6 DEF RowInOrder, Confirmed
  <1>10. CallInOrder(c)'
    BY <1>1, <1>4, <1>5, <1>6, <1>7, <1>8, <1>9, AdviceAssumption
       DEF CallInOrder, UnderReview, AdviceStates, CopyInOrder, Confirmed, Shows
  <1> QED
    BY <1>2, <1>3, <1>10, CallFrame DEF Begin, CallTypes

\* The handlers that begin.
LEMMA BeginningsKeep ==
    ASSUME IInv, NEW c \in Calls, NEW a \in Applications,
           \/ BeginAdvice(c, a) \/ BeginRefresh(c, a) \/ BeginCancel(c, a)
           \/ BeginCallback(c, a) \/ BeginReversal(c, a) \/ BeginAbsent(c, a)
    PROVE  IInv'
  <1>1. UnderReview(a) => ~row[a].advised
    BY DEF IInv, RowInOrder
  <1> QED
    BY <1>1, BeginKeeps
       DEF BeginAdvice, BeginRefresh, BeginCancel, BeginCallback, BeginReversal,
                            BeginAbsent, Operations, Syncs, UnderReview

\* The call ends without a trace.
LEMMA FailuresKeep ==
    ASSUME IInv, NEW c \in Calls, BirmsFails(c)
    PROVE  IInv'
  BY CallFrame DEF BirmsFails, CallTypes

\* The copy that synchronize and then a reversal load is one of a row that was verified.
LEMMA LoadsKeep ==
    ASSUME IInv, NEW c \in Calls, LoadForSync(c) \/ LoadForReversal(c)
    PROVE  IInv'
  <1> DEFINE a == call[c].of
             phase == IF call[c].phase = "answered" THEN "loaded" ELSE "reloaded"
             k == [call[c] EXCEPT !.phase = phase, !.copy = row[a]]
  <1>1. /\ call[c] \in Call /\ a \in Applications /\ CallInOrder(c) /\ InFlight(c)
        /\ call[c].phase \in {"answered", "synchronized"} /\ call[c].op \in Syncs
        /\ phase \in {"loaded", "reloaded"} /\ (phase = "loaded" => call[c].phase = "answered")
    BY FlightsAreCalls DEF LoadForSync, LoadForReversal, Holds, Syncs
  <1>2. row[a] \in Row /\ RowInOrder(a) /\ ~UnderReview(a)
    BY <1>1 DEF IInv, TypeOK, CallInOrder
  <1>3. /\ k \in Call /\ k.of = a /\ k.phase = phase /\ k.copy = row[a] /\ k.op = call[c].op
        /\ k.answer = call[c].answer /\ k.receiptRead = call[c].receiptRead
    BY <1>1, <1>2 DEF Call
  <1>4. call' = [call EXCEPT ![c] = k]
    BY <1>1 DEF LoadForSync, LoadForReversal, Holds, IInv, TypeOK
  <1>5. /\ slot' = slot /\ row' = row /\ everPaid' = everPaid /\ staffSaid' = staffSaid
    BY DEF LoadForSync, LoadForReversal, numberVars, birmsVars
  <1>6. CopyInOrder(a, row[a]) /\ call[c].op # "attendance"
    BY <1>1, <1>2 DEF CopyInOrder, RowInOrder, UnderReview, Syncs
  <1>7. PICK b \in Applications : b = a
    BY <1>1
  <1> HIDE DEF k, a, phase
  <1>8. call'[c] = k
    BY <1>4 DEF IInv, TypeOK
  <1>9. CopyInOrder(b, row[b])' /\ ~UnderReview(b)'
    BY <1>2, <1>5, <1>6, <1>7 DEF CopyInOrder, Confirmed, Shows, UnderReview
  <1>10. /\ phase = "loaded" => k.answer \in AdviceStates
         /\ k.answer = "PAID" \/ k.receiptRead => b \in everPaid
    BY <1>1, <1>3, <1>6, <1>7 DEF CallInOrder, a
  <1>11. CallInOrder(c)'
    BY <1>1, <1>2, <1>3, <1>5, <1>7, <1>8, <1>9, <1>10
       DEF CallInOrder, UnderReview, CopyInOrder, Confirmed, Shows
  <1> QED
    BY <1>3, <1>4, <1>11, CallFrame DEF LoadForSync, LoadForReversal, CallTypes

-----------------------------------------------------------------------------
(* Rows that are saved.                                                    *)

\* Rows that are like a typed one but for the columns of a payment.
LEMMA RowsAreTyped ==
    ASSUME NEW r \in Row, NEW p \in PaymentStatuses, NEW f \in References \cup {None},
           NEW x \in BOOLEAN, NEW y \in BOOLEAN
    PROVE  /\ [r EXCEPT !.paymentStatus = p] \in Row
           /\ [r EXCEPT !.paymentReference = f] \in Row
           /\ [r EXCEPT !.advised = x] \in Row
           /\ [r EXCEPT !.redirect = x] \in Row
           /\ [r EXCEPT !.receipt = x] \in Row
           /\ [r EXCEPT !.paymentStatus = p, !.redirect = x] \in Row
           /\ [r EXCEPT !.paymentStatus = p, !.paymentReference = f] \in Row
  <1> USE DEF Row
  <1>1. [r EXCEPT !.paymentStatus = p] \in Row
    OBVIOUS
  <1>2. [r EXCEPT !.paymentReference = f] \in Row
    OBVIOUS
  <1>3. [r EXCEPT !.advised = x] \in Row /\ [r EXCEPT !.redirect = x] \in Row
    OBVIOUS
  <1>4. [r EXCEPT !.receipt = x] \in Row
    OBVIOUS
  <1>5. [r EXCEPT !.paymentStatus = p, !.redirect = x] \in Row
    OBVIOUS
  <1>6. [r EXCEPT !.paymentStatus = p, !.paymentReference = f] \in Row
    OBVIOUS
  <1> QED
    BY <1>1, <1>2, <1>3, <1>4, <1>5, <1>6

\* What BIRMS says maps to a payment status, and only a payment maps to PAID.
LEMMA StatusesAreMapped ==
    ASSUME NEW state \in AdviceStates, NEW previous
    PROVE  /\ MapStatus(state) \in PaymentStatuses \ {"WAIVED"}
           /\ MapStatus(state) = "PAID" <=> state = "PAID"
           /\ SynchronizedStatus(previous, state) \in PaymentStatuses \ {"WAIVED"}
           /\ SynchronizedStatus(previous, state) = "PAID" <=> state = "PAID"
  BY DEF MapStatus, SynchronizedStatus, AdviceStates, PaymentStatuses

\* createAdvice writes what BIRMS answered to a row that was verified.
LEMMA AdvicesKeep ==
    ASSUME IInv, NEW c \in Calls, FinishAdvice(c)
    PROVE  IInv'
  <1> DEFINE a == call[c].of
             p == MapStatus(call[c].answer)
             r1 == [row[a] EXCEPT !.paymentStatus = p, !.paymentReference = "BIRMS"]
             r2 == [r1 EXCEPT !.advised = TRUE]
             r3 == [r2 EXCEPT !.redirect = TRUE]
  <1>1. /\ call[c] \in Call /\ a \in Applications /\ CallInOrder(c) /\ InFlight(c)
        /\ call[c].phase = "answered" /\ call[c].op = "advice"
    BY FlightsAreCalls DEF FinishAdvice, Holds
  <1>2. /\ row[a] \in Row /\ RowInOrder(a) /\ ~UnderReview(a)
        /\ call[c].answer \in AdviceStates /\ (call[c].answer = "PAID" => a \in everPaid)
    BY <1>1 DEF IInv, TypeOK, CallInOrder
  <1>3. p \in PaymentStatuses /\ p # "WAIVED" /\ (p = "PAID" => a \in everPaid)
    BY <1>2, StatusesAreMapped
  <1> HIDE DEF p
  <1>4. /\ r1 \in Row /\ r1.paymentStatus = p /\ r1.receipt = row[a].receipt
        /\ r1.status = row[a].status /\ r1.registrationNumber = row[a].registrationNumber
    <2>1. r1 \in Row
      BY <1>2, <1>3, RowsAreTyped DEF References
    <2> QED
      BY <1>2, <2>1 DEF Row
  <1> HIDE DEF r1
  <1>5. /\ r2 \in Row /\ r2.paymentStatus = p /\ r2.receipt = row[a].receipt
        /\ r2.status = row[a].status /\ r2.registrationNumber = row[a].registrationNumber
    BY <1>4 DEF Row
  <1> HIDE DEF r2
  <1>6. /\ r3 \in Row /\ r3.paymentStatus = p /\ r3.receipt = row[a].receipt
        /\ r3.status = row[a].status /\ r3.registrationNumber = row[a].registrationNumber
    BY <1>5 DEF Row
  <1>7. row' = [row EXCEPT ![a] = r3]
    <2>1. row' = [row EXCEPT ![a].paymentStatus = p, ![a].paymentReference = "BIRMS",
                             ![a].advised = TRUE, ![a].redirect = TRUE]
      BY Zenon DEF FinishAdvice, p
    <2>2. row' = [row EXCEPT ![a] = [row[a] EXCEPT !.paymentStatus = p,
                        !.paymentReference = "BIRMS", !.advised = TRUE, !.redirect = TRUE]]
      BY <1>1, <2>1 DEF IInv, TypeOK
    <2> QED
      BY <2>2 DEF r1, r2
  <1> HIDE DEF r3
  <1>8. CopyInOrder(a, r3)
    BY <1>2, <1>3, <1>6 DEF CopyInOrder, RowInOrder, Confirmed, Shows, UnderReview
  <1>9. call' = [call EXCEPT ![c] = Done] /\ Done \in CallTypes
    BY DEF FinishAdvice, CallTypes
  <1> QED
    BY <1>1, <1>2, <1>6, <1>7, <1>8, <1>9, SaveFrame DEF FinishAdvice

\* cancel saves the copy of its beginning.
LEMMA CancellationsKeep ==
    ASSUME IInv, NEW c \in Calls, FinishCancel(c)
    PROVE  IInv'
  <1> DEFINE a == call[c].of
             r == [call[c].copy EXCEPT !.paymentStatus = "CANCELLED", !.redirect = FALSE]
  <1>1. /\ call[c] \in Call /\ a \in Applications /\ CallInOrder(c) /\ InFlight(c)
        /\ call[c].op = "cancel"
    BY FlightsAreCalls DEF FinishCancel, Holds
  <1>2. call[c].copy \in Row /\ CopyInOrder(a, call[c].copy) /\ ~UnderReview(a)
    BY <1>1 DEF CallInOrder, HasCopy
  <1>3. r \in Row
    BY <1>2, RowsAreTyped DEF PaymentStatuses
  <1>4. CopyInOrder(a, r)
    BY <1>2 DEF CopyInOrder, Confirmed, Shows, Row
  <1>5. call' = [call EXCEPT ![c] = Done] /\ Done \in CallTypes
    BY DEF FinishCancel, CallTypes
  <1>6. row' = [row EXCEPT ![a] = r] \/ row' = row
    BY DEF FinishCancel
  <1> HIDE DEF r
  <1> QED
    BY <1>1, <1>2, <1>3, <1>4, <1>5, <1>6, SaveFrame, CallFrame DEF FinishCancel

\* synchronize saves the copy it has loaded, with what BIRMS answered.
LEMMA SyncsKeep ==
    ASSUME IInv, NEW c \in Calls, SaveSync(c)
    PROVE  IInv'
  <1> DEFINE a == call[c].of
             copy == call[c].copy
             answer == call[c].answer
             synced(receipt) ==
                 [copy EXCEPT !.paymentStatus = SynchronizedStatus(@, answer),
                              !.advised = TRUE,
                              !.receipt = @ \/ receipt]
             k == [call[c] EXCEPT !.phase = "synchronized", !.copy = None, !.answer = None]
  <1>1. /\ call[c] \in Call /\ a \in Applications /\ CallInOrder(c) /\ InFlight(c)
        /\ call[c].phase = "loaded" /\ call[c].op \in Syncs
    BY FlightsAreCalls DEF SaveSync
  <1>2. /\ copy \in Row /\ CopyInOrder(a, copy) /\ ~UnderReview(a)
        /\ answer \in AdviceStates /\ (answer = "PAID" => a \in everPaid)
    BY <1>1 DEF CallInOrder, HasCopy, Syncs
  <1>3. PICK receipt \in {FALSE, answer = "PAID"} :
          \/ /\ row' = [row EXCEPT ![a] = synced(receipt)]
             /\ \/ /\ synced(receipt).paymentStatus \in GoesOnWith(call[c].op)
                   /\ call' = [call EXCEPT ![c] = k]
                \/ call' = [call EXCEPT ![c] = Done]
          \/ call' = [call EXCEPT ![c] = Done] /\ row' = row
    BY <1>1 DEF SaveSync, IInv, TypeOK
  <1> DEFINE p == SynchronizedStatus(copy.paymentStatus, answer)
             r1 == [copy EXCEPT !.paymentStatus = p]
             r2 == [r1 EXCEPT !.advised = TRUE]
             r3 == [r2 EXCEPT !.receipt = copy.receipt \/ receipt]
  <1>4. p \in PaymentStatuses /\ p # "WAIVED" /\ (p = "PAID" <=> answer = "PAID")
    BY <1>2, StatusesAreMapped
  <1>5. copy.receipt \in BOOLEAN /\ receipt \in BOOLEAN /\ (receipt => a \in everPaid)
    BY <1>2, <1>3 DEF Row
  <1> HIDE DEF p
  <1>6. /\ r1 \in Row /\ r1.paymentStatus = p /\ r1.receipt = copy.receipt
        /\ r1.status = copy.status /\ r1.registrationNumber = copy.registrationNumber
    BY <1>2, <1>4 DEF Row
  <1>7. synced(receipt) = r3
    BY <1>2 DEF Row, p
  <1> HIDE DEF r1
  <1>8. /\ r2 \in Row /\ r2.paymentStatus = p /\ r2.receipt = copy.receipt
        /\ r2.status = copy.status /\ r2.registrationNumber = copy.registrationNumber
    BY <1>6 DEF Row
  <1> HIDE DEF r2
  <1>9. /\ r3 \in Row /\ r3.paymentStatus = p /\ r3.receipt = (copy.receipt \/ receipt)
        /\ r3.status = copy.status /\ r3.registrationNumber = copy.registrationNumber
    BY <1>5, <1>8 DEF Row
  <1> HIDE DEF r3
  <1>10. CopyInOrder(a, r3)
    BY <1>2, <1>4, <1>5, <1>9 DEF CopyInOrder, Confirmed, Shows
  <1>11. /\ k \in Call /\ k.phase = "synchronized" /\ k.answer = None
         /\ k.of = a /\ k.op = call[c].op /\ k.receiptRead = call[c].receiptRead
    BY <1>1 DEF Call
  <1>12. ASSUME row' = [row EXCEPT ![a] = r3], call' = [call EXCEPT ![c] = k],
                p \in GoesOnWith(call[c].op)
         PROVE  CallInOrder(c)'
    <2>1. everPaid' = everPaid
      BY DEF SaveSync, birmsVars
    <2>2. call'[c] = k
      BY <1>12 DEF IInv, TypeOK
    <2>3. call[c].op = "callback" => a \in everPaid
      BY <1>2, <1>4, <1>12 DEF GoesOnWith
    <2>4. ~HasCopy(k)
      BY <1>1, <1>11 DEF HasCopy, Syncs
    <2>5. row'[a].status # "UNDER_REVIEW"
      BY <1>1, <1>2, <1>9, <1>12 DEF CopyInOrder, IInv, TypeOK
    <2>6. PICK b \in Applications : b = a
      BY <1>1
    <2>7. /\ call[c].receiptRead => a \in everPaid
          /\ None # "PAID"
      BY <1>1, AdviceAssumption DEF CallInOrder, AdviceStates
    <2> HIDE DEF k, a
    <2> QED
      BY <1>11, <1>12, <2>1, <2>2, <2>3, <2>4, <2>5, <2>6, <2>7
         DEF CallInOrder, HasCopy, UnderReview
  <1> HIDE DEF k
  <1>13. Done \in CallTypes /\ k \in CallTypes
    BY <1>11 DEF CallTypes
  <1>14. CASE call' = [call EXCEPT ![c] = Done] /\ row' = row
    BY <1>13, <1>14, CallFrame DEF SaveSync
  <1>15. CASE call' = [call EXCEPT ![c] = Done] /\ row' = [row EXCEPT ![a] = r3]
    BY <1>1, <1>2, <1>9, <1>10, <1>13, <1>15, SaveFrame DEF SaveSync
  <1>16. CASE /\ row' = [row EXCEPT ![a] = r3] /\ call' = [call EXCEPT ![c] = k]
              /\ p \in GoesOnWith(call[c].op)
    BY <1>1, <1>2, <1>9, <1>10, <1>12, <1>13, <1>16, SaveFrame DEF SaveSync
  <1> QED
    BY <1>3, <1>7, <1>9, <1>14, <1>15, <1>16

\* A callback stores a receipt only after BIRMS had the application as paid.
LEMMA CallbacksKeep ==
    ASSUME IInv, NEW c \in Calls, FinishCallback(c)
    PROVE  IInv'
  <1> DEFINE a == call[c].of
  <1>1. /\ call[c] \in Call /\ a \in Applications /\ CallInOrder(c) /\ InFlight(c)
        /\ call[c].phase = "synchronized" /\ call[c].op = "callback"
    BY FlightsAreCalls DEF FinishCallback, Holds
  <1>2. row[a] \in Row /\ RowInOrder(a) /\ a \in everPaid /\ ~UnderReview(a)
    BY <1>1 DEF IInv, TypeOK, CallInOrder
  <1>3. PICK x \in BOOLEAN : row' = [row EXCEPT ![a].receipt = x]
    <2>1. call[c].receiptRead \in BOOLEAN
      BY <1>1 DEF Call
    <2> QED
      BY <2>1 DEF FinishCallback
  <1> DEFINE r == [row[a] EXCEPT !.receipt = x]
  <1>4. row' = [row EXCEPT ![a] = r]
    BY <1>1, <1>3 DEF IInv, TypeOK
  <1>5. /\ r \in Row /\ r.paymentStatus = row[a].paymentStatus /\ r.status = row[a].status
        /\ r.registrationNumber = row[a].registrationNumber
    BY <1>2 DEF Row
  <1>6. call' = [call EXCEPT ![c] = Done] /\ Done \in CallTypes
    BY DEF FinishCallback, CallTypes
  <1> HIDE DEF r
  <1>7. CopyInOrder(a, r)
    BY <1>2, <1>5 DEF CopyInOrder, RowInOrder, Confirmed, Shows, UnderReview
  <1> QED
    BY <1>1, <1>2, <1>4, <1>5, <1>6, <1>7, SaveFrame DEF FinishCallback

\* A reversal saves the copy it has loaded again.
LEMMA ReversalsKeep ==
    ASSUME IInv, NEW c \in Calls, SaveReversal(c)
    PROVE  IInv'
  <1> DEFINE a == call[c].of
             r == call[c].copy
  <1>1. /\ call[c] \in Call /\ a \in Applications /\ CallInOrder(c) /\ InFlight(c)
        /\ call[c].phase = "reloaded"
    BY FlightsAreCalls DEF SaveReversal, Holds
  <1>2. r \in Row /\ CopyInOrder(a, r) /\ ~UnderReview(a)
    BY <1>1 DEF CallInOrder, HasCopy
  <1>3. call' = [call EXCEPT ![c] = Done] /\ Done \in CallTypes
    BY DEF SaveReversal, CallTypes
  <1>4. row' = [row EXCEPT ![a] = r] \/ row' = row
    BY DEF SaveReversal
  <1> QED
    BY <1>1, <1>2, <1>3, <1>4, SaveFrame, CallFrame DEF SaveReversal

\* An absence saves a copy that shows every number of the application but for the one it
\* gives up.
LEMMA AbsencesKeep ==
    ASSUME IInv, NEW c \in Calls, FinishAbsent(c)
    PROVE  IInv'
  <1> DEFINE a == call[c].of
             copy == call[c].copy
             given == IF OwnsNumber(a) THEN None ELSE copy.registrationNumber
             r1 == [copy EXCEPT !.status = "ABSENT"]
             r == [r1 EXCEPT !.registrationNumber = given]
  <1>1. /\ call[c] \in Call /\ a \in Applications /\ CallInOrder(c) /\ InFlight(c)
        /\ call[c].op = "attendance"
    BY FlightsAreCalls DEF FinishAbsent, Holds
  <1>2. copy \in Row /\ CopyInOrder(a, copy) /\ ~UnderReview(a)
    BY <1>1 DEF CallInOrder, HasCopy
  <1>3. given \in Numbers \cup {None}
    BY <1>2 DEF Row
  <1>4. row' = [row EXCEPT ![a] = r]
    <2>1. row' = [row EXCEPT ![a] = [copy EXCEPT !.status = "ABSENT",
                                                 !.registrationNumber = given]]
      BY Zenon DEF FinishAbsent
    <2> QED
      BY <2>1, <1>2 DEF Row
  <1> HIDE DEF given
  <1>5. /\ r \in Row /\ r.status = "ABSENT" /\ r.registrationNumber = given
        /\ r.paymentStatus = copy.paymentStatus /\ r.receipt = copy.receipt
    <2>1. r1 \in Row /\ r1.status = "ABSENT"
          /\ r1.paymentStatus = copy.paymentStatus /\ r1.receipt = copy.receipt
      BY <1>2 DEF Row, Statuses
    <2> HIDE DEF r1
    <2> QED
      BY <1>3, <2>1 DEF Row
  <1> HIDE DEF r
  <1>6. /\ year' = year /\ nextSequence' = nextSequence /\ birms' = birms
        /\ everPaid' = everPaid /\ staffSaid' = staffSaid
        /\ attendance' = [attendance EXCEPT ![a] = "ABSENT"]
        /\ call' = [call EXCEPT ![c] = Done]
        /\ slot' = [n \in Numbers |-> IF slot[n] = a THEN None ELSE slot[n]]
    BY DEF FinishAbsent, birmsVars, GiveUpNumber, ReleaseDstsNumber
  <1>7. /\ row' \in [Applications -> Row] /\ row'[a] = r
        /\ \A b \in Applications \ {a} : row'[b] = row[b]
    BY <1>1, <1>4, <1>5 DEF IInv, TypeOK
  <1>8. slot' \in [Numbers -> Applications \cup {None}] /\ \A n \in Numbers : slot'[n] # a
    BY <1>1, <1>6, NoneAssumption DEF IInv, TypeOK, NumbersTypeOK
  <1>9. \A b \in Applications, n \in Numbers : slot'[n] = b => slot[n] = b
    BY <1>6, NoneAssumption
  <1>10. Progress
    BY <1>5, <1>6, <1>7, <1>9 DEF Progress, UnderReview
  <1>11. TypeOK'
    BY <1>1, <1>6, <1>7, <1>8 DEF IInv, TypeOK, NumbersTypeOK
  <1>12. \A b \in Applications \ {a} : RowInOrder(b)'
    BY <1>6, <1>7, <1>9, <1>10, RowStays DEF IInv
  <1> PICK e \in Applications : e = a
    BY <1>1
  <1>13. RowInOrder(e)'
    BY <1>1, <1>2, <1>5, <1>6, <1>7, <1>8
       DEF RowInOrder, CopyInOrder, Confirmed, Shows, UnderReview, IInv
  <1>14. \A d \in Calls \ {c} : call'[d] = call[d]
    BY <1>6
  <1>15. CallInOrder(c)'
    BY <1>6, OverIsInOrder DEF IInv, TypeOK
  <1> QED
    BY <1>10, <1>11, <1>12, <1>13, <1>14, <1>15, StepFrame

\* BIRMS has an advice, and so answers, only for a row that was verified.
LEMMA AnswersKeep ==
    ASSUME IInv, NEW c \in Calls, BirmsAnswers(c)
    PROVE  IInv'
  <1> PICK a \in Applications : a = call[c].of
    BY FlightsAreCalls DEF BirmsAnswers
  <1>1. /\ call[c] \in Call /\ CallInOrder(c) /\ InFlight(c) /\ call[c].phase = "sent"
    BY FlightsAreCalls DEF BirmsAnswers
  <1>2. row[a] \in Row /\ RowInOrder(a) /\ birms[a] \in AdviceStates \cup {None}
    BY DEF IInv, TypeOK
  <1>3. PICK state \in AdviceStates :
          /\ birms' = [birms EXCEPT ![a] = state] /\ ~UnderReview(a)
          /\ state = "PAID" => a \in everPaid
    <2>1. CASE call[c].op = "advice" /\ birms' = [birms EXCEPT ![a] = AdviceAfter(@)]
      BY <1>1, <1>2, <2>1 DEF CallInOrder, AdviceAfter, AdviceStates, RowInOrder
    <2>2. CASE birms[a] = "PENDING" /\ birms' = [birms EXCEPT ![a] = "CANCELLED"]
      BY <1>2, <2>2, AdviceAssumption DEF AdviceStates, RowInOrder
    <2>3. CASE birms[a] # None /\ birms' = birms
      <3>1. birms' = [birms EXCEPT ![a] = birms[a]]
        BY <2>3 DEF IInv, TypeOK
      <3> QED
        BY <1>2, <2>3, <3>1 DEF RowInOrder
    <2> QED
      BY <2>1, <2>2, <2>3 DEF BirmsAnswers
  <1>4. /\ year' = year /\ nextSequence' = nextSequence /\ slot' = slot
        /\ row' = row /\ attendance' = attendance
        /\ everPaid' = everPaid /\ staffSaid' = staffSaid
    BY DEF BirmsAnswers, numberVars
  <1>5. birms' \in [Applications -> AdviceStates \cup {None}] /\ birms'[a] = state
        /\ \A b \in Applications \ {a} : birms'[b] = birms[b]
    BY <1>3 DEF IInv, TypeOK
  <1> DEFINE k == [call[c] EXCEPT !.phase = "answered", !.answer = state]
  <1>6. /\ k \in Call /\ k.phase = "answered" /\ k.answer = state
        /\ k.of = a /\ k.op = call[c].op /\ k.copy = call[c].copy
        /\ k.receiptRead = call[c].receiptRead
    BY <1>1 DEF Call
  <1>7. \E v \in {k, Done} : call' = [call EXCEPT ![c] = v]
    <2>1. \/ call' = [call EXCEPT ![c].phase = "answered", ![c].answer = state]
          \/ call' = [call EXCEPT ![c] = Done]
      BY <1>5 DEF BirmsAnswers, Answered
    <2> QED
      BY <2>1 DEF IInv, TypeOK
  <1> HIDE DEF k
  <1>8. PICK v \in {k, Done} : call' = [call EXCEPT ![c] = v]
    BY <1>7
  <1>9. /\ call' \in [Calls -> CallTypes] /\ call'[c] = v
        /\ \A d \in Calls \ {c} : call'[d] = call[d]
    BY <1>6, <1>8 DEF CallTypes, IInv, TypeOK
  <1>10. Progress
    BY <1>4 DEF Progress, UnderReview
  <1>11. TypeOK'
    BY <1>4, <1>5, <1>9 DEF IInv, TypeOK, NumbersTypeOK, CallTypes
  <1>12. \A b \in Applications \ {a} : RowInOrder(b)'
    BY <1>4, <1>5, <1>10, RowStays DEF IInv
  <1>13. RowInOrder(a)'
    BY <1>2, <1>3, <1>4, <1>5 DEF RowInOrder, Confirmed, Shows, UnderReview
  <1>14. CASE v = k
    <2>1. HasCopy(k) => HasCopy(call[c])
      BY <1>6 DEF HasCopy
    <2>2. CallInOrder(c)'
      BY <1>1, <1>3, <1>4, <1>6, <1>9, <1>14, <2>1
         DEF CallInOrder, UnderReview, CopyInOrder, Confirmed, Shows
    <2> QED
      BY <1>9, <1>10, <1>11, <1>12, <1>13, <2>2, StepFrame
  <1>15. CASE v = Done
    <2>1. CallInOrder(c)'
      BY <1>9, <1>15, OverIsInOrder
    <2> QED
      BY <1>9, <1>10, <1>11, <1>12, <1>13, <2>1, StepFrame
  <1> QED
    BY <1>8, <1>14, <1>15

-----------------------------------------------------------------------------
(* The steps of an application.                                            *)

\* Steps that leave the calls alone.
LEMMA ApplicationFrame ==
    ASSUME IInv, Progress, TypeOK', NEW a \in Applications, RowInOrder(a)', call' = call,
           \A b \in Applications \ {a} : row'[b] = row[b] /\ birms'[b] = birms[b],
           \A b \in Applications \ {a}, n \in Numbers : slot'[n] = b => slot[n] = b
    PROVE  IInv'
  <1>1. \A b \in Applications \ {a} : RowInOrder(b)'
    BY RowStays DEF IInv
  <1> QED
    BY <1>1, StepFrame

\* Payers and banks move an advice that exists.
LEMMA MovesKeep ==
    ASSUME IInv, NEW a \in Applications, NEW to \in AdviceStates, AdviceMoves(a, to)
    PROVE  IInv'
  <1>1. /\ year' = year /\ nextSequence' = nextSequence /\ slot' = slot
        /\ row' = row /\ attendance' = attendance /\ call' = call /\ staffSaid' = staffSaid
        /\ birms' = [birms EXCEPT ![a] = to]
        /\ everPaid' = IF to = "PAID" THEN everPaid \cup {a} ELSE everPaid
    BY DEF AdviceMoves, numberVars
  <1>2. /\ birms' \in [Applications -> AdviceStates \cup {None}] /\ birms'[a] = to
        /\ \A b \in Applications \ {a} : birms'[b] = birms[b]
    BY <1>1 DEF IInv, TypeOK
  <1>3. birms[a] # None
    BY AdviceAssumption DEF AdviceMoves, BirmsMoves, AdviceStates
  <1>4. Progress
    BY <1>1 DEF Progress, UnderReview
  <1>5. TypeOK'
    BY <1>1, <1>2 DEF IInv, TypeOK, NumbersTypeOK
  <1>6. RowInOrder(a)'
    BY <1>1, <1>2, <1>3 DEF RowInOrder, Confirmed, Shows, UnderReview, IInv
  <1> QED
    BY <1>1, <1>2, <1>4, <1>5, <1>6, ApplicationFrame

\* A presence writes the attendance only.
LEMMA PresencesKeep ==
    ASSUME IInv, NEW a \in Applications, MarkPresent(a)
    PROVE  IInv'
  <1>1. /\ year' = year /\ nextSequence' = nextSequence /\ slot' = slot
        /\ row' = row /\ birms' = birms /\ call' = call
        /\ everPaid' = everPaid /\ staffSaid' = staffSaid
        /\ attendance' = [attendance EXCEPT ![a] = "PRESENT"]
    BY DEF MarkPresent, numberVars, birmsVars
  <1>2. Progress
    BY <1>1 DEF Progress, UnderReview
  <1>3. TypeOK'
    BY <1>1 DEF IInv, TypeOK, NumbersTypeOK
  <1>4. RowInOrder(a)'
    BY <1>1 DEF RowInOrder, Confirmed, Shows, UnderReview, OwnsNumber, IInv
  <1> QED
    BY <1>1, <1>2, <1>3, <1>4, ApplicationFrame

\* A verification gives the number it shows.
LEMMA VerificationsKeep ==
    ASSUME IInv, NEW a \in Applications, NEW n \in Numbers, Verify(a, n)
    PROVE  IInv'
  <1> DEFINE r1 == [row[a] EXCEPT !.status = "VERIFIED"]
             r == [r1 EXCEPT !.registrationNumber = n]
  <1>1. row[a] \in Row /\ RowInOrder(a) /\ UnderReview(a) /\ ~OwnsNumber(a)
    BY DEF IInv, TypeOK, Verify, UnderReview, RowInOrder
  <1>2. /\ year' = year /\ attendance' = attendance /\ birms' = birms /\ call' = call
        /\ everPaid' = everPaid /\ staffSaid' = staffSaid
    BY DEF Verify, birmsVars
  <1>3. row' = [row EXCEPT ![a] = r]
    <2>1. row' = [row EXCEPT ![a] = [row[a] EXCEPT !.status = "VERIFIED",
                                                   !.registrationNumber = n]]
      BY Zenon DEF Verify
    <2> QED
      BY <1>1, <2>1 DEF Row
  <1>4. /\ r \in Row /\ r.status = "VERIFIED" /\ r.registrationNumber = n
        /\ r.paymentStatus = row[a].paymentStatus /\ r.receipt = row[a].receipt
        /\ r.advised = row[a].advised
    <2>1. r1 \in Row /\ r1.status = "VERIFIED" /\ r1.advised = row[a].advised
          /\ r1.paymentStatus = row[a].paymentStatus /\ r1.receipt = row[a].receipt
      BY <1>1 DEF Row, Statuses
    <2> HIDE DEF r1
    <2> QED
      BY <2>1 DEF Row
  <1> HIDE DEF r
  <1>5. /\ slot' = [slot EXCEPT ![n] = a]
        /\ nextSequence' \in [Years -> 1 .. (MaxSequence + 1)]
    <2>1. \A m \in Numbers : slot[m] # a
      BY <1>1 DEF OwnsNumber
    <2>2. /\ slot' = [slot EXCEPT ![n] = a]
          /\ \/ nextSequence' = nextSequence
             \/ /\ nextSequence[year] <= MaxSequence
                /\ nextSequence' = [nextSequence EXCEPT ![year] = @ + 1]
      BY <2>1 DEF Verify, AllocateDstsNumber
    <2> QED
      BY <2>2, SequenceAssumption DEF IInv, TypeOK, NumbersTypeOK
  <1>6. /\ slot' \in [Numbers -> Applications \cup {None}] /\ slot'[n] = a
        /\ \A m \in Numbers \ {n} : slot'[m] = slot[m]
    BY <1>5 DEF IInv, TypeOK, NumbersTypeOK
  <1>7. /\ row' \in [Applications -> Row] /\ row'[a] = r
        /\ \A b \in Applications \ {a} : row'[b] = row[b]
    BY <1>3, <1>4 DEF IInv, TypeOK
  <1>8. Progress
    BY <1>1, <1>2, <1>4, <1>6, <1>7 DEF Progress, UnderReview
  <1>9. TypeOK'
    BY <1>2, <1>5, <1>6, <1>7 DEF IInv, TypeOK, NumbersTypeOK
  <1>10. RowInOrder(a)'
    BY <1>1, <1>2, <1>4, <1>6, <1>7
       DEF RowInOrder, Confirmed, Shows, UnderReview, OwnsNumber
  <1> QED
    BY <1>2, <1>6, <1>7, <1>8, <1>9, <1>10, ApplicationFrame

\* What staff record is remembered.
LEMMA RecordsKeep ==
    ASSUME IInv, NEW a \in Applications, NEW final \in {"PAID", "WAIVED"},
           NEW reference \in {"STAFF", None}, RecordPayment(a, final, reference)
    PROVE  IInv'
  <1> DEFINE r == [row[a] EXCEPT !.paymentStatus = final, !.paymentReference = reference]
  <1>1. row[a] \in Row /\ RowInOrder(a)
    BY DEF IInv, TypeOK
  <1>2. /\ year' = year /\ nextSequence' = nextSequence /\ slot' = slot
        /\ attendance' = attendance /\ birms' = birms /\ call' = call
        /\ everPaid' = everPaid /\ staffSaid' = [staffSaid EXCEPT ![a] = @ \cup {final}]
    BY DEF RecordPayment, numberVars, birmsVars
  <1>3. row' = [row EXCEPT ![a] = r]
    BY DEF RecordPayment, IInv, TypeOK
  <1>4. r \in Row
    BY <1>1, RowsAreTyped DEF PaymentStatuses, References
  <1>5. /\ r.paymentStatus = final /\ r.receipt = row[a].receipt
        /\ r.status = row[a].status /\ r.registrationNumber = row[a].registrationNumber
        /\ r.advised = row[a].advised
    BY <1>1 DEF Row
  <1> HIDE DEF r
  <1>6. /\ row' \in [Applications -> Row] /\ row'[a] = r
        /\ \A b \in Applications \ {a} : row'[b] = row[b]
    BY <1>3, <1>4 DEF IInv, TypeOK
  <1>7. /\ staffSaid' \in [Applications -> SUBSET {"PAID", "WAIVED"}]
        /\ staffSaid'[a] = staffSaid[a] \cup {final}
        /\ \A b \in Applications \ {a} : staffSaid'[b] = staffSaid[b]
    BY <1>2 DEF IInv, TypeOK
  <1>8. Progress
    BY <1>2, <1>5, <1>6, <1>7 DEF Progress, UnderReview
  <1>9. TypeOK'
    BY <1>2, <1>6, <1>7 DEF IInv, TypeOK, NumbersTypeOK
  <1>10. RowInOrder(a)'
    BY <1>1, <1>2, <1>5, <1>6, <1>7 DEF RowInOrder, Confirmed, Shows, UnderReview, OwnsNumber
  <1> QED
    BY <1>2, <1>6, <1>8, <1>9, <1>10, ApplicationFrame

-----------------------------------------------------------------------------
(* The theorems.                                                           *)

\* At first every application is under review.
LEMMA InitIInv == Init => IInv
  <1> SUFFICES ASSUME Init PROVE IInv
    OBVIOUS
  <1>1. \A a \in Applications :
           /\ row[a] \in Row /\ row[a].status = "UNDER_REVIEW"
           /\ row[a].registrationNumber = None /\ row[a].paymentStatus \in {"INITIATED", "WAIVED"}
           /\ ~row[a].advised /\ ~row[a].receipt
    BY DEF Init, Row, Statuses, PaymentStatuses, References
  <1>2. /\ row \in [Applications -> Row] /\ call \in [Calls -> Call \cup {NotBegun, Done}]
        /\ staffSaid \in [Applications -> SUBSET {"PAID", "WAIVED"}]
    <2>1. row = [a \in Applications |-> row[a]]
      BY DEF Init
    <2> QED
      BY <1>1, <2>1 DEF Init
  <1>3. NumbersTypeOK
    BY YearsAssumption, SequenceAssumption DEF Init, NumbersInit, NumbersTypeOK, Years
  <1>4. TypeOK
    BY <1>2, <1>3 DEF Init, TypeOK
  <1>5. ASSUME NEW a \in Applications PROVE RowInOrder(a)
    <2>1. \A n \in Numbers : slot[n] # a
      BY NoneAssumption DEF Init, NumbersInit
    <2>2. birms[a] = None /\ staffSaid[a] = {row[a].paymentStatus} \cap {"WAIVED"}
      BY DEF Init
    <2> QED
      BY <1>1, <2>1, <2>2, AdviceAssumption
         DEF RowInOrder, Confirmed, Shows, OwnsNumber, AdviceStates
  <1>6. ASSUME NEW c \in Calls PROVE CallInOrder(c)
    BY DEF Init, CallInOrder, InFlight
  <1> QED
    BY <1>4, <1>5, <1>6 DEF IInv

\* Every step keeps the invariant.
LEMMA StepIInv == IInv /\ [Next]_vars => IInv'
  <1> SUFFICES ASSUME IInv, [Next]_vars PROVE IInv'
    OBVIOUS
  <1>1. ASSUME NEW c \in Calls, CallStep(c) PROVE IInv'
    BY <1>1, BeginningsKeep, AnswersKeep, FailuresKeep, AdvicesKeep, CancellationsKeep,
       LoadsKeep, SyncsKeep, CallbacksKeep, ReversalsKeep, AbsencesKeep
       DEF CallStep
  <1>2. ASSUME NEW a \in Applications, ApplicationStep(a) PROVE IInv'
    BY <1>2, MovesKeep, PresencesKeep, VerificationsKeep, RecordsKeep DEF ApplicationStep
  <1>3. ASSUME UNCHANGED vars PROVE IInv'
    BY <1>3
       DEF vars, numberVars, IInv, TypeOK, NumbersTypeOK, RowInOrder, CallInOrder, Confirmed,
                Shows, UnderReview, OwnsNumber, CopyInOrder, HasCopy, InFlight
  <1> QED
    BY <1>1, <1>2, <1>3 DEF Next

\* The invariant holds throughout.
LEMMA AlwaysIInv == Spec => []IInv
  BY InitIInv, StepIInv, PTL DEF Spec

\* Every variable stays in its type.
THEOREM TypeCorrect == Spec => []TypeOK
  <1>1. IInv => TypeOK
    BY DEF IInv
  <1> QED
    BY <1>1, AlwaysIInv, PTL

\* No overlap of calls, and nobody who posts to the callback, makes a fee PAID, WAIVED or
\* receipted that neither BIRMS nor staff made so.
THEOREM FeesAreConfirmed == Spec => []PaymentsAreConfirmed
  <1>1. IInv => PaymentsAreConfirmed
    BY DEF IInv, RowInOrder, Confirmed, PaymentsAreConfirmed
  <1> QED
    BY <1>1, AlwaysIInv, PTL

\* Whatever copy is written back, the owner of a slot shows its number.
THEOREM OwnersShowTheirNumber == Spec => []OwnedNumberIsShown
  <1>1. IInv => OwnedNumberIsShown
    BY DEF IInv, RowInOrder, Shows, OwnedNumberIsShown
  <1> QED
    BY <1>1, AlwaysIInv, PTL
=============================================================================
