----------------------- MODULE ScoresAndMessagingProofs -----------------------
(***************************************************************************)
(* Theorems about Messaging, for any events, deliveries, numbers of        *)
(* replicas, handlers, copies of an event and restarts, and about Scores,  *)
(* for any applications, appeals and scoring rules.  They share nothing    *)
(* but this module.                                                        *)
(***************************************************************************)
EXTENDS Messaging, Scores, FiniteSetTheorems, TLAPS

-----------------------------------------------------------------------------
(* The inductive invariant.                                                *)

\* What a worker that has a delivery knows of it.  Unless a failure of the delivery was saved
\* without a worker's knowing, its row is as the worker has left it, no other worker has it,
\* and the provider took it no more often than attempts were counted, except for the one
\* that is not counted yet.
Works(w) ==
    LET d == sending[w].delivery
        n == sending[w].attempts
        stage == sending[w].stage IN
    stage # "idle" =>
        /\ d \in Deliveries /\ delivery[d].status # "NONE"
        /\ n <= MaxAttempts
        /\ stage \in {"claimed", "unresolved"} => n < MaxAttempts
        /\ d \notin repeated =>
             /\ delivery[d].status \in {"SENDING", "DELIVERED"}
             /\ stage \in {"claimed", "unresolved", "sent"} => accepted[d] <= n
             /\ stage = "failing" => accepted[d] <= n + 1
             /\ stage = "sent" \/ d \in doubted \/ accepted[d] = 0

WorksAlone ==
    \A w, x \in Workers :
        sending[w].stage # "idle" /\ sending[x].stage # "idle"
        /\ sending[w].delivery = sending[x].delivery /\ sending[w].delivery \notin repeated
        => w = x

\* What the row of a delivery says about it.
Counted(d) ==
    /\ delivery[d].status = "PENDING_PROVIDER" => delivery[d].attempts < MaxAttempts
    /\ delivery[d].status = "NONE" => accepted[d] = 0
    /\ d \notin repeated =>
         /\ accepted[d] <= MaxAttempts
         /\ d \in doubted \/ accepted[d] <= 1
         /\ delivery[d].status = "PENDING_PROVIDER" =>
              /\ accepted[d] <= delivery[d].attempts
              /\ d \in doubted \/ accepted[d] = 0

\* The deliveries of an event come with its note.
Awaits(e) == e \notin notified => \A d \in Targeted[e] : delivery[d].status = "NONE"

Dispatched ==
    /\ \A w \in Workers : Works(w)
    /\ WorksAlone
    /\ \A d \in Deliveries : Counted(d)
    /\ \A e \in Events : Awaits(e)

\* A handler that is not free has an event; what it read was projected for the same resource.
Handles(h) ==
    /\ handling[h] # Free => handling[h].event \in Events
    /\ handling[h].read # None =>
         /\ handling[h].event \in Events /\ handling[h].read \in processed
         /\ Resource[handling[h].read] = Resource[handling[h].event]

\* A row shows an event that was processed for it.
ShowsItsOwn(r) == row[r] # None => row[r] \in processed /\ Resource[row[r]] = r

\* A projection exists once an event was processed, and shows the newest.
Shows(e) ==
    e \in processed =>
        /\ row[Resource[e]] # None
        /\ Resource[e] \notin overtaken => OccurredAt[row[Resource[e]]] >= OccurredAt[e]

Projected ==
    /\ \A h \in Handlers : Handles(h)
    /\ \A r \in Resources : ShowsItsOwn(r)

Newest == \A e \in Events : Shows(e)

IInv == TypeOK /\ Projected /\ Dispatched /\ Newest

-----------------------------------------------------------------------------

\* The first state satisfies it.
LEMMA InitIInv == Init => IInv
  <1> SUFFICES ASSUME Init
               PROVE  IInv
    OBVIOUS
  <1> USE DEF Init, DeliveryInit
  <1>1. delivery \in [Deliveries -> [status : DeliveryStatuses, attempts : Attempts]]
    <2>1. NoDelivery \in [status : DeliveryStatuses, attempts : Attempts]
      BY MaxAttemptsAssumption DEF NoDelivery, DeliveryStatuses, Attempts
    <2> QED
      BY <2>1
  <1>2. sending \in [Workers -> [delivery : Deliveries \cup {None}, attempts : Attempts,
                                 stage : SendStages]]
    <2>1. Idle \in [delivery : Deliveries \cup {None}, attempts : Attempts, stage : SendStages]
      BY MaxAttemptsAssumption DEF Idle, SendStages, Attempts
    <2> QED
      BY <2>1
  <1>3. /\ accepted \in [Deliveries -> 0 .. MaxAttempts + 1]
        /\ doubted \subseteq Deliveries /\ repeated \subseteq Deliveries
    BY MaxAttemptsAssumption
  <1>4. DeliveryTypeOK
    BY <1>1, <1>2, <1>3 DEF DeliveryTypeOK
  <1>5. /\ bound \subseteq Services /\ outbox \in [Events -> Nat]
        /\ reports \in [Events -> Nat] /\ notices \in [Events -> Nat]
        /\ notified \subseteq Events /\ processed \subseteq Events
    BY EventsAssumption
  <1>6. handling \in [Handlers -> [event : Events \cup {None}, read : Events \cup {None}]]
    BY DEF Free
  <1>7. /\ row \in [Resources -> Events \cup {None}]
        /\ deadLetters \in [Events -> SUBSET Services]
        /\ restarts \in 0 .. MaxRestarts /\ overtaken \subseteq Resources
    BY EventsAssumption
  <1>8. TypeOK
    BY <1>4, <1>5, <1>6, <1>7 DEF TypeOK
  <1>9. Dispatched
    BY MaxAttemptsAssumption, EventsAssumption
       DEF Dispatched, Works, WorksAlone, Counted, Awaits, NoDelivery, Idle
  <1>10. Projected /\ Newest
    BY DEF Projected, Handles, Free, ShowsItsOwn, Newest, Shows
  <1> QED
    BY <1>8, <1>9, <1>10 DEF IInv

\* Every step keeps the types.
LEMMA StepTypes == TypeOK /\ Projected /\ Dispatched /\ [Next]_vars => TypeOK'
  <1> SUFFICES ASSUME TypeOK, Projected, Dispatched, [Next]_vars
               PROVE  TypeOK'
    OBVIOUS
  <1> USE DEF TypeOK, DeliveryTypeOK, Projected, Dispatched
  <1>1. ASSUME NEW e \in Events, Publish(e)
        PROVE  TypeOK'
    <2>1. reports' \in [Events -> Nat] /\ notices' \in [Events -> Nat] /\ outbox' \in [Events -> Nat]
      BY <1>1 DEF Publish, Routed
    <2>2. DeliveryTypeOK'
      BY <1>1 DEF Publish, deliveryVars
    <2>3. /\ bound' = bound /\ notified' = notified /\ handling' = handling
          /\ processed' = processed /\ row' = row /\ deadLetters' = deadLetters
          /\ restarts' = restarts /\ overtaken' = overtaken
      BY <1>1 DEF Publish
    <2> QED
      BY <2>1, <2>2, <2>3, Zenon DEF TypeOK
  <1>2. ASSUME NEW e \in Events, Notify(e)
        PROVE  TypeOK'
    <2>1. [status |-> "PENDING_PROVIDER", attempts |-> 0]
            \in [status : DeliveryStatuses, attempts : Attempts]
      BY MaxAttemptsAssumption DEF DeliveryStatuses, Attempts
    <2>2. DeliveryTypeOK'
      BY <1>2, <2>1 DEF Notify, Create, deliveryVars
    <2>3. notices' \in [Events -> Nat] /\ notified' \subseteq Events
      BY <1>2 DEF Notify
    <2> QED
      BY <1>2, <2>2, <2>3 DEF Notify, reportVars
  <1>3. ASSUME NEW e \in Events, RejectNotice(e)
        PROVE  TypeOK'
    BY <1>3, EventsAssumption, MaxAttemptsAssumption
       DEF RejectNotice, Services, deliveryVars, reportVars, DeliveryStatuses, SendStages, Attempts,
           Works, Handles
  <1>4. ASSUME NEW h \in Handlers, NEW e \in Events, Read(h, e)
        PROVE  TypeOK'
    <2>1. row[Resource[e]] \in Events \cup {None}
      BY EventsAssumption
    <2>2. handling' \in [Handlers -> [event : Events \cup {None}, read : Events \cup {None}]]
      BY <1>4, <2>1 DEF Read
    <2>3. reports' \in [Events -> Nat]
      BY <1>4 DEF Read
    <2> QED
      BY <1>4, <2>2, <2>3 DEF Read, deliveryVars
  <1>5. ASSUME NEW h \in Handlers, Commit(h)
        PROVE  TypeOK'
    <2>1. /\ handling[h].event \in Events /\ Resource[handling[h].event] \in Resources
      BY <1>5, EventsAssumption DEF Commit, Handles
    <2>2. row' \in [Resources -> Events \cup {None}] /\ overtaken' \subseteq Resources
      BY <1>5, <2>1 DEF Commit, OvertakenBy
    <2>3. handling' \in [Handlers -> [event : Events \cup {None}, read : Events \cup {None}]]
      BY <1>5 DEF Commit, Free
    <2> QED
      BY <1>5, <2>1, <2>2, <2>3 DEF Commit, deliveryVars
  <1>6. ASSUME NEW h \in Handlers, Reject(h)
        PROVE  TypeOK'
    BY <1>6, EventsAssumption, MaxAttemptsAssumption
       DEF Reject, Services, Free, deliveryVars, reportVars, DeliveryStatuses, SendStages, Attempts,
           Works, Handles
  <1>7. CASE Restart
    <2>1. ASSUME NEW e \in Events
          PROVE  Cardinality({h \in Handlers : handling[h].event = e}) \in Nat
      <3>1. IsFiniteSet({h \in Handlers : handling[h].event = e})
        BY FS_Subset, EventsAssumption
      <3> QED
        BY <3>1, FS_CardinalityType
    <2>2. ASSUME NEW e \in Events
          PROVE  reports[e] + Cardinality({h \in Handlers : handling[h].event = e}) \in Nat
      BY <2>1
    <2>3. reports' \in [Events -> Nat]
      BY <1>7, <2>2 DEF Restart
    <2>4. handling' \in [Handlers -> [event : Events \cup {None}, read : Events \cup {None}]]
      BY <1>7 DEF Restart, Free
    <2>5. restarts' \in 0 .. MaxRestarts
      BY <1>7, EventsAssumption DEF Restart
    <2> QED
      BY <1>7, <2>3, <2>4, <2>5 DEF Restart, deliveryVars
  <1>8. ASSUME NEW w \in Workers, NEW d \in Deliveries, Claim(w, d), UNCHANGED others
        PROVE  TypeOK'
    <2>1. delivery' \in [Deliveries -> [status : DeliveryStatuses, attempts : Attempts]]
      BY <1>8 DEF Claim, DeliveryStatuses
    <2>2. sending' \in [Workers -> [delivery : Deliveries \cup {None}, attempts : Attempts,
                                    stage : SendStages]]
      BY <1>8 DEF Claim, SendStages
    <2> QED
      BY <1>8, <2>1, <2>2 DEF Claim, others, reportVars
  <1>9. ASSUME NEW w \in Workers, Send(w), UNCHANGED others
        PROVE  TypeOK'
    <2> DEFINE r == [sending[w] EXCEPT !.stage = "sent", !.attempts = @ + 1]
               d == sending[w].delivery
    <2>1. d \in Deliveries /\ sending[w].attempts < MaxAttempts
      BY <1>9 DEF Send, Works
    <2>2. r \in [delivery : Deliveries \cup {None}, attempts : Attempts, stage : SendStages]
      <3>1. sending[w].attempts + 1 \in Attempts /\ "sent" \in SendStages
        BY <2>1, MaxAttemptsAssumption DEF Attempts, SendStages
      <3>2. ASSUME NEW n \in Attempts, NEW s \in SendStages,
                   NEW x \in [delivery : Deliveries \cup {None}, attempts : Attempts,
                              stage : SendStages]
            PROVE  [x EXCEPT !.stage = s, !.attempts = n]
                     \in [delivery : Deliveries \cup {None}, attempts : Attempts,
                         stage : SendStages]
        OBVIOUS
      <3> QED
        BY <3>1, <3>2
    <2>3. sending' = [sending EXCEPT ![w] = r]
      BY <1>9, Zenon DEF Send
    <2>4. sending' \in [Workers -> [delivery : Deliveries \cup {None}, attempts : Attempts,
                                    stage : SendStages]]
      BY <2>2, <2>3
    <2>5. accepted' \in [Deliveries -> 0 .. MaxAttempts + 1]
      BY <1>9, <2>1, MaxAttemptsAssumption DEF Send, Accept
    <2> QED
      BY <1>9, <2>4, <2>5 DEF Send, others, reportVars
  <1>10. ASSUME NEW w \in Workers, FailToSend(w), UNCHANGED others
        PROVE  TypeOK'
    BY <1>10, EventsAssumption, MaxAttemptsAssumption
       DEF FailToSend, others, deliveryVars, reportVars, DeliveryStatuses, SendStages,
           Attempts, Idle, Works, Handles
  <1>11. ASSUME NEW w \in Workers, LoseSend(w), UNCHANGED others
        PROVE  TypeOK'
    <2>1. sending[w].delivery \in Deliveries
      BY <1>11 DEF LoseSend, Works
    <2>2. sending' \in [Workers -> [delivery : Deliveries \cup {None}, attempts : Attempts,
                                    stage : SendStages]]
      <3>1. /\ sending' = [sending EXCEPT ![w] = [@ EXCEPT !.stage = "failing"]]
            /\ "failing" \in SendStages
        BY <1>11, Zenon DEF LoseSend, SendStages
      <3> QED
        BY <3>1
    <2>3. accepted' \in [Deliveries -> 0 .. MaxAttempts + 1]
      BY <1>11, <2>1, MaxAttemptsAssumption DEF LoseSend, Accept
    <2> QED
      BY <1>11, <2>1, <2>2, <2>3 DEF LoseSend, others, reportVars
  <1>12. ASSUME NEW w \in Workers, SaveDelivered(w), UNCHANGED others
        PROVE  TypeOK'
    BY <1>12, EventsAssumption, MaxAttemptsAssumption
       DEF SaveDelivered, Saved, others, deliveryVars, reportVars, DeliveryStatuses, SendStages,
           Attempts, Idle, Works, Handles
  <1>13. ASSUME NEW w \in Workers, LoseSaveDelivered(w), UNCHANGED others
        PROVE  TypeOK'
    <2> DEFINE r == [sending[w] EXCEPT !.stage = "failing"]
    <2>0. delivery' \in [Deliveries -> [status : DeliveryStatuses, attempts : Attempts]]
      BY <1>13 DEF LoseSaveDelivered, Saved, DeliveryStatuses
    <2>1. r \in [delivery : Deliveries \cup {None}, attempts : Attempts, stage : SendStages]
      <3>1. "failing" \in SendStages
        BY DEF SendStages
      <3>2. sending[w] \in [delivery : Deliveries \cup {None}, attempts : Attempts,
                            stage : SendStages]
        OBVIOUS
      <3> QED
        BY <3>1, <3>2
    <2>2. sending' = [sending EXCEPT ![w] = r]
      BY <1>13, Zenon DEF LoseSaveDelivered
    <2>3. sending' \in [Workers -> [delivery : Deliveries \cup {None}, attempts : Attempts,
                                    stage : SendStages]]
      BY <2>1, <2>2
    <2>4. doubted' \subseteq Deliveries
      BY <1>13 DEF LoseSaveDelivered, Works
    <2> QED
      BY <1>13, <2>0, <2>3, <2>4 DEF LoseSaveDelivered, others, reportVars
  <1>14. ASSUME NEW w \in Workers, Fail(w), UNCHANGED others
        PROVE  TypeOK'
    BY <1>14, EventsAssumption, MaxAttemptsAssumption
       DEF Fail, SaveFailure, Saved, others, deliveryVars, reportVars, DeliveryStatuses, SendStages, Attempts,
           Idle, Works, Handles
  <1>17. ASSUME NEW w \in Workers, LoseFail(w), UNCHANGED others
        PROVE  TypeOK'
    <2> DEFINE n == sending[w].attempts + 1
               r == [sending[w] EXCEPT !.stage = "failing", !.attempts = n]
    <2>1. sending[w].delivery \in Deliveries /\ n \in Attempts
      BY <1>17, MaxAttemptsAssumption DEF LoseFail, Works, Attempts
    <2>2. r \in [delivery : Deliveries \cup {None}, attempts : Attempts, stage : SendStages]
      <3>1. "failing" \in SendStages
        BY DEF SendStages
      <3>2. ASSUME NEW x \in [delivery : Deliveries \cup {None}, attempts : Attempts,
                              stage : SendStages], NEW m \in Attempts, NEW t \in SendStages
            PROVE  [x EXCEPT !.stage = t, !.attempts = m]
                     \in [delivery : Deliveries \cup {None}, attempts : Attempts,
                         stage : SendStages]
        OBVIOUS
      <3> HIDE DEF n
      <3> QED
        BY <2>1, <3>1, <3>2
    <2>3. sending' = [sending EXCEPT ![w] = r]
      BY <1>17, Zenon DEF LoseFail
    <2>4. sending' \in [Workers -> [delivery : Deliveries \cup {None}, attempts : Attempts,
                                    stage : SendStages]]
      BY <2>2, <2>3
    <2>5. ASSUME NEW t \in DeliveryStatuses,
                 delivery' = [delivery EXCEPT ![sending[w].delivery] = [status |-> t, attempts |-> n]]
          PROVE  delivery' \in [Deliveries -> [status : DeliveryStatuses, attempts : Attempts]]
      <3> HIDE DEF n
      <3> QED
        BY <2>1, <2>5
    <2>6. delivery' \in [Deliveries -> [status : DeliveryStatuses, attempts : Attempts]]
      <3>1. CASE UNCHANGED delivery
        BY <3>1
      <3>2. CASE SaveFailure(w)
        <4>1. /\ "FAILED" \in DeliveryStatuses /\ "PENDING_PROVIDER" \in DeliveryStatuses
              /\ delivery' = [delivery EXCEPT ![sending[w].delivery] =
                    [status |-> IF n >= MaxAttempts THEN "FAILED" ELSE "PENDING_PROVIDER",
                     attempts |-> n]]
          BY <3>2 DEF SaveFailure, Saved, DeliveryStatuses
        <4> HIDE DEF n
        <4> QED
          BY <2>5, <4>1
      <3> QED
        BY <1>17, <3>1, <3>2 DEF LoseFail
    <2>7. repeated' \subseteq Deliveries
      BY <1>17, <2>1 DEF LoseFail
    <2> QED
      BY <1>17, <2>4, <2>6, <2>7 DEF LoseFail, others, reportVars
  <1>18. ASSUME NEW s \in Services, Bind(s)
        PROVE  TypeOK'
    BY <1>18 DEF Bind, deliveryVars, reportVars
  <1>15. ASSUME NEW w \in Workers, Abandon(w), UNCHANGED others
        PROVE  TypeOK'
    BY <1>15, EventsAssumption, MaxAttemptsAssumption
       DEF Abandon, others, deliveryVars, reportVars, DeliveryStatuses, SendStages, Attempts,
           Idle, Works, Handles
  <1>16. CASE UNCHANGED vars
    BY <1>16 DEF vars, deliveryVars, reportVars
  <1> QED
    BY <1>1, <1>2, <1>3, <1>4, <1>5, <1>6, <1>7, <1>8, <1>9, <1>10, <1>11, <1>12, <1>13, <1>14,
       <1>15, <1>16, <1>17, <1>18 DEF Next

\* Every step keeps the deliveries in order.
LEMMA StepDispatched == TypeOK /\ Dispatched /\ [Next]_vars => Dispatched'
  <1> SUFFICES ASSUME TypeOK, Dispatched, [Next]_vars
               PROVE  Dispatched'
    OBVIOUS
  <1> USE DEF TypeOK, DeliveryTypeOK, Dispatched
  <1>1. ASSUME NEW e \in Events, Publish(e)
        PROVE  Dispatched'
    BY <1>1 DEF Publish, deliveryVars, Works, WorksAlone, Counted, Awaits
  <1>2. ASSUME NEW e \in Events, Notify(e)
        PROVE  Dispatched'
    <2>1. CASE e \in notified
      BY <1>2, <2>1 DEF Notify, deliveryVars, Works, WorksAlone, Counted, Awaits
    <2>2. CASE e \notin notified
      <3>1. \A d \in Targeted[e] : delivery[d].status = "NONE" /\ accepted[d] = 0
        BY <2>2, EventsAssumption DEF Awaits, Counted
      <3>2. /\ sending' = sending /\ accepted' = accepted
            /\ doubted' = doubted /\ repeated' = repeated
            /\ notified' = notified \cup {e}
        BY <1>2, <2>2 DEF Notify, Create
      <3>3. /\ \A d \in Targeted[e] :
                 delivery'[d] = [status |-> "PENDING_PROVIDER", attempts |-> 0]
            /\ \A d \in Deliveries \ Targeted[e] : delivery'[d] = delivery[d]
        <4>1. Targeted[e] \subseteq Deliveries
          BY EventsAssumption
        <4>2. delivery' = [d \in Deliveries |->
                 IF d \in Targeted[e] THEN [status |-> "PENDING_PROVIDER", attempts |-> 0]
                 ELSE delivery[d]]
          BY <1>2, <2>2 DEF Notify, Create
        <4> QED
          BY <4>1, <4>2, Zenon
      <3>4. \A w \in Workers : Works(w)'
        <4> SUFFICES ASSUME NEW w \in Workers, sending[w].stage # "idle"
                     PROVE  Works(w)'
          BY <3>2 DEF Works
        <4>1. sending[w].delivery \in Deliveries \ Targeted[e]
          BY <3>1 DEF Works
        <4> QED
          BY <3>2, <3>3, <4>1 DEF Works
      <3>5. WorksAlone'
        BY <3>2 DEF WorksAlone
      <3>6. \A d \in Deliveries : Counted(d)'
        <4> SUFFICES ASSUME NEW d \in Deliveries
                     PROVE  Counted(d)'
          OBVIOUS
        <4>1. CASE d \in Targeted[e]
          BY <3>1, <3>2, <3>3, <4>1, MaxAttemptsAssumption DEF Counted
        <4>2. CASE d \notin Targeted[e]
          BY <3>2, <3>3, <4>2 DEF Counted
        <4> QED
          BY <4>1, <4>2
      <3>7. \A f \in Events : Awaits(f)'
        <4> SUFFICES ASSUME NEW f \in Events, f \notin notified', NEW d \in Targeted[f]
                     PROVE  delivery'[d].status = "NONE"
          BY DEF Awaits
        <4>1. f # e /\ f \notin notified
          BY <3>2
        <4>2. d \in Deliveries \ Targeted[e]
          BY <4>1, EventsAssumption
        <4> QED
          BY <3>3, <4>1, <4>2 DEF Awaits
      <3> QED
        BY <3>4, <3>5, <3>6, <3>7
    <2> QED
      BY <2>1, <2>2
  <1>3. ASSUME NEW e \in Events, RejectNotice(e)
        PROVE  Dispatched'
    BY <1>3 DEF RejectNotice, deliveryVars, Works, WorksAlone, Counted, Awaits
  <1>4. ASSUME NEW h \in Handlers, NEW e \in Events, Read(h, e)
        PROVE  Dispatched'
    BY <1>4 DEF Read, deliveryVars, Works, WorksAlone, Counted, Awaits
  <1>5. ASSUME NEW h \in Handlers, Commit(h)
        PROVE  Dispatched'
    BY <1>5 DEF Commit, deliveryVars, Works, WorksAlone, Counted, Awaits
  <1>6. ASSUME NEW h \in Handlers, Reject(h)
        PROVE  Dispatched'
    BY <1>6 DEF Reject, deliveryVars, Works, WorksAlone, Counted, Awaits
  <1>7. CASE Restart
    BY <1>7 DEF Restart, deliveryVars, Works, WorksAlone, Counted, Awaits
  <1>8. ASSUME NEW w \in Workers, NEW d \in Deliveries, Claim(w, d), UNCHANGED others
        PROVE  Dispatched'
    <2>1. sending[w].stage = "idle" /\ delivery[d].status = "PENDING_PROVIDER"
      BY <1>8 DEF Claim, Idle, Claimable
    <2>2. /\ accepted' = accepted /\ doubted' = doubted /\ repeated' = repeated
          /\ notified' = notified
          /\ delivery'[d].status = "SENDING"
          /\ \A e \in Deliveries \ {d} : delivery'[e] = delivery[e]
      BY <1>8 DEF Claim, others
    <2>3. /\ sending'[w] = [delivery |-> d, attempts |-> delivery[d].attempts,
                            stage |-> "claimed"]
          /\ \A x \in Workers \ {w} : sending'[x] = sending[x]
      BY <1>8 DEF Claim
    <2>4. \A x \in Workers :
            sending[x].stage # "idle" => sending[x].delivery # d \/ d \in repeated
      BY <2>1 DEF Works
    <2>5. \A x \in Workers : Works(x)'
      <3> SUFFICES ASSUME NEW x \in Workers
                   PROVE  Works(x)'
        OBVIOUS
      <3>1. CASE x = w
        <4>1. /\ delivery[d].attempts < MaxAttempts
              /\ d \notin repeated =>
                   /\ accepted[d] <= delivery[d].attempts
                   /\ d \in doubted \/ accepted[d] = 0
          BY <2>1 DEF Counted
        <4>2. delivery[d].attempts <= MaxAttempts
          BY <4>1, MaxAttemptsAssumption DEF Attempts
        <4>3. /\ sending'[w].delivery = d /\ sending'[w].attempts = delivery[d].attempts
              /\ sending'[w].stage = "claimed" /\ delivery'[d].status = "SENDING"
          BY <2>2, <2>3
        <4> QED
          BY <2>2, <3>1, <4>1, <4>2, <4>3 DEF Works
      <3>2. CASE x # w
        <4>1. sending'[x] = sending[x]
          BY <2>3, <3>2
        <4> QED
          BY <2>2, <2>4, <4>1 DEF Works
      <3> QED
        BY <3>1, <3>2
    <2>6. WorksAlone'
      <3> SUFFICES ASSUME NEW x \in Workers, NEW y \in Workers,
                          sending'[x].stage # "idle", sending'[y].stage # "idle",
                          sending'[x].delivery = sending'[y].delivery,
                          sending'[x].delivery \notin repeated
                   PROVE  x = y
        BY <2>2 DEF WorksAlone
      <3>1. CASE x # w /\ y # w
        BY <2>3, <3>1 DEF WorksAlone
      <3>2. CASE x = w /\ y # w
        BY <2>3, <2>4, <3>2
      <3>3. CASE x # w /\ y = w
        BY <2>3, <2>4, <3>3
      <3> QED
        BY <3>1, <3>2, <3>3
    <2>7. \A e \in Deliveries : Counted(e)'
      <3> SUFFICES ASSUME NEW e \in Deliveries
                   PROVE  Counted(e)'
        OBVIOUS
      <3>1. CASE e = d
        BY <2>2, <3>1 DEF Counted
      <3>2. CASE e # d
        BY <2>2, <3>2 DEF Counted
      <3> QED
        BY <3>1, <3>2
    <2>8. \A e \in Events : Awaits(e)'
      <3> SUFFICES ASSUME NEW e \in Events, e \notin notified', NEW f \in Targeted[e]
                   PROVE  delivery'[f].status = "NONE"
        BY DEF Awaits
      <3>1. f \in Deliveries /\ delivery[f].status = "NONE"
        BY <2>2, EventsAssumption DEF Awaits
      <3>2. f # d
        BY <2>1, <3>1
      <3> QED
        BY <2>2, <3>1, <3>2
    <2> QED
      BY <2>5, <2>6, <2>7, <2>8
  <1>9. ASSUME NEW w \in Workers, Send(w), UNCHANGED others
        PROVE  Dispatched'
    BY <1>9, EventsAssumption, MaxAttemptsAssumption, NoneAssumption
       DEF Send, Accept, others, deliveryVars, Works, WorksAlone, Counted, Awaits, Idle,
           Attempts
  <1>10. ASSUME NEW w \in Workers, FailToSend(w), UNCHANGED others
        PROVE  Dispatched'
    BY <1>10, EventsAssumption, MaxAttemptsAssumption, NoneAssumption
       DEF FailToSend, others, deliveryVars, Works, WorksAlone, Counted, Awaits, Idle, Attempts
  <1>11. ASSUME NEW w \in Workers, LoseSend(w), UNCHANGED others
        PROVE  Dispatched'
    BY <1>11, EventsAssumption, MaxAttemptsAssumption, NoneAssumption
       DEF LoseSend, Accept, others, deliveryVars, Works, WorksAlone, Counted, Awaits, Idle,
           Attempts
  <1>12. ASSUME NEW w \in Workers, SaveDelivered(w), UNCHANGED others
        PROVE  Dispatched'
    BY <1>12, EventsAssumption, MaxAttemptsAssumption, NoneAssumption
       DEF SaveDelivered, Saved, others, deliveryVars, Works, WorksAlone, Counted, Awaits, Idle,
           Attempts
  <1>13. ASSUME NEW w \in Workers, LoseSaveDelivered(w), UNCHANGED others
        PROVE  Dispatched'
    <2> DEFINE d == sending[w].delivery
    <2>1. /\ d \in Deliveries /\ sending[w].stage = "sent" /\ sending[w].attempts <= MaxAttempts
          /\ d \notin repeated => accepted[d] <= sending[w].attempts
          /\ delivery[d].status # "NONE"
          /\ d \notin repeated => delivery[d].status \in {"SENDING", "DELIVERED"}
      BY <1>13 DEF LoseSaveDelivered, Works
    <2>2. /\ accepted' = accepted /\ repeated' = repeated /\ doubted' = doubted \cup {d}
          /\ notified' = notified
          /\ sending'[w].delivery = d /\ sending'[w].attempts = sending[w].attempts
          /\ sending'[w].stage = "failing" /\ \A x \in Workers \ {w} : sending'[x] = sending[x]
      BY <1>13 DEF LoseSaveDelivered, others
    <2>3. /\ \/ /\ delivery'[d].status = delivery[d].status
                /\ delivery'[d].attempts = delivery[d].attempts
             \/ delivery'[d].status = "DELIVERED"
          /\ \A c \in Deliveries \ {d} : delivery'[c] = delivery[c]
      BY <1>13, <2>1 DEF LoseSaveDelivered, Saved
    <2>4. ASSUME NEW x \in Workers
          PROVE  Works(x)'
      <3>1. CASE x = w
        BY <2>1, <2>2, <2>3, <3>1 DEF Works, Attempts
      <3>2. CASE x # w
        <4>1. sending'[x] = sending[x]
          BY <2>2, <3>2
        <4>2. CASE sending[x].delivery = d
          BY <2>1, <2>2, <2>3, <4>1, <4>2 DEF Works
        <4>3. CASE sending[x].delivery # d
          BY <2>2, <2>3, <4>1, <4>3 DEF Works
        <4> QED
          BY <4>2, <4>3
      <3> QED
        BY <3>1, <3>2
    <2>5. WorksAlone'
      <3>1. \A x \in Workers : /\ sending'[x].delivery = sending[x].delivery
                              /\ sending'[x].stage # "idle" => sending[x].stage # "idle"
        BY <2>1, <2>2
      <3> QED
        BY <2>2, <3>1 DEF WorksAlone
    <2>6. ASSUME NEW c \in Deliveries
          PROVE  Counted(c)'
      <3>1. CASE c = d
        BY <2>1, <2>2, <2>3, <3>1 DEF Counted
      <3>2. CASE c # d
        BY <2>2, <2>3, <3>2 DEF Counted
      <3> QED
        BY <3>1, <3>2
    <2>7. ASSUME NEW e \in Events
          PROVE  Awaits(e)'
      <3> SUFFICES ASSUME e \notin notified, NEW c \in Targeted[e]
                   PROVE  delivery'[c].status = "NONE"
        BY <2>2 DEF Awaits
      <3>1. c \in Deliveries /\ delivery[c].status = "NONE"
        BY EventsAssumption DEF Awaits
      <3>2. c # d
        BY <2>1, <3>1
      <3> QED
        BY <2>3, <3>1, <3>2
    <2> QED
      BY <2>4, <2>5, <2>6, <2>7
  <1>14. ASSUME NEW w \in Workers, Fail(w), UNCHANGED others
        PROVE  Dispatched'
    BY <1>14, EventsAssumption, MaxAttemptsAssumption, NoneAssumption
       DEF Fail, SaveFailure, Saved, others, deliveryVars, Works, WorksAlone, Counted, Awaits, Idle, Attempts
  <1>17. ASSUME NEW w \in Workers, LoseFail(w), UNCHANGED others
        PROVE  Dispatched'
    BY <1>17, EventsAssumption, MaxAttemptsAssumption, NoneAssumption
       DEF LoseFail, SaveFailure, Saved, others, deliveryVars, Works, WorksAlone, Counted, Awaits,
           Idle, Attempts
  <1>18. ASSUME NEW s \in Services, Bind(s)
        PROVE  Dispatched'
    BY <1>18 DEF Bind, deliveryVars, Works, WorksAlone, Counted, Awaits
  <1>15. ASSUME NEW w \in Workers, Abandon(w), UNCHANGED others
        PROVE  Dispatched'
    BY <1>15, EventsAssumption, MaxAttemptsAssumption, NoneAssumption
       DEF Abandon, others, deliveryVars, Works, WorksAlone, Counted, Awaits, Idle, Attempts
  <1>16. CASE UNCHANGED vars
    BY <1>16 DEF vars, deliveryVars, reportVars, Works, WorksAlone, Counted, Awaits
  <1> QED
    BY <1>1, <1>2, <1>3, <1>4, <1>5, <1>6, <1>7, <1>8, <1>9, <1>10, <1>11, <1>12, <1>13, <1>14,
       <1>15, <1>16, <1>17, <1>18 DEF Next

\* Every step keeps the handlers in order.
LEMMA StepProjected == TypeOK /\ Projected /\ [Next]_vars => Projected'
  <1> SUFFICES ASSUME TypeOK, Projected, [Next]_vars
               PROVE  Projected'
    OBVIOUS
  <1> USE DEF TypeOK, Projected
  <1>1. ASSUME NEW e \in Events, Publish(e)
        PROVE  Projected'
    BY <1>1 DEF Publish, reportVars, Handles, ShowsItsOwn, Shows
  <1>2. ASSUME NEW e \in Events, Notify(e)
        PROVE  Projected'
    BY <1>2 DEF Notify, Create, reportVars, Handles, ShowsItsOwn, Shows
  <1>3. ASSUME NEW e \in Events, RejectNotice(e)
        PROVE  Projected'
    BY <1>3 DEF RejectNotice, reportVars, Handles, ShowsItsOwn, Shows
  <1>4. ASSUME NEW h \in Handlers, NEW e \in Events, Read(h, e)
        PROVE  Projected'
    BY <1>4, EventsAssumption DEF Read, Free, Handles, ShowsItsOwn
  <1>5. ASSUME NEW h \in Handlers, Commit(h)
        PROVE  Projected'
    <2>1. /\ handling[h].event \in Events /\ processed' = processed \cup {handling[h].event}
          /\ \/ row' = row
             \/ row' = [row EXCEPT ![Resource[handling[h].event]] = handling[h].event]
      BY <1>5 DEF Commit, Handles
    <2>2. /\ handling'[h] = Free /\ Free.read = None
          /\ \A g \in Handlers \ {h} : handling'[g] = handling[g]
      BY <1>5 DEF Commit, Free
    <2>3. ASSUME NEW g \in Handlers
          PROVE  Handles(g)'
      BY <2>1, <2>2 DEF Handles
    <2>4. ASSUME NEW r \in Resources
          PROVE  ShowsItsOwn(r)'
      BY <2>1, EventsAssumption DEF ShowsItsOwn
    <2> QED
      BY <2>3, <2>4
  <1>6. ASSUME NEW h \in Handlers, Reject(h)
        PROVE  Projected'
    BY <1>6, EventsAssumption DEF Reject, Free, Handles, ShowsItsOwn, Shows
  <1>7. CASE Restart
    BY <1>7, EventsAssumption DEF Restart, Free, Handles, ShowsItsOwn, Shows
  <1>8. ASSUME NEW w \in Workers, NEW d \in Deliveries, Claim(w, d), UNCHANGED others
        PROVE  Projected'
    BY <1>8 DEF Claim, others, reportVars, Handles, ShowsItsOwn, Shows
  <1>9. ASSUME NEW w \in Workers, Send(w), UNCHANGED others
        PROVE  Projected'
    BY <1>9 DEF Send, Accept, others, reportVars, Handles, ShowsItsOwn, Shows
  <1>10. ASSUME NEW w \in Workers, FailToSend(w), UNCHANGED others
        PROVE  Projected'
    BY <1>10 DEF FailToSend, others, reportVars, Handles, ShowsItsOwn, Shows
  <1>11. ASSUME NEW w \in Workers, LoseSend(w), UNCHANGED others
        PROVE  Projected'
    BY <1>11 DEF LoseSend, Accept, others, reportVars, Handles, ShowsItsOwn, Shows
  <1>12. ASSUME NEW w \in Workers, SaveDelivered(w), UNCHANGED others
        PROVE  Projected'
    BY <1>12 DEF SaveDelivered, others, reportVars, Handles, ShowsItsOwn, Shows
  <1>13. ASSUME NEW w \in Workers, LoseSaveDelivered(w), UNCHANGED others
        PROVE  Projected'
    BY <1>13 DEF LoseSaveDelivered, others, reportVars, Handles, ShowsItsOwn, Shows
  <1>14. ASSUME NEW w \in Workers, Fail(w), UNCHANGED others
        PROVE  Projected'
    BY <1>14 DEF Fail, others, reportVars, Handles, ShowsItsOwn, Shows
  <1>17. ASSUME NEW w \in Workers, LoseFail(w), UNCHANGED others
        PROVE  Projected'
    BY <1>17 DEF LoseFail, others, reportVars, Handles, ShowsItsOwn, Shows
  <1>18. ASSUME NEW s \in Services, Bind(s)
        PROVE  Projected'
    BY <1>18 DEF Bind, reportVars, Handles, ShowsItsOwn, Shows
  <1>15. ASSUME NEW w \in Workers, Abandon(w), UNCHANGED others
        PROVE  Projected'
    BY <1>15 DEF Abandon, others, reportVars, Handles, ShowsItsOwn, Shows
  <1>16. CASE UNCHANGED vars
    BY <1>16 DEF vars, deliveryVars, reportVars, Handles, ShowsItsOwn
  <1> QED
    BY <1>1, <1>2, <1>3, <1>4, <1>5, <1>6, <1>7, <1>8, <1>9, <1>10, <1>11, <1>12, <1>13, <1>14,
       <1>15, <1>16, <1>17, <1>18 DEF Next

\* Every step keeps the newest event.
LEMMA StepNewest == TypeOK /\ Projected /\ Newest /\ [Next]_vars => Newest'
  <1> SUFFICES ASSUME TypeOK, Projected, Newest, [Next]_vars
               PROVE  Newest'
    OBVIOUS
  <1> USE DEF TypeOK, Projected, Newest
  <1>1. ASSUME NEW e \in Events, Publish(e)
        PROVE  Newest'
    BY <1>1 DEF Publish, reportVars, Handles, ShowsItsOwn, Shows
  <1>2. ASSUME NEW e \in Events, Notify(e)
        PROVE  Newest'
    BY <1>2 DEF Notify, Create, reportVars, Handles, ShowsItsOwn, Shows
  <1>3. ASSUME NEW e \in Events, RejectNotice(e)
        PROVE  Newest'
    BY <1>3 DEF RejectNotice, reportVars, Handles, ShowsItsOwn, Shows
  <1>4. ASSUME NEW h \in Handlers, NEW e \in Events, Read(h, e)
        PROVE  Newest'
    BY <1>4, EventsAssumption DEF Read, Free, Handles, ShowsItsOwn, Shows
  <1>5. ASSUME NEW h \in Handlers, Commit(h)
        PROVE  Newest'
    <2> DEFINE e == handling[h].event
               read == handling[h].read
               r == Resource[e]
    <2>1. e \in Events /\ r \in Resources /\ read \in Events \cup {None}
      BY <1>5, EventsAssumption DEF Commit, Handles
    <2>2. processed' = processed \cup {e} /\ ~(read = None /\ row[r] # None)
      BY <1>5 DEF Commit, Refused
    <2>3. \A f \in Events : OccurredAt[f] \in Nat
      BY EventsAssumption
    <2>4. read # None => row[r] # None /\ read \in processed /\ Resource[read] = r
      BY <2>1 DEF Handles, Shows
    <2>5. ASSUME NEW f \in Events, f \in processed'
          PROVE  /\ row'[Resource[f]] # None
                 /\ Resource[f] \notin overtaken' => OccurredAt[row'[Resource[f]]] >= OccurredAt[f]
      <3>1. Resource[f] \in Resources
        BY EventsAssumption
      <3>2. CASE Resource[f] # r
        <4>1. f \in processed /\ row'[Resource[f]] = row[Resource[f]]
          BY <1>5, <2>1, <2>2, <2>5, <3>1, <3>2 DEF Commit
        <4>2. Resource[f] \in overtaken <=> Resource[f] \in overtaken'
          BY <1>5, <3>2 DEF Commit, OvertakenBy
        <4> QED
          BY <4>1, <4>2 DEF Shows
      <3>3. CASE Resource[f] = r /\ ~Projects(e, read)
        <4>1. row' = row /\ overtaken' = overtaken
          BY <1>5, <3>3 DEF Commit
        <4>2. read # None /\ OccurredAt[read] > OccurredAt[e] /\ read \in Events
          BY <2>1, <2>3, <3>3 DEF Projects
        <4>3. row[r] # None /\ (r \notin overtaken => OccurredAt[row[r]] >= OccurredAt[read])
          BY <2>4, <4>2 DEF Shows
        <4>4. CASE f = e
          BY <2>1, <2>3, <3>3, <4>1, <4>2, <4>3, <4>4
        <4>5. CASE f # e
          BY <2>2, <2>5, <3>3, <4>1, <4>5 DEF Shows
        <4> QED
          BY <4>4, <4>5
      <3>4. CASE Resource[f] = r /\ Projects(e, read)
        <4>1. row'[r] = e /\ overtaken' = OvertakenBy(e, read)
          BY <1>5, <2>1, <3>4 DEF Commit
        <4>2. f = e \/ f \in processed
          BY <2>2, <2>5
        <4>3. CASE f = e
          BY <2>1, <2>3, <3>4, <4>1, <4>3, EventsAssumption
        <4>4. CASE f \in processed
          <5>1. row[r] # None /\ row[r] \in Events
            BY <2>1, <3>4, <4>4 DEF Shows
          <5>2. ASSUME r \notin OvertakenBy(e, read)
                PROVE  OccurredAt[e] >= OccurredAt[f]
            <6>1. CASE IsNewest(e)
              BY <3>4, <4>4, <6>1, <2>1, <2>3 DEF IsNewest
            <6>2. CASE ~IsNewest(e)
              <7>1. r \notin overtaken /\ ~Overtakes(e, read)
                BY <5>2, <6>2 DEF OvertakenBy
              <7>2. OccurredAt[row[r]] >= OccurredAt[f]
                BY <3>4, <4>4, <7>1 DEF Shows
              <7>3. OccurredAt[row[r]] <= OccurredAt[e]
                BY <2>1, <2>3, <3>4, <5>1, <7>1 DEF Overtakes, Projects
              <7> QED
                BY <2>1, <2>3, <5>1, <7>2, <7>3
            <6> QED
              BY <6>1, <6>2
          <5> QED
            BY <2>1, <3>4, <4>1, <5>2, EventsAssumption
        <4> QED
          BY <4>2, <4>3, <4>4
      <3> QED
        BY <3>2, <3>3, <3>4
    <2> QED
      BY <2>5 DEF Shows
  <1>6. ASSUME NEW h \in Handlers, Reject(h)
        PROVE  Newest'
    BY <1>6, EventsAssumption DEF Reject, Free, Handles, ShowsItsOwn, Shows
  <1>7. CASE Restart
    BY <1>7, EventsAssumption DEF Restart, Free, Handles, ShowsItsOwn, Shows
  <1>8. ASSUME NEW w \in Workers, NEW d \in Deliveries, Claim(w, d), UNCHANGED others
        PROVE  Newest'
    BY <1>8 DEF Claim, others, reportVars, Handles, ShowsItsOwn, Shows
  <1>9. ASSUME NEW w \in Workers, Send(w), UNCHANGED others
        PROVE  Newest'
    BY <1>9 DEF Send, Accept, others, reportVars, Handles, ShowsItsOwn, Shows
  <1>10. ASSUME NEW w \in Workers, FailToSend(w), UNCHANGED others
        PROVE  Newest'
    BY <1>10 DEF FailToSend, others, reportVars, Handles, ShowsItsOwn, Shows
  <1>11. ASSUME NEW w \in Workers, LoseSend(w), UNCHANGED others
        PROVE  Newest'
    BY <1>11 DEF LoseSend, Accept, others, reportVars, Handles, ShowsItsOwn, Shows
  <1>12. ASSUME NEW w \in Workers, SaveDelivered(w), UNCHANGED others
        PROVE  Newest'
    BY <1>12 DEF SaveDelivered, others, reportVars, Handles, ShowsItsOwn, Shows
  <1>13. ASSUME NEW w \in Workers, LoseSaveDelivered(w), UNCHANGED others
        PROVE  Newest'
    BY <1>13 DEF LoseSaveDelivered, others, reportVars, Handles, ShowsItsOwn, Shows
  <1>14. ASSUME NEW w \in Workers, Fail(w), UNCHANGED others
        PROVE  Newest'
    BY <1>14 DEF Fail, others, reportVars, Handles, ShowsItsOwn, Shows
  <1>17. ASSUME NEW w \in Workers, LoseFail(w), UNCHANGED others
        PROVE  Newest'
    BY <1>17 DEF LoseFail, others, reportVars, Handles, ShowsItsOwn, Shows
  <1>18. ASSUME NEW s \in Services, Bind(s)
        PROVE  Newest'
    BY <1>18 DEF Bind, reportVars, Handles, ShowsItsOwn, Shows
  <1>15. ASSUME NEW w \in Workers, Abandon(w), UNCHANGED others
        PROVE  Newest'
    BY <1>15 DEF Abandon, others, reportVars, Handles, ShowsItsOwn, Shows
  <1>16. CASE UNCHANGED vars
    BY <1>16 DEF vars, deliveryVars, reportVars, Shows
  <1> QED
    BY <1>1, <1>2, <1>3, <1>4, <1>5, <1>6, <1>7, <1>8, <1>9, <1>10, <1>11, <1>12, <1>13, <1>14,
       <1>15, <1>16, <1>17, <1>18 DEF Next

\* The invariant is inductive.
LEMMA StepIInv == IInv /\ [Next]_vars => IInv'
  BY StepTypes, StepDispatched, StepProjected, StepNewest DEF IInv

\* Every reachable state satisfies it.
LEMMA AlwaysIInv == Spec => []IInv
  BY InitIInv, StepIInv, PTL DEF Spec

-----------------------------------------------------------------------------
(* Theorems.                                                               *)

\* Every reachable state is well typed.
THEOREM TypeCorrect == Spec => []TypeOK
  <1>1. IInv => TypeOK
    BY DEF IInv
  <1> QED
    BY <1>1, AlwaysIInv, PTL

\* A delivery is given to the provider no more often than MAX_ATTEMPTS, unless its failure
\* was saved without its worker's knowing.
THEOREM ProviderIsSpared == Spec => []AttemptsAreBounded
  <1>1. IInv => AttemptsAreBounded
    BY DEF IInv, Dispatched, Counted, AttemptsAreBounded
  <1> QED
    BY <1>1, AlwaysIInv, PTL

\* Replicas send nothing twice unless an answer of the provider or of the database was lost.
THEOREM NothingIsSentTwice == Spec => []SentTwiceOnlyInDoubt
  <1>1. IInv => SentTwiceOnlyInDoubt
    <2> SUFFICES ASSUME IInv, NEW d \in Deliveries, accepted[d] > 1
                 PROVE  d \in doubted \cup repeated
      BY DEF SentTwiceOnlyInDoubt
    <2>1. d \in doubted \cup repeated \/ accepted[d] <= 1
      BY DEF IInv, Dispatched, Counted
    <2>2. accepted[d] \in 0 .. MaxAttempts + 1
      BY DEF IInv, TypeOK, DeliveryTypeOK
    <2> QED
      BY <2>1, <2>2, MaxAttemptsAssumption
  <1> QED
    BY <1>1, AlwaysIInv, PTL

\* A projection shows the newest of the events processed for it, unless an older one whose
\* handler had read the row before overwrote it, and none as new was projected since.
THEOREM ProjectionsAreNewest == Spec => []NewestEventStands
  <1>1. IInv => NewestEventStands
    BY DEF IInv, TypeOK, Newest, Shows, NewestEventStands
  <1> QED
    BY <1>1, AlwaysIInv, PTL

-----------------------------------------------------------------------------
(* The flow of events to both consumers.                                   *)

\* What reporting has to do, and what it gave up.
ToReport == {e \in Events : reports[e] > 0 \/ \E h \in Handlers : handling[h].event = e}

Unreported == {e \in Events : "reporting" \in deadLetters[e]}

\* A handler that is done with its event may leave it to a copy, or to another handler.
LEMMA HandlersLetGo ==
    ASSUME TypeOK, Projected, NEW h \in Handlers, handling[h] # Free,
           handling' = [handling EXCEPT ![h] = Free], reports' = reports
    PROVE  /\ handling[h].event \in ToReport
           /\ ToReport' = ToReport \/ ToReport' = ToReport \ {handling[h].event}
  <1>1. PICK e \in Events : e = handling[h].event
    BY DEF Projected, Handles
  <1>2. /\ handling'[h] = Free /\ Free.event \notin Events
        /\ \A g \in Handlers \ {h} : handling'[g] = handling[g]
    BY EventsAssumption DEF TypeOK, Free
  <1>3. \A d \in Events : d # e => (d \in ToReport' <=> d \in ToReport)
    <2>1. ASSUME NEW d \in Events, d # e
          PROVE  (\E g \in Handlers : handling'[g].event = d)
                 <=> \E g \in Handlers : handling[g].event = d
      BY <1>1, <1>2, <2>1
    <2> QED
      BY <2>1 DEF ToReport
  <1>4. e \in ToReport
    BY <1>1 DEF ToReport
  <1>5. ToReport \subseteq Events /\ ToReport' \subseteq Events
    BY DEF ToReport
  <1> QED
    BY <1>1, <1>3, <1>4, <1>5

\* What a step does to the flow to reporting.
LEMMA ReportsFlow ==
    ASSUME TypeOK, Projected, [Next]_vars
    PROVE  [ReportingFlow!Next]_(ReportingFlow!flowVars)
  <1> DEFINE Stays == ToReport' = ToReport /\ processed' = processed /\ Unreported' = Unreported
             Sends(e) == /\ ToReport' = ToReport \cup {e}
                         /\ processed' = processed /\ Unreported' = Unreported
             Consumes(e) ==
                /\ e \in ToReport
                /\ \/ e \notin processed /\ processed' = processed \cup {e} /\ Unreported' = Unreported
                   \/ Unreported' = Unreported \cup {e} /\ processed' = processed
                   \/ processed' = processed /\ Unreported' = Unreported
                /\ \/ ToReport' = ToReport
                   \/ ToReport' = ToReport \ {e} /\ e \in processed' \cup Unreported'
             Goal == Stays \/ \E e \in Events : Sends(e) \/ Consumes(e)
  <1>1. SUFFICES Goal
    <2>1. Stays => UNCHANGED ReportingFlow!flowVars
      BY DEF ReportingFlow!flowVars, ToReport, Unreported
    <2>2. ASSUME NEW e \in Events, Sends(e)
          PROVE  ReportingFlow!Send(e)
      BY <2>2 DEF ReportingFlow!Send, ToReport, Unreported
    <2>3. ASSUME NEW e \in Events, Consumes(e)
          PROVE  ReportingFlow!Consume(e)
      BY <2>3 DEF ReportingFlow!Consume, ToReport, Unreported
    <2> HIDE DEF Stays, Sends, Consumes
    <2> QED
      BY <2>1, <2>2, <2>3 DEF ReportingFlow!Next
  <1>2. CASE UNCHANGED <<reports, handling, processed, deadLetters>>
    BY <1>2 DEF ToReport, Unreported
  <1>3. ASSUME NEW e \in Events, Publish(e)
        PROVE  Goal
    <2>1. /\ reports' = reports \/ reports' = [reports EXCEPT ![e] = @ + 1]
          /\ handling' = handling /\ processed' = processed /\ deadLetters' = deadLetters
      BY <1>3 DEF Publish, Routed
    <2>5. CASE reports' = reports
      BY <1>2, <2>1, <2>5
    <2>6. CASE reports' = [reports EXCEPT ![e] = @ + 1]
      <3>2. \A d \in Events : reports'[d] > 0 <=> reports[d] > 0 \/ d = e
        BY <2>6 DEF TypeOK
      <3>3. ToReport' = ToReport \cup {e}
        BY <2>1, <3>2 DEF ToReport
      <3>4. Sends(e)
        BY <2>1, <3>3 DEF Unreported
      <3> HIDE DEF Stays, Sends, Consumes
      <3> QED
        BY <3>4
    <2> HIDE DEF Goal
    <2> QED
      BY <2>1, <2>5, <2>6
  <1>4. ASSUME NEW e \in Events, RejectNotice(e)
        PROVE  Goal
    <2>1. /\ reports' = reports /\ handling' = handling /\ processed' = processed
          /\ deadLetters' = [deadLetters EXCEPT ![e] = @ \cup {"notification"}]
      BY <1>4 DEF RejectNotice, reportVars
    <2>2. Unreported' = Unreported
      BY <2>1 DEF Unreported, TypeOK
    <2> QED
      BY <2>1, <2>2 DEF ToReport
  <1>5. ASSUME NEW h \in Handlers, NEW e \in Events, Read(h, e)
        PROVE  Goal
    <2>1. /\ handling[h] = Free /\ reports[e] > 0 /\ reports' = [reports EXCEPT ![e] = @ - 1]
          /\ processed' = processed /\ deadLetters' = deadLetters
      BY <1>5 DEF Read
    <2>2. \A d \in Events \ {e} : reports'[d] = reports[d]
      BY <2>1
    <2>3. e \in ToReport /\ ToReport \subseteq Events /\ ToReport' \subseteq Events
      BY <2>1 DEF ToReport
    <2>4. CASE e \in processed
      <3>1. handling' = handling
        BY <1>5, <2>4 DEF Read
       <3>2. \A d \in Events : d # e => (d \in ToReport' <=> d \in ToReport)
        BY <2>2, <3>1 DEF ToReport
      <3>3. ToReport' = ToReport \/ ToReport' = ToReport \ {e}
        BY <2>3, <3>2
      <3>4. Consumes(e)
        BY <2>1, <2>3, <2>4, <3>3 DEF Unreported
      <3> HIDE DEF Stays, Sends, Consumes
      <3> QED
        BY <3>4
    <2>5. CASE e \notin processed
      <3>1. handling' = [handling EXCEPT ![h] = [event |-> e, read |-> row[Resource[e]]]]
        BY <1>5, <2>5 DEF Read
      <3>2. /\ handling'[h].event = e /\ \A g \in Handlers \ {h} : handling'[g] = handling[g]
            /\ handling[h].event \notin Events
        BY <2>1, <3>1, EventsAssumption DEF TypeOK, Free
      <3>3. \A d \in Events : (\E g \in Handlers : handling'[g].event = d)
                              <=> d = e \/ \E g \in Handlers : handling[g].event = d
        BY <3>2
      <3>4. \A d \in Events : d \in ToReport' <=> d \in ToReport
        BY <2>2, <2>3, <3>3 DEF ToReport
      <3>5. ToReport' = ToReport
        BY <2>3, <3>4
      <3> QED
        BY <2>1, <3>5 DEF Unreported
    <2> QED
      BY <2>4, <2>5
  <1>6. ASSUME NEW h \in Handlers, Commit(h)
        PROVE  Goal
    <2>1. /\ handling[h] # Free /\ handling' = [handling EXCEPT ![h] = Free] /\ reports' = reports
          /\ handling[h].event \notin processed
          /\ processed' = processed \cup {handling[h].event} /\ deadLetters' = deadLetters
      BY <1>6 DEF Commit, Refused
    <2>2. PICK e \in Events : e = handling[h].event
      BY <2>1 DEF Projected, Handles
    <2>3. e \in ToReport /\ (ToReport' = ToReport \/ ToReport' = ToReport \ {e})
      BY <2>1, <2>2, HandlersLetGo
    <2>4. Consumes(e)
      BY <2>1, <2>2, <2>3 DEF Unreported
    <2> HIDE DEF Stays, Sends, Consumes
    <2> QED
      BY <2>4
  <1>7. ASSUME NEW h \in Handlers, Reject(h)
        PROVE  Goal
    <2>0. PICK e \in Events : e = handling[h].event
      BY <1>7 DEF Reject, Projected, Handles
    <2>1. /\ handling[h] # Free /\ handling' = [handling EXCEPT ![h] = Free] /\ reports' = reports
          /\ deadLetters' = [deadLetters EXCEPT ![e] = @ \cup {"reporting"}]
          /\ processed' = processed
      BY <1>7, <2>0 DEF Reject
    <2>2. e \in ToReport /\ (ToReport' = ToReport \/ ToReport' = ToReport \ {e})
      BY <2>0, <2>1, HandlersLetGo
    <2>3. Unreported' = Unreported \cup {e}
      <3>1. \A d \in Events : "reporting" \in deadLetters'[d]
                              <=> "reporting" \in deadLetters[d] \/ d = e
        BY <2>1 DEF TypeOK
      <3> QED
        BY <3>1 DEF Unreported
    <2>4. Consumes(e)
      BY <2>1, <2>2, <2>3
    <2> HIDE DEF Stays, Sends, Consumes
    <2> QED
      BY <2>4
  <1>8. CASE Restart
    <2>1. /\ reports' = [e \in Events |->
                reports[e] + Cardinality({h \in Handlers : handling[h].event = e})]
          /\ handling' = [h \in Handlers |-> Free]
          /\ processed' = processed /\ deadLetters' = deadLetters
      BY <1>8 DEF Restart
    <2>2. ASSUME NEW e \in Events
          PROVE  e \in ToReport' <=> e \in ToReport
      <3> DEFINE H == {h \in Handlers : handling[h].event = e}
      <3>1. IsFiniteSet(H)
        BY EventsAssumption, FS_Subset
      <3>2. Cardinality(H) \in Nat /\ (Cardinality(H) = 0 <=> H = {})
        BY <3>1, FS_CardinalityType, FS_EmptySet
      <3>3. reports[e] \in Nat /\ reports'[e] = reports[e] + Cardinality(H)
        BY <2>1 DEF TypeOK
      <3>4. reports'[e] > 0 <=> reports[e] > 0 \/ H # {}
        <4> HIDE DEF H
        <4> QED
          BY <3>2, <3>3
      <3>5. ~\E h \in Handlers : handling'[h].event = e
        BY <2>1, EventsAssumption DEF Free
      <3> QED
        BY <3>4, <3>5 DEF ToReport
    <2>3. ToReport' = ToReport
      BY <2>2 DEF ToReport
    <2> QED
      BY <2>1, <2>3 DEF Unreported
  <1>9. CASE Next
    <2>1. \/ UNCHANGED <<reports, handling, processed, deadLetters>>
          \/ \E e \in Events : Publish(e) \/ RejectNotice(e)
          \/ \E h \in Handlers, e \in Events : Read(h, e)
          \/ \E h \in Handlers : Commit(h) \/ Reject(h)
          \/ Restart
      BY <1>9 DEF Next, Bind, Notify, reportVars, others
    <2> HIDE DEF Goal
    <2> QED
      BY <1>2, <1>3, <1>4, <1>5, <1>6, <1>7, <1>8, <2>1
  <1> QED
    BY <1>2, <1>9 DEF vars, reportVars

\* What notification has to do, and what it gave up.
ToNotify == {e \in Events : notices[e] > 0}

Unnotified == {e \in Events : "notification" \in deadLetters[e]}

\* What a step does to the flow to notification.
LEMMA NoticesFlow ==
    ASSUME TypeOK, Projected, [Next]_vars
    PROVE  [NotificationFlow!Next]_(NotificationFlow!flowVars)
  <1>1. CASE UNCHANGED <<notices, notified, deadLetters>>
    BY <1>1 DEF NotificationFlow!flowVars
  <1>2. ASSUME NEW e \in Events, Publish(e)
        PROVE  [NotificationFlow!Next]_(NotificationFlow!flowVars)
    <2>1. /\ notices' = notices \/ notices' = [notices EXCEPT ![e] = @ + 1]
          /\ notified' = notified /\ deadLetters' = deadLetters
      BY <1>2 DEF Publish, Routed
    <2>2. CASE notices' = [notices EXCEPT ![e] = @ + 1]
      <3>1. \A d \in Events : notices'[d] > 0 <=> notices[d] > 0 \/ d = e
        BY <2>2 DEF TypeOK
      <3>2. ToNotify' = ToNotify \cup {e}
        BY <3>1 DEF ToNotify
      <3>3. NotificationFlow!Send(e)
        BY <2>1, <3>2 DEF NotificationFlow!Send, ToNotify
      <3> QED
        BY <3>3 DEF NotificationFlow!Next
    <2> QED
      BY <1>1, <2>1, <2>2
  <1>3. ASSUME NEW e \in Events, notices[e] > 0, notices' = [notices EXCEPT ![e] = @ - 1]
        PROVE  e \in ToNotify /\ (ToNotify' = ToNotify \/ ToNotify' = ToNotify \ {e})
    <2>1. \A d \in Events \ {e} : notices'[d] = notices[d]
      BY <1>3
    <2>2. /\ \A d \in Events : d # e => (d \in ToNotify' <=> d \in ToNotify)
          /\ e \in ToNotify /\ ToNotify \subseteq Events /\ ToNotify' \subseteq Events
      BY <1>3, <2>1 DEF ToNotify
    <2> QED
      BY <2>2
  <1>4. ASSUME NEW e \in Events, Notify(e)
        PROVE  NotificationFlow!Next
    <2>1. e \in ToNotify /\ (ToNotify' = ToNotify \/ ToNotify' = ToNotify \ {e})
      BY <1>3, <1>4 DEF Notify
    <2>2. /\ deadLetters' = deadLetters /\ Unnotified' = Unnotified
          /\ \/ e \in notified /\ notified' = notified
             \/ e \notin notified /\ notified' = notified \cup {e}
      BY <1>4 DEF Notify, Unnotified
    <2>3. NotificationFlow!Consume(e)
      BY <2>1, <2>2 DEF NotificationFlow!Consume, ToNotify, Unnotified
    <2> QED
      BY <2>3 DEF NotificationFlow!Next
  <1>5. ASSUME NEW e \in Events, RejectNotice(e)
        PROVE  NotificationFlow!Next
    <2>1. e \in ToNotify /\ (ToNotify' = ToNotify \/ ToNotify' = ToNotify \ {e})
      BY <1>3, <1>5 DEF RejectNotice
    <2>2. /\ deadLetters' = [deadLetters EXCEPT ![e] = @ \cup {"notification"}]
          /\ notified' = notified
      BY <1>5 DEF RejectNotice
    <2>3. Unnotified' = Unnotified \cup {e}
      <3>1. \A d \in Events : "notification" \in deadLetters'[d]
                              <=> "notification" \in deadLetters[d] \/ d = e
        BY <2>2 DEF TypeOK
      <3> QED
        BY <3>1 DEF Unnotified
    <2>4. NotificationFlow!Consume(e)
      BY <2>1, <2>2, <2>3 DEF NotificationFlow!Consume, ToNotify, Unnotified
    <2> QED
      BY <2>4 DEF NotificationFlow!Next
  <1>6. ASSUME NEW h \in Handlers, Reject(h)
        PROVE  UNCHANGED NotificationFlow!flowVars
    <2>1. /\ notices' = notices /\ notified' = notified
          /\ deadLetters' = [deadLetters EXCEPT ![handling[h].event] = @ \cup {"reporting"}]
      BY <1>6 DEF Reject
    <2>2. Unnotified' = Unnotified
      BY <2>1 DEF Unnotified, TypeOK
    <2> QED
      BY <2>1, <2>2 DEF NotificationFlow!flowVars, Unnotified
  <1>7. CASE Next
    <2>1. \/ UNCHANGED <<notices, notified, deadLetters>>
          \/ \E e \in Events : Publish(e) \/ Notify(e) \/ RejectNotice(e)
          \/ \E h \in Handlers : Reject(h)
      BY <1>7 DEF Next, Bind, Read, Commit, Restart, others
    <2> QED
      BY <1>1, <1>2, <1>4, <1>5, <1>6, <2>1
  <1> QED
    BY <1>1, <1>7 DEF vars

\* Reporting keeps the promise of EventFlow: it processes an event once, and what it has taken
\* or what waits for it is left only when it was processed or dead-lettered, also at a restart.
THEOREM ReportingFlows == Spec => ReportingImplementsFlow
  <1>1. Init => ReportingFlow!Init
    BY EventsAssumption DEF Init, Free, ReportingFlow!Init
  <1>2. IInv => TypeOK /\ Projected
    BY DEF IInv
  <1>3. IInv /\ [Next]_vars => [ReportingFlow!Next]_(ReportingFlow!flowVars)
    BY <1>2, ReportsFlow
  <1> QED
    BY <1>1, <1>3, AlwaysIInv, PTL DEF Spec, ReportingImplementsFlow, ReportingFlow!Spec

\* So does notification: an event brings about its deliveries once, and a notice is left only
\* when its rows were written or it lies with the dead letters.
THEOREM NotificationFlows == Spec => NotificationImplementsFlow
  <1>1. Init => NotificationFlow!Init
    BY DEF Init, NotificationFlow!Init
  <1>2. IInv => TypeOK /\ Projected
    BY DEF IInv
  <1>3. IInv /\ [Next]_vars => [NotificationFlow!Next]_(NotificationFlow!flowVars)
    BY <1>2, NoticesFlow
  <1> QED
    BY <1>1, <1>3, AlwaysIInv, PTL DEF Spec, NotificationImplementsFlow, NotificationFlow!Spec

-----------------------------------------------------------------------------
(* Scores: what the tables say of one another.                             *)

\* The rows of the tables, without the bound of TypeOK on the number of versions, and without
\* the value of an overall score, which a fold computes.
SheetRows == [status : {"DRAFT"} \cup Released, enteredBy : Users,
              draftScores : [Skills -> Int], currentVersion : Nat]

VersionIsTyped(v) ==
    /\ v.application \in Applications /\ v.number \in Nat
    /\ v.scores \in [Skills -> Int]
    /\ v.rule \in Forms /\ v.source \in {Original} \cup Appeals

ScoresTyped ==
    /\ RulesTypeOK
    /\ eligibility \in [Applications -> {"NONE", "ELIGIBLE", "ABSENT"}]
    /\ head \in [Exams -> Users \cup {NoOne}]
    /\ \A d \in drafting :
          d.application \in Applications /\ d.user \in Users /\ d.scores \in ScoreValues
    /\ sheet \in [Applications -> SheetRows \cup {NoRow}]
    /\ \A v \in versions : VersionIsTyped(v)
    /\ declared \in [Exams -> Forms \cup {NoRow}]

\* The versions V are numbered from 1 to n.
Numbered(V, n) ==
    /\ IsFiniteSet(V) /\ Cardinality(V) = n
    /\ \A v \in V : v.number \in 1 .. n
    /\ \A i \in 1 .. n : \E v \in V : v.number = i
    /\ \A v, w \in V : v.number = w.number => v = w

\* Each differs from the one before, and all are calculated with one rule.
Chained(V) ==
    /\ \A v \in V : v.source = Original <=> v.number = 1
    /\ \A v, w \in V : v.rule = w.rule /\ (v.number = w.number + 1 => v.scores # w.scores)

\* How many versions a sheet says it has.
Count(a) == IF HasSheet(a) THEN sheet[a].currentVersion ELSE 0

\* The sheet shows the version it names.
SheetIsCurrent(a) ==
    HasSheet(a) =>
        /\ sheet[a].currentVersion = 0 <=> sheet[a].status = "DRAFT"
        /\ sheet[a].currentVersion > 1 <=> sheet[a].status = "REVISED"
        /\ \A v \in VersionsOf(a) :
              v.number = sheet[a].currentVersion => v.scores = sheet[a].draftScores

SheetIsAHistory(a) ==
    /\ Numbered(VersionsOf(a), Count(a))
    /\ Chained(VersionsOf(a))
    /\ SheetIsCurrent(a)

\* An appeal makes one version, and its answers name it.
AppealsReviseOnce ==
    /\ \A v, w \in versions : v.source = w.source /\ v.source # Original => v = w
    /\ \A r \in answers : r.scope \in Appeals => \E v \in versions :
          v.source = r.scope /\ v.application = r.application /\ v.number = r.number
                             /\ v.overall = r.overall

\* A sheet, and a draft that is still to be written, is of a candidate who was eligible.
SheetsAreOfCandidates ==
    /\ \A a \in Applications : HasSheet(a) => eligibility[a] # "NONE"
    /\ \A d \in drafting : eligibility[d.application] # "NONE"

ScoresInv ==
    /\ ScoresTyped
    /\ ApprovedRulesAreDisjoint
    /\ \A a \in Applications : SheetIsAHistory(a)
    /\ AppealsReviseOnce
    /\ SheetsAreOfCandidates

-----------------------------------------------------------------------------
(* Scores: versions one by one.                                            *)

\* One more version.
LEMMA NumberedGrows ==
    ASSUME NEW V, NEW n \in Nat, Numbered(V, n), NEW v, v.number = n + 1
    PROVE  Numbered(V \cup {v}, n + 1)
  <1>1. v \notin V
    BY DEF Numbered
  <1>2. IsFiniteSet(V \cup {v}) /\ Cardinality(V \cup {v}) = n + 1
    BY <1>1, FS_AddElement DEF Numbered
  <1>3. \A w \in V \cup {v} : w.number \in 1 .. n + 1
    BY DEF Numbered
  <1>4. \A i \in 1 .. n + 1 : \E w \in V \cup {v} : w.number = i
    <2> SUFFICES ASSUME NEW i \in 1 .. n + 1
                 PROVE  \E w \in V \cup {v} : w.number = i
      OBVIOUS
    <2>1. CASE i = n + 1
      BY <2>1
    <2>2. CASE i \in 1 .. n
      BY <2>2 DEF Numbered
    <2> QED
      BY <2>1, <2>2
  <1>5. \A w, x \in V \cup {v} : w.number = x.number => w = x
    BY DEF Numbered
  <1> QED
    BY <1>2, <1>3, <1>4, <1>5 DEF Numbered

\* One that differs from the last, with the same rule.
LEMMA ChainedGrows ==
    ASSUME NEW V, NEW n \in Nat, Numbered(V, n), Chained(V), NEW v, v.number = n + 1,
           v.source = Original <=> n = 0,
           \A w \in V : w.rule = v.rule /\ (w.number = n => v.scores # w.scores)
    PROVE  Chained(V \cup {v})
  <1>1. \A w \in V : w.number \in 1 .. n
    BY DEF Numbered
  <1>2. \A w \in V \cup {v} : w.source = Original <=> w.number = 1
    BY DEF Chained
  <1>3. \A w, x \in V \cup {v} : w.rule = x.rule
    BY DEF Chained
  <1>4. ASSUME NEW w \in V \cup {v}, NEW x \in V \cup {v}, w.number = x.number + 1
        PROVE  w.scores # x.scores
    <2>1. CASE w \in V /\ x \in V
      BY <1>4, <2>1 DEF Chained
    <2>2. CASE w = v /\ x \in V
      BY <1>1, <1>4, <2>2
    <2>3. CASE x = v
      BY <1>1, <1>4, <2>3
    <2> QED
      BY <2>1, <2>2, <2>3
  <1> QED
    BY <1>2, <1>3, <1>4 DEF Chained

\* An entry is not the absence of one.
LEMMA RowsAreSheets == NoRow \notin SheetRows
  BY DEF NoRow, SheetRows

\* Every sheet has as many versions as it says.
LEMMA CountIsTyped ==
    ASSUME ScoresTyped, NEW a \in Applications
    PROVE  Count(a) \in Nat /\ (HasSheet(a) => sheet[a] \in SheetRows)
  BY DEF ScoresTyped, Count, HasSheet, SheetRows

\* The version a released sheet names is there, and is what the sheet shows.
LEMMA CurrentIsThere ==
    ASSUME ScoresInv, NEW a \in Applications, HasSheet(a), sheet[a].status # "DRAFT"
    PROVE  /\ CurrentVersion(a) \in VersionsOf(a)
           /\ CurrentVersion(a).number = sheet[a].currentVersion
           /\ CurrentVersion(a).scores = sheet[a].draftScores
           /\ sheet[a].currentVersion >= 1
  <1>1. sheet[a].currentVersion \in Nat /\ Count(a) = sheet[a].currentVersion
    BY CountIsTyped DEF ScoresInv, Count
  <1>2. Numbered(VersionsOf(a), Count(a)) /\ SheetIsCurrent(a)
    BY DEF ScoresInv, SheetIsAHistory
  <1>3. sheet[a].currentVersion >= 1
    BY <1>1, <1>2 DEF SheetIsCurrent
  <1>4. \E v \in VersionsOf(a) : v.number = sheet[a].currentVersion
    BY <1>1, <1>2, <1>3 DEF Numbered
  <1>5. /\ CurrentVersion(a) \in VersionsOf(a)
        /\ CurrentVersion(a).number = sheet[a].currentVersion
    BY <1>4 DEF CurrentVersion
  <1> QED
    BY <1>2, <1>3, <1>5 DEF SheetIsCurrent

-----------------------------------------------------------------------------
(* Scores: the steps.                                                      *)

\* No rules, no sheets, no versions.
LEMMA InitScoresInv == ScoresInit => ScoresInv
  <1> SUFFICES ASSUME ScoresInit
               PROVE  ScoresInv
    OBVIOUS
  <1>1. ScoresTyped
    BY FormsAssumption DEF ScoresInit, RulesInit, ScoresTyped, RulesTypeOK
  <1>2. ApprovedRulesAreDisjoint /\ AppealsReviseOnce /\ SheetsAreOfCandidates
    BY DEF ScoresInit, RulesInit, ApprovedRulesAreDisjoint, AppealsReviseOnce,
           SheetsAreOfCandidates, HasSheet
  <1>3. ASSUME NEW a \in Applications
        PROVE  SheetIsAHistory(a)
    <2>1. VersionsOf(a) = {} /\ ~HasSheet(a)
      BY DEF ScoresInit, VersionsOf, HasSheet
    <2> QED
      BY <2>1, FS_EmptySet DEF SheetIsAHistory, SheetIsCurrent, Count, Numbered, Chained
  <1> QED
    BY <1>1, <1>2, <1>3 DEF ScoresInv

\* A rule that is approved overlaps no other approved rule, whatever was approved since its
\* period was checked.
LEMMA StepRules ==
    ASSUME RulesTypeOK, ApprovedRulesAreDisjoint, RulesStep
    PROVE  RulesTypeOK' /\ ApprovedRulesAreDisjoint'
  <1> USE DEF RulesTypeOK
  <1>1. ASSUME NEW f \in Forms, CreateRule(f)
        PROVE  RulesTypeOK' /\ ApprovedRulesAreDisjoint'
    BY <1>1 DEF CreateRule, ApprovedRulesAreDisjoint
  <1>2. ASSUME NEW f \in Forms, CheckApproval(f)
        PROVE  RulesTypeOK' /\ ApprovedRulesAreDisjoint'
    BY <1>2 DEF CheckApproval, ApprovedRulesAreDisjoint
  <1>3. ASSUME NEW f \in Forms, Approve(f)
        PROVE  RulesTypeOK' /\ ApprovedRulesAreDisjoint'
    <2>1. CASE ApprovedIn(f) \ {f} = {}
      <3>1. ruleStatus' = [ruleStatus EXCEPT ![f] = "APPROVED"]
        BY <1>3, <2>1 DEF Approve
       <3>2. \A g \in Forms \ {f} : ruleStatus[g] = "APPROVED" => ~Overlap(f, g)
        BY <2>1 DEF ApprovedIn
      <3>3. \A g \in Forms : Overlap(f, g) <=> Overlap(g, f)
        BY DEF Overlap
      <3>4. ApprovedRulesAreDisjoint'
        BY <3>1, <3>2, <3>3 DEF ApprovedRulesAreDisjoint
      <3> QED
        BY <1>3, <3>1, <3>4 DEF Approve
    <2>2. CASE ApprovedIn(f) \ {f} # {}
      BY <1>3, <2>2 DEF Approve, ApprovedRulesAreDisjoint
    <2> QED
      BY <2>1, <2>2
  <1>4. ASSUME Tick
        PROVE  RulesTypeOK' /\ ApprovedRulesAreDisjoint'
    BY <1>4, FormsAssumption DEF Tick, ApprovedRulesAreDisjoint
  <1> QED
    BY <1>1, <1>2, <1>3, <1>4 DEF RulesStep

\* The rules stay while the result service works.
LEMMA RulesStay ==
    ASSUME ScoresInv, UNCHANGED ruleVars
    PROVE  RulesTypeOK' /\ ApprovedRulesAreDisjoint'
  BY DEF ScoresInv, ScoresTyped, RulesTypeOK, ApprovedRulesAreDisjoint, ruleVars

\* A sheet that is not touched keeps its history.
LEMMA HistoryStays ==
    ASSUME ScoresInv, NEW a \in Applications, sheet'[a] = sheet[a],
           VersionsOf(a)' = VersionsOf(a)
    PROVE  SheetIsAHistory(a)'
  <1>1. SheetIsAHistory(a)
    BY DEF ScoresInv
  <1> QED
    BY <1>1 DEF SheetIsAHistory, SheetIsCurrent, Count, HasSheet

\* A sheet that gets a version more has a longer history, and the others keep theirs.
LEMMA HistoryGrows ==
    ASSUME ScoresInv, NEW a \in Applications, NEW v, v.application = a,
           v.number = Count(a) + 1,
           v.source = Original <=> Count(a) = 0,
           \A w \in VersionsOf(a) :
              w.rule = v.rule /\ (w.number = Count(a) => v.scores # w.scores),
           versions' = versions \cup {v},
           sheet'[a] \in SheetRows,
           sheet'[a].currentVersion = v.number, sheet'[a].draftScores = v.scores,
           sheet'[a].status # "DRAFT", v.number > 1 <=> sheet'[a].status = "REVISED",
           \A b \in Applications \ {a} : sheet'[b] = sheet[b],
           NEW b \in Applications
    PROVE  SheetIsAHistory(b)'
  <1>1. CASE b # a
    <2>1. VersionsOf(b)' = VersionsOf(b)
      BY <1>1 DEF VersionsOf
    <2> QED
      BY <1>1, <2>1, HistoryStays
  <1>2. CASE b = a
    <2>1. VersionsOf(a)' = VersionsOf(a) \cup {v}
      BY DEF VersionsOf
    <2>2. Count(a) \in Nat /\ Numbered(VersionsOf(a), Count(a)) /\ Chained(VersionsOf(a))
      BY CountIsTyped DEF ScoresInv, SheetIsAHistory
    <2>3. Numbered(VersionsOf(a)', v.number)
      BY <2>1, <2>2, NumberedGrows
    <2>4. Chained(VersionsOf(a)')
      BY <2>1, <2>2, ChainedGrows
    <2>5. Count(a)' = v.number /\ HasSheet(a)'
      BY RowsAreSheets DEF Count, HasSheet
    <2>6. \A w \in VersionsOf(a) : w.number # v.number
      BY <2>2 DEF Numbered
    <2>7. SheetIsCurrent(a)'
      BY <2>1, <2>2, <2>5, <2>6 DEF SheetIsCurrent
    <2> QED
      BY <1>2, <2>3, <2>4, <2>5, <2>7 DEF SheetIsAHistory
  <1> QED
    BY <1>1, <1>2

\* Steps that leave sheets, versions and answers alone.
LEMMA StepAround ==
    ASSUME ScoresInv, UNCHANGED <<sheet, versions, answers>>,
           ScoresTyped', ApprovedRulesAreDisjoint', SheetsAreOfCandidates'
    PROVE  ScoresInv'
  <1>1. ASSUME NEW a \in Applications
        PROVE  SheetIsAHistory(a)'
    BY HistoryStays DEF VersionsOf
  <1>2. AppealsReviseOnce'
    BY DEF ScoresInv, AppealsReviseOnce
  <1> QED
    BY <1>1, <1>2 DEF ScoresInv

\* The projection.
LEMMA StepProject ==
    ASSUME ScoresInv, NEW a \in Applications, Project(a)
    PROVE  ScoresInv'
  <1>1. ScoresTyped'
    BY RulesStay DEF Project, ScoresInv, ScoresTyped, VersionIsTyped
  <1>2. SheetsAreOfCandidates'
    BY DEF Project, ScoresInv, ScoresTyped, SheetsAreOfCandidates, HasSheet
  <1> QED
    BY <1>1, <1>2, RulesStay, StepAround DEF Project

\* Committees, drafts that begin or are refused, and declarations.
LEMMA StepAside ==
    ASSUME ScoresInv,
           \/ \E x \in Exams : DeclareResults(x) \/ \E u \in Users : SetCommittee(x, u)
           \/ \E d \in drafting : RefuseDraft(d)
           \/ \E a \in Applications, u \in Users, s \in ScoreValues : BeginDraft(a, u, s)
    PROVE  ScoresInv'
  <1>1. UNCHANGED <<ruleVars, eligibility, sheet, versions, answers>>
    BY DEF DeclareResults, SetCommittee, RefuseDraft, BeginDraft
  <1>2. /\ head' \in [Exams -> Users \cup {NoOne}]
        /\ declared' \in [Exams -> Forms \cup {NoRow}]
    BY DEF DeclareResults, SetCommittee, RefuseDraft, BeginDraft, ActiveRule, ScoresInv,
           ScoresTyped
  <1>3. \A d \in drafting' : /\ d.application \in Applications /\ d.user \in Users
                             /\ d.scores \in ScoreValues
                             /\ eligibility[d.application] # "NONE"
    <2>1. \A d \in drafting : /\ d.application \in Applications /\ d.user \in Users
                              /\ d.scores \in ScoreValues
                              /\ eligibility[d.application] # "NONE"
      BY DEF ScoresInv, ScoresTyped, SheetsAreOfCandidates
    <2>2. ASSUME NEW a \in Applications, NEW u \in Users, NEW s \in ScoreValues,
                 BeginDraft(a, u, s)
          PROVE  \A d \in drafting' : /\ d.application \in Applications /\ d.user \in Users
                                      /\ d.scores \in ScoreValues
                                      /\ eligibility[d.application] # "NONE"
      BY <2>1, <2>2 DEF BeginDraft, Eligible
    <2>3. CASE drafting' \subseteq drafting
      BY <2>1, <2>3
    <2> QED
      BY <2>2, <2>3 DEF DeclareResults, SetCommittee, RefuseDraft
  <1>4. ScoresTyped'
    BY <1>1, <1>2, <1>3, RulesStay DEF ScoresInv, ScoresTyped, VersionIsTyped
  <1>5. SheetsAreOfCandidates'
    BY <1>1, <1>3 DEF ScoresInv, SheetsAreOfCandidates, HasSheet
  <1> QED
    BY <1>1, <1>4, <1>5, RulesStay, StepAround

\* A draft that is written leaves the versions alone.
LEMMA StepSaveDraft ==
    ASSUME ScoresInv, NEW d \in drafting, SaveDraft(d)
    PROVE  ScoresInv'
  <1> DEFINE a == d.application
             entry == [status |-> IF HasSheet(a) THEN sheet[a].status ELSE "DRAFT",
                     enteredBy |-> d.user, draftScores |-> d.scores,
                     currentVersion |-> IF HasSheet(a) THEN sheet[a].currentVersion ELSE 0]
  <1>1. /\ a \in Applications /\ d.user \in Users /\ d.scores \in [Skills -> Int]
        /\ eligibility[a] # "NONE"
    BY ScoresAssumption DEF ScoresInv, ScoresTyped, SheetsAreOfCandidates
  <1>2. sheet' = [sheet EXCEPT ![a] = entry]
    BY DEF SaveDraft
  <1>3. UNCHANGED <<ruleVars, eligibility, head, versions, answers, declared>>
    BY DEF SaveDraft
  <1>4. HasSheet(a) => sheet[a].status = "DRAFT" /\ sheet[a] \in SheetRows
    BY <1>1, CountIsTyped DEF SaveDraft, MayWrite, ScoresInv
  <1>5. SheetIsAHistory(a)
    BY <1>1 DEF ScoresInv
  <1>6. entry.status = "DRAFT" /\ entry.currentVersion = 0 /\ Count(a) = 0
    BY <1>4, <1>5 DEF SheetIsAHistory, SheetIsCurrent, Count
  <1>7. entry \in SheetRows
    BY <1>1, <1>6 DEF SheetRows
  <1> HIDE DEF entry, a
  <1>8. /\ sheet' \in [Applications -> SheetRows \cup {NoRow}] /\ sheet'[a] = entry
        /\ \A b \in Applications \ {a} : sheet'[b] = sheet[b]
    BY <1>1, <1>2, <1>7 DEF ScoresInv, ScoresTyped
  <1>9. HasSheet(a)' /\ Count(a)' = 0
    BY <1>6, <1>7, <1>8, RowsAreSheets DEF HasSheet, Count
  <1>10. VersionsOf(a) = {}
    BY <1>5, <1>6, FS_EmptySet DEF SheetIsAHistory, Numbered
  <1>11. SheetIsAHistory(a)'
    <2>1. VersionsOf(a)' = {}
      BY <1>3, <1>10 DEF VersionsOf
    <2> QED
      BY <1>6, <1>8, <1>9, <2>1, FS_EmptySet
         DEF SheetIsAHistory, SheetIsCurrent, Numbered, Chained
  <1>12. ASSUME NEW b \in Applications
         PROVE  SheetIsAHistory(b)'
    <2>1. CASE b # a
      BY <1>3, <1>8, <2>1, HistoryStays DEF VersionsOf
    <2> QED
      BY <1>11, <2>1
  <1>13. drafting' \subseteq drafting
    BY DEF SaveDraft
  <1>14. ScoresTyped'
    BY <1>3, <1>8, <1>13, RulesStay DEF ScoresInv, ScoresTyped, VersionIsTyped
  <1>15. SheetsAreOfCandidates'
    BY <1>1, <1>3, <1>8, <1>13 DEF a, ScoresInv, SheetsAreOfCandidates, HasSheet
  <1>16. AppealsReviseOnce'
    BY <1>3 DEF ScoresInv, AppealsReviseOnce
  <1> QED
    BY <1>3, <1>12, <1>14, <1>15, <1>16, RulesStay DEF ScoresInv

\* A version that is added with the answer of its call, to the sheet that then shows it.
LEMMA StepVersion ==
    ASSUME ScoresInv, NEW a \in Applications, NEW scope, NEW key, NEW v,
           VersionIsTyped(v), v.application = a, v.number = Count(a) + 1,
           v.source = Original <=> Count(a) = 0,
           \A w \in VersionsOf(a) :
              w.rule = v.rule /\ (w.number = Count(a) => v.scores # w.scores),
           v.source # Original => v.source = scope /\ ~AppealApplied(scope),
           v.source = Original => scope \notin Appeals,
           versions' = versions \cup {v}, Answer(scope, key, v),
           NEW entry \in SheetRows, sheet' = [sheet EXCEPT ![a] = entry],
           entry.currentVersion = v.number, entry.draftScores = v.scores,
           entry.status = IF v.number = 1 THEN "PUBLISHED" ELSE "REVISED",
           Eligible(a),
           UNCHANGED <<ruleVars, eligibility, head, drafting, declared>>
    PROVE  ScoresInv'
  <1>1. /\ sheet' \in [Applications -> SheetRows \cup {NoRow}] /\ sheet'[a] = entry
        /\ \A b \in Applications \ {a} : sheet'[b] = sheet[b]
    BY DEF ScoresInv, ScoresTyped
  <1>2. Count(a) \in Nat
    BY CountIsTyped DEF ScoresInv
  <1>3. ASSUME NEW b \in Applications
        PROVE  SheetIsAHistory(b)'
    BY <1>1, <1>2, HistoryGrows
  <1>4. ScoresTyped'
    BY <1>1, RulesStay DEF ScoresInv, ScoresTyped, VersionIsTyped
  <1>5. SheetsAreOfCandidates'
    BY <1>1 DEF ScoresInv, SheetsAreOfCandidates, HasSheet, Eligible
  <1>6. AppealsReviseOnce'
    <2>1. AppealsReviseOnce
      BY DEF ScoresInv
    <2>2. ASSUME NEW w \in versions', NEW x \in versions', w.source = x.source,
                 w.source # Original
          PROVE  w = x
      BY <2>1, <2>2 DEF AppealsReviseOnce, AppealApplied
    <2>3. ASSUME NEW r \in answers', r.scope \in Appeals
          PROVE  \E w \in versions' :
                   w.source = r.scope /\ w.application = r.application /\ w.number = r.number
                                      /\ w.overall = r.overall
      <3>1. CASE r \in answers
        BY <2>1, <2>3, <3>1 DEF AppealsReviseOnce
      <3>2. CASE r = [scope |-> scope, key |-> key, application |-> v.application,
                      number |-> v.number, overall |-> v.overall]
        BY <2>3, <3>2
      <3> QED
        BY <3>1, <3>2 DEF Answer
    <2> QED
      BY <2>2, <2>3 DEF AppealsReviseOnce
  <1> QED
    BY <1>3, <1>4, <1>5, <1>6, RulesStay DEF ScoresInv

\* A submission.
LEMMA StepSubmit ==
    ASSUME ScoresInv, NEW a \in Applications, NEW u \in Users, NEW key \in Keys,
           Submit(a, u, key)
    PROVE  ScoresInv'
  <1>1. PICK f \in ActiveRule :
          LET v == Version(a, 1, sheet[a].draftScores, f, Original) IN
             versions' = versions \cup {v} /\ Answer(u, key, v)
    BY DEF Submit
  <1> DEFINE v == Version(a, 1, sheet[a].draftScores, f, Original)
             entry == [sheet[a] EXCEPT !.status = "PUBLISHED", !.currentVersion = 1]
  <1>2. /\ HasSheet(a) /\ sheet[a].status = "DRAFT" /\ sheet[a] \in SheetRows
        /\ Eligible(a) /\ UNCHANGED <<ruleVars, eligibility, head, drafting, declared>>
    BY CountIsTyped DEF Submit, ScoresInv
  <1>3. sheet' = [sheet EXCEPT ![a] = entry]
    BY Zenon DEF Submit
  <1>4. /\ entry \in SheetRows /\ entry.status = "PUBLISHED" /\ entry.currentVersion = 1
        /\ entry.draftScores = sheet[a].draftScores
    BY <1>2 DEF SheetRows, Released
  <1>5. SheetIsAHistory(a)
    BY DEF ScoresInv
  <1>6. Count(a) = 0
    BY <1>2, <1>5 DEF SheetIsAHistory, SheetIsCurrent, Count
  <1>7. VersionsOf(a) = {}
    BY <1>5, <1>6, FS_EmptySet DEF SheetIsAHistory, Numbered
  <1>8. /\ v.application = a /\ v.number = 1 /\ v.source = Original /\ v.rule = f
        /\ v.scores = sheet[a].draftScores
    BY DEF Version
  <1>9. VersionIsTyped(v)
    BY <1>2, <1>8 DEF VersionIsTyped, SheetRows, ActiveRule
  <1>10. u \notin Appeals
    BY ScoresAssumption
  <1>11. versions' = versions \cup {v} /\ Answer(u, key, v)
    BY <1>1
  <1>12. v.number = Count(a) + 1 /\ v.source = Original /\ (v.source = Original <=> Count(a) = 0)
    BY <1>6, <1>8
  <1>13. entry.currentVersion = v.number /\ entry.draftScores = v.scores
    BY <1>4, <1>8
  <1>14. entry.status = IF v.number = 1 THEN "PUBLISHED" ELSE "REVISED"
    BY <1>4, <1>8
  <1>15. v.application = a /\ entry \in SheetRows
    BY <1>4, <1>8
  <1> HIDE DEF v, entry
  <1>16. \A w \in VersionsOf(a) :
            w.rule = v.rule /\ (w.number = Count(a) => v.scores # w.scores)
    BY <1>7
  <1>17. /\ v.source # Original => v.source = u /\ ~AppealApplied(u)
         /\ v.source = Original => u \notin Appeals
    BY <1>10, <1>12
  <1>18. UNCHANGED <<ruleVars, eligibility, head, drafting, declared>> /\ Eligible(a)
    BY <1>2
  <1> QED
    BY <1>3, <1>9, <1>11, <1>12, <1>13, <1>14, <1>15, <1>16, <1>17, <1>18, StepVersion, Zenon

\* A revision.
LEMMA StepRevise ==
    ASSUME ScoresInv, NEW a \in Applications, NEW p \in Appeals, NEW key \in Keys,
           NEW n, NEW change \in Changes, Revise(a, p, key, n, change)
    PROVE  ScoresInv'
  <1> DEFINE current == CurrentVersion(a)
             scores == Revised(current.scores, change)
             v == Version(a, current.number + 1, scores, current.rule, p)
             entry == [sheet[a] EXCEPT !.status = "REVISED", !.draftScores = scores,
                                       !.currentVersion = current.number + 1]
  <1>1. /\ HasSheet(a) /\ sheet[a].status \in Released /\ ~AppealApplied(p)
        /\ Eligible(a) /\ UNCHANGED <<ruleVars, eligibility, head, drafting, declared>>
        /\ scores # current.scores
    BY DEF Revise
  <1>2. versions' = versions \cup {v} /\ Answer(p, key, v)
    BY DEF Revise, RevisionRule
  <1>3. sheet' = [sheet EXCEPT ![a] = entry]
    BY Zenon DEF Revise
  <1>4. sheet[a] \in SheetRows /\ sheet[a].status # "DRAFT"
    BY <1>1, CountIsTyped DEF ScoresInv, Released
  <1>5. /\ current \in VersionsOf(a) /\ current.number = Count(a) /\ Count(a) >= 1
        /\ Count(a) \in Nat
    BY <1>1, <1>4, CurrentIsThere, CountIsTyped DEF Count, ScoresInv
  <1>6. current \in versions /\ VersionIsTyped(current)
    BY <1>5 DEF VersionsOf, ScoresInv, ScoresTyped
  <1>7. scores \in [Skills -> Int]
    BY <1>6, ScoresAssumption DEF Revised, VersionIsTyped
  <1>8. /\ v.application = a /\ v.number = current.number + 1 /\ v.source = p
        /\ v.rule = current.rule /\ v.scores = scores
    BY DEF Version
  <1>9. \A w \in VersionsOf(a) : w.rule = current.rule /\ (w.number = Count(a) => w = current)
    <2>1. Numbered(VersionsOf(a), Count(a)) /\ Chained(VersionsOf(a))
      BY DEF ScoresInv, SheetIsAHistory
    <2> QED
      BY <1>5, <2>1 DEF Numbered, Chained
  <1> HIDE DEF current, scores
  <1>10. VersionIsTyped(v)
    BY <1>5, <1>6, <1>7, <1>8 DEF VersionIsTyped
  <1>11. /\ entry \in SheetRows /\ entry.status = "REVISED" /\ entry.draftScores = scores
         /\ entry.currentVersion = current.number + 1
    <2> DEFINE number == current.number + 1
    <2>1. number \in Nat
      BY <1>5
    <2>2. entry = [sheet[a] EXCEPT !.status = "REVISED", !.draftScores = scores,
                                   !.currentVersion = number]
      OBVIOUS
    <2> HIDE DEF number, entry
    <2>3. entry \in SheetRows /\ entry.status = "REVISED" /\ entry.draftScores = scores
      BY <1>4, <1>7, <2>1, <2>2 DEF SheetRows, Released
    <2>4. entry.currentVersion = number
      BY <1>4, <2>2 DEF SheetRows
    <2> QED
      BY <2>3, <2>4 DEF number
  <1>12. p # Original
    BY ScoresAssumption
  <1> HIDE DEF v, entry
  <1>13. v.number = Count(a) + 1 /\ v.number # 1
    BY <1>5, <1>8
  <1>14. \A w \in VersionsOf(a) :
            w.rule = v.rule /\ (w.number = Count(a) => v.scores # w.scores)
    BY <1>1, <1>8, <1>9
  <1>15. entry.currentVersion = v.number /\ entry.draftScores = v.scores
    BY <1>8, <1>11
  <1>16. (v.source = Original <=> Count(a) = 0) /\ v.source = p /\ v.source # Original
    BY <1>5, <1>8, <1>12
  <1>17. /\ v.source # Original => v.source = p /\ ~AppealApplied(p)
         /\ v.source = Original => p \notin Appeals
    BY <1>1, <1>16
  <1>18. entry.status = IF v.number = 1 THEN "PUBLISHED" ELSE "REVISED"
    BY <1>11, <1>13
  <1>19. /\ Eligible(a) /\ v.application = a /\ entry \in SheetRows
         /\ UNCHANGED <<ruleVars, eligibility, head, drafting, declared>>
    BY <1>1, <1>8, <1>11
  <1> QED
    BY <1>2, <1>3, <1>10, <1>13, <1>14, <1>15, <1>16, <1>17, <1>18, <1>19, StepVersion, Zenon

\* A revision that is sent again is answered with the version it has made.
LEMMA StepReplay ==
    ASSUME ScoresInv, NEW a \in Applications, NEW p \in Appeals, NEW key \in Keys,
           ReplayRevision(a, p, key)
    PROVE  ScoresInv'
  <1>1. UNCHANGED <<ruleVars, eligibility, head, drafting, sheet, versions, declared>>
    BY DEF ReplayRevision
  <1>2. PICK v \in ReplayOf(a, p) : Answer(p, key, v)
    BY DEF ReplayRevision
  <1>3. v \in versions /\ v.source = p
    BY <1>2 DEF ReplayOf, VersionsOf
  <1>4. AppealsReviseOnce'
    BY <1>1, <1>2, <1>3 DEF ScoresInv, AppealsReviseOnce, Answer
  <1>5. ASSUME NEW b \in Applications
        PROVE  SheetIsAHistory(b)'
    BY <1>1, HistoryStays DEF VersionsOf
  <1>6. ScoresTyped' /\ SheetsAreOfCandidates'
    BY <1>1, RulesStay
       DEF ScoresInv, ScoresTyped, VersionIsTyped, SheetsAreOfCandidates, HasSheet
  <1> QED
    BY <1>1, <1>4, <1>5, <1>6, RulesStay DEF ScoresInv

\* The invariant is inductive.
LEMMA StepScoresInv == ScoresInv /\ [ScoresNext]_allScoreVars => ScoresInv'
  <1> SUFFICES ASSUME ScoresInv, [ScoresNext]_allScoreVars
               PROVE  ScoresInv'
    OBVIOUS
  <1>1. ASSUME RulesStep \/ UNCHANGED ruleVars, UNCHANGED scoreVars
        PROVE  ScoresInv'
    <2>1. RulesTypeOK' /\ ApprovedRulesAreDisjoint'
      BY <1>1, RulesStay, StepRules DEF ScoresInv, ScoresTyped
    <2>2. ScoresTyped' /\ SheetsAreOfCandidates'
      BY <1>1, <2>1 DEF scoreVars, ScoresInv, ScoresTyped, VersionIsTyped,
                        SheetsAreOfCandidates, HasSheet
    <2> QED
      BY <1>1, <2>1, <2>2, StepAround DEF scoreVars
  <1> QED
    BY <1>1, StepProject, StepAside, StepSaveDraft, StepSubmit, StepRevise, StepReplay
       DEF ScoresNext, allScoreVars

\* Every reachable state satisfies it.
LEMMA AlwaysScoresInv == ScoresSpec => []ScoresInv
  BY InitScoresInv, StepScoresInv, PTL DEF ScoresSpec

-----------------------------------------------------------------------------
(* Scores: the theorems.                                                   *)

\* However approvals that were checked at once overlap, no instant has two approved rules.
THEOREM OneRuleAtATime == ScoresSpec => []ApprovedRulesAreDisjoint
  <1>1. ScoresInv => ApprovedRulesAreDisjoint
    BY DEF ScoresInv
  <1> QED
    BY <1>1, AlwaysScoresInv, PTL

\* Submissions, revisions and their repetitions, with drafts in between, give each sheet
\* versions that are numbered without a gap, each made by its own submission or appeal,
\* each different from the one before, all calculated with one rule.
THEOREM VersionsAreHistories == ScoresSpec => []VersionsAreAHistory
  <1>1. ASSUME ScoresInv
        PROVE  VersionsAreAHistory
    <2> SUFFICES ASSUME NEW a \in Applications, HasSheet(a)
                 PROVE  LET n == sheet[a].currentVersion IN
                        /\ Cardinality(VersionsOf(a)) = n
                        /\ \A i \in 1 .. n : \E v \in VersionsOf(a) :
                              /\ v.number = i
                              /\ v.source = Original <=> i = 1
                              /\ \A w \in VersionsOf(a) :
                                    /\ v.rule = w.rule
                                    /\ w # v => v.source # w.source
                                    /\ w.number = i - 1 => v.scores # w.scores
      BY DEF VersionsAreAHistory
    <2> DEFINE n == sheet[a].currentVersion
    <2>1. /\ n \in Nat /\ Numbered(VersionsOf(a), n) /\ Chained(VersionsOf(a))
      BY <1>1, CountIsTyped DEF ScoresInv, SheetIsAHistory, Count
    <2> HIDE DEF n
    <2>2. ASSUME NEW i \in 1 .. n
          PROVE  \E v \in VersionsOf(a) :
                    /\ v.number = i
                    /\ v.source = Original <=> i = 1
                    /\ \A w \in VersionsOf(a) :
                          /\ v.rule = w.rule
                          /\ w # v => v.source # w.source
                          /\ w.number = i - 1 => v.scores # w.scores
      <3>1. PICK v \in VersionsOf(a) : v.number = i
        BY <2>1 DEF Numbered
      <3>2. v.source = Original <=> i = 1
        BY <2>1, <3>1 DEF Chained
      <3>3. ASSUME NEW w \in VersionsOf(a), w # v
            PROVE  v.source # w.source
        <4>1. CASE v.source = Original
          BY <2>1, <3>1, <3>3, <4>1 DEF Chained, Numbered
        <4>2. CASE v.source # Original
          BY <1>1, <3>3, <4>2 DEF ScoresInv, AppealsReviseOnce, VersionsOf
        <4> QED
          BY <4>1, <4>2
      <3>4. \A w \in VersionsOf(a) : v.rule = w.rule
        BY <2>1 DEF Chained
      <3>5. ASSUME NEW w \in VersionsOf(a), w.number = i - 1
            PROVE  v.scores # w.scores
        BY <2>1, <3>1, <3>5 DEF Chained
      <3> QED
        BY <3>1, <3>2, <3>3, <3>4, <3>5
    <2> QED
      BY <2>1, <2>2 DEF n, Numbered
  <1> QED
    BY <1>1, AlwaysScoresInv, PTL

\* A draft whose checks were made before the submission never changes what is released.
THEOREM CandidatesSeeTheCurrentVersion == ScoresSpec => []ReleasedScoresAreCurrent
  <1>1. ASSUME ScoresInv
        PROVE  ReleasedScoresAreCurrent
    <2> SUFFICES ASSUME NEW a \in Applications, HasSheet(a)
                 PROVE  IF sheet[a].status = "DRAFT" THEN sheet[a].currentVersion = 0
                        ELSE /\ sheet[a].draftScores = CurrentVersion(a).scores
                             /\ sheet[a].status = "REVISED" <=> sheet[a].currentVersion > 1
      BY DEF ReleasedScoresAreCurrent
    <2>1. SheetIsCurrent(a)
      BY <1>1 DEF ScoresInv, SheetIsAHistory
    <2> QED
      BY <1>1, <2>1, CurrentIsThere DEF SheetIsCurrent
  <1> QED
    BY <1>1, AlwaysScoresInv, PTL

\* However often and under whatever keys a revision is sent, the appeal makes one version, and
\* every answer names it.
THEOREM AppealsMakeOneVersion == ScoresSpec => []EachAppealRevisesOnce
  <1>1. ASSUME ScoresInv
        PROVE  EachAppealRevisesOnce
    <2> SUFFICES ASSUME NEW p \in Appeals
                 PROVE  /\ Cardinality({v \in versions : v.source = p}) <= 1
                        /\ \A r \in answers : r.scope = p => \E v \in versions :
                              v.source = p /\ v.application = r.application
                                           /\ v.number = r.number /\ v.overall = r.overall
      BY DEF EachAppealRevisesOnce
    <2> DEFINE V == {v \in versions : v.source = p}
    <2>1. p # Original
      BY ScoresAssumption
    <2>2. \A v, w \in V : v = w
      BY <1>1, <2>1 DEF ScoresInv, AppealsReviseOnce
    <2>3. V = {} \/ \E v : V = {v}
      BY <2>2
    <2>4. Cardinality(V) <= 1
      <3>1. CASE V = {}
        BY <3>1, FS_EmptySet
      <3>2. CASE \E v : V = {v}
        <4>1. PICK v : V = {v}
          BY <3>2
        <4>2. Cardinality({v}) = 1
          BY FS_Singleton
        <4> QED
          BY <4>1, <4>2
      <3> QED
        BY <2>3, <3>1, <3>2
    <2> QED
      BY <1>1, <2>4 DEF ScoresInv, AppealsReviseOnce
  <1> QED
    BY <1>1, AlwaysScoresInv, PTL

\* What a sheet's version is at most: the submission's, and one for each appeal.
VersionsFit ==
    \A a \in Applications : HasSheet(a) => sheet[a].currentVersion <= Cardinality(Appeals) + 1

\* However revisions are repeated, a sheet has at most one version more than there are appeals;
\* so the bound on a revision's expected version in ScoresNext leaves no revision out.
THEOREM RevisionsAreBounded ==
    ASSUME IsFiniteSet(Appeals)
    PROVE  ScoresSpec => []VersionsFit
  <1>1. ASSUME ScoresInv
        PROVE  VersionsFit
    <2> SUFFICES ASSUME NEW a \in Applications, HasSheet(a)
                 PROVE  sheet[a].currentVersion <= Cardinality(Appeals) + 1
      BY DEF VersionsFit
    <2> DEFINE n == sheet[a].currentVersion
               V == VersionsOf(a)
    <2>1. n \in Nat /\ Numbered(V, n) /\ Chained(V)
      BY <1>1, CountIsTyped DEF ScoresInv, SheetIsAHistory, Count
    <2>2. Cardinality(Appeals) \in Nat
      BY FS_CardinalityType
    <2> HIDE DEF n
    <2>3. CASE n = 0
      BY <2>2, <2>3 DEF n
    <2>4. CASE n # 0
      <3>1. PICK first \in V : first.number = 1
        BY <2>1, <2>4 DEF Numbered
      <3> DEFINE Later == V \ {first}
                 source == [v \in Later |-> v.source]
      <3>2. IsFiniteSet(Later) /\ Cardinality(Later) = n - 1
        BY <2>1, <3>1, FS_RemoveElement DEF Numbered
      <3>3. \A v \in Later : v.source # Original
        BY <2>1, <3>1 DEF Numbered, Chained
      <3>4. \A v \in Later : v.source \in Appeals
        BY <1>1, <3>3 DEF ScoresInv, ScoresTyped, VersionIsTyped, VersionsOf
      <3>5. source \in [Later -> Appeals]
        BY <3>4
      <3>6. \A v, w \in Later : source[v] = source[w] => v = w
        BY <1>1, <3>3 DEF ScoresInv, AppealsReviseOnce, VersionsOf
      <3> HIDE DEF Later, source
      <3>7. ~(Cardinality(Appeals) < Cardinality(Later))
        BY <3>2, <3>5, <3>6, FS_PigeonHole
      <3> QED
        BY <2>1, <2>2, <3>2, <3>7 DEF n
    <2> QED
      BY <2>3, <2>4 DEF n
  <1> QED
    BY <1>1, AlwaysScoresInv, PTL

\* Counting released sheets against eligible candidates misses a candidate only where a
\* candidate with a released sheet was marked absent since.
THEOREM OnlyAbsencesHideScores == ScoresSpec => DeclarationCountsAbsences
  <1>1. ASSUME ScoresInv, [ScoresNext]_allScoreVars
        PROVE  \A x \in Exams :
                  declared'[x] # declared[x] /\ ~(EligibleIn(x) \subseteq ReleasedIn(x)) =>
                     \E a \in ReleasedIn(x) : eligibility[a] = "ABSENT"
    <2> SUFFICES ASSUME NEW x \in Exams, declared'[x] # declared[x],
                        ~(EligibleIn(x) \subseteq ReleasedIn(x))
                 PROVE  \E a \in ReleasedIn(x) : eligibility[a] = "ABSENT"
      OBVIOUS
    <2>1. DeclareResults(x)
      <3>1. ASSUME NEW y \in Exams, DeclareResults(y)
            PROVE  DeclareResults(x)
        BY <1>1, <3>1 DEF DeclareResults, ScoresInv, ScoresTyped
      <3>2. declared' # declared
        OBVIOUS
      <3>3. ASSUME NEW a, NEW u, NEW y, NEW d, NEW s, NEW key, NEW p, NEW n, NEW c,
                   \/ Project(a) \/ SetCommittee(y, u) \/ BeginDraft(a, u, s)
                   \/ SaveDraft(d) \/ RefuseDraft(d) \/ Submit(a, u, key)
                   \/ ReplayRevision(a, p, key) \/ Revise(a, p, key, n, c)
            PROVE  UNCHANGED declared
        BY <3>3 DEF Project, SetCommittee, BeginDraft, SaveDraft, RefuseDraft, Submit,
                    ReplayRevision, Revise
      <3>4. ScoresNext /\ ~UNCHANGED scoreVars
        BY <1>1, <3>2 DEF scoreVars, allScoreVars
      <3> QED
        BY <3>1, <3>2, <3>3, <3>4 DEF ScoresNext
    <2>2. Cardinality(ReleasedIn(x)) = Cardinality(EligibleIn(x))
      BY <2>1 DEF DeclareResults
    <2>3. IsFiniteSet(EligibleIn(x))
      <3>1. EligibleIn(x) \in SUBSET Applications
        BY DEF EligibleIn, InExam
      <3> QED
        BY <3>1, ScoresAssumption, FS_Subset
    <2>4. PICK a \in ReleasedIn(x) : a \notin EligibleIn(x)
      <3>1. CASE ReleasedIn(x) \subseteq EligibleIn(x)
        <4>1. ReleasedIn(x) = EligibleIn(x)
          BY <2>2, <2>3, <3>1, FS_Subset
        <4> QED
          BY <4>1
      <3> QED
        BY <3>1
    <2>5. a \in Applications /\ HasSheet(a) /\ ~Eligible(a)
      BY <2>4 DEF ReleasedIn, EligibleIn, InExam
    <2>6. eligibility[a] = "ABSENT"
      BY <1>1, <2>5 DEF ScoresInv, ScoresTyped, SheetsAreOfCandidates, Eligible
    <2> QED
      BY <2>6
  <1>2. ScoresInv /\ [ScoresNext]_allScoreVars
          => [\A x \in Exams :
                 declared'[x] # declared[x] /\ ~(EligibleIn(x) \subseteq ReleasedIn(x)) =>
                    \E a \in ReleasedIn(x) : eligibility[a] = "ABSENT"]_allScoreVars
    BY <1>1
  <1> QED
    BY <1>2, AlwaysScoresInv, PTL DEF ScoresSpec, DeclarationCountsAbsences

-----------------------------------------------------------------------------
(* Scores: the log of versions.                                            *)

\* What made each of the versions V, in the order of their numbers.
Sources(V) == [n \in 1 .. Cardinality(V) |-> (CHOOSE v \in V : v.number = n).source]

\* All that made one of them.
Makers(V) == {v.source : v \in V}

\* The log that the tables stand for.
Logged == [a \in Applications |-> Sources(VersionsOf(a))]

\* It is a sequence of what made a version.
LEMMA SourcesAreThere ==
    ASSUME NEW V, NEW n \in Nat, Numbered(V, n)
    PROVE  /\ Sources(V) \in Seq(Makers(V)) /\ Len(Sources(V)) = n
           /\ \A i \in 1 .. n, v \in V : v.number = i => Sources(V)[i] = v.source
  <1>1. Cardinality(V) = n /\ \A i \in 1 .. n : \E v \in V : v.number = i
    BY DEF Numbered
  <1>2. \A i \in 1 .. n :
           LET w == CHOOSE v \in V : v.number = i IN w \in V /\ w.number = i
    BY <1>1
  <1>3. Sources(V) = [i \in 1 .. n |-> (CHOOSE v \in V : v.number = i).source]
    BY <1>1 DEF Sources
  <1>4. ASSUME NEW i \in 1 .. n, NEW v \in V, v.number = i
        PROVE  Sources(V)[i] = v.source
    BY <1>2, <1>3, <1>4 DEF Numbered
  <1>5. \A i \in 1 .. n : (CHOOSE v \in V : v.number = i).source \in Makers(V)
    BY <1>2 DEF Makers
  <1>6. Sources(V) \in [1 .. n -> Makers(V)]
    BY <1>3, <1>5
  <1>7. Sources(V) \in Seq(Makers(V)) /\ Len(Sources(V)) = n
    BY <1>6
  <1> QED
    BY <1>4, <1>7

\* One more version is one more entry.
LEMMA SourcesGrow ==
    ASSUME NEW V, NEW n \in Nat, Numbered(V, n), NEW v, v.number = n + 1
    PROVE  Sources(V \cup {v}) = Append(Sources(V), v.source)
  <1> DEFINE W == V \cup {v}
             old == Sources(V)
             new == Sources(W)
  <1>1. Numbered(W, n + 1) /\ n + 1 \in Nat
    BY NumberedGrows
  <1>2. /\ old \in Seq(Makers(V)) /\ Len(old) = n
        /\ \A i \in 1 .. n, w \in V : w.number = i => old[i] = w.source
    BY SourcesAreThere
  <1> HIDE DEF W
  <1>3. /\ new \in Seq(Makers(W)) /\ Len(new) = n + 1
        /\ \A i \in 1 .. (n + 1), w \in W : w.number = i => new[i] = w.source
    BY <1>1, SourcesAreThere
  <1>4. v \in W /\ V \subseteq W
    BY DEF W
  <1> HIDE DEF old, new
  <1>5. new[n + 1] = v.source
    BY <1>3, <1>4
  <1>6. ASSUME NEW i \in 1 .. n
        PROVE  new[i] = old[i]
    <2>1. PICK w \in V : w.number = i
      BY DEF Numbered
    <2> QED
      BY <1>2, <1>3, <1>4, <2>1
  <1>7. Makers(V) \subseteq Makers(W) /\ v.source \in Makers(W)
    BY <1>4 DEF Makers
  <1>8. old \in Seq(Makers(W))
    BY <1>2, <1>7
  <1>9. new = Append(old, v.source)
    BY <1>2, <1>3, <1>5, <1>6, <1>7, <1>8
  <1> QED
    BY <1>9 DEF W, old, new

\* A version that is added to a sheet is appended to its log, and to no other.
LEMMA LogGrows ==
    ASSUME ScoresInv, NEW a \in Applications, NEW v, v.application = a, v.number = Count(a) + 1,
           versions' = versions \cup {v}
    PROVE  Logged' = [Logged EXCEPT ![a] = Append(@, v.source)]
  <1>1. Count(a) \in Nat /\ Numbered(VersionsOf(a), Count(a))
    BY CountIsTyped DEF ScoresInv, SheetIsAHistory
  <1>2. VersionsOf(a)' = VersionsOf(a) \cup {v}
    BY DEF VersionsOf
  <1>3. \A b \in Applications \ {a} : VersionsOf(b)' = VersionsOf(b)
    BY DEF VersionsOf
  <1>4. Sources(VersionsOf(a)') = Append(Sources(VersionsOf(a)), v.source)
    BY <1>1, <1>2, SourcesGrow
  <1>5. Logged' = [b \in Applications |-> Sources(VersionsOf(b)')]
    BY DEF Logged, Sources
  <1> QED
    BY <1>3, <1>4, <1>5 DEF Logged

\* A step writes to the log what VersionLog allows, or nothing.
LEMMA StepRefinesLog == ScoresInv /\ [ScoresNext]_allScoreVars => [Log!Next]_(Log!logVars)
  <1> SUFFICES ASSUME ScoresInv, [ScoresNext]_allScoreVars
               PROVE  \/ Logged' = Logged
                      \/ \E a \in Applications :
                            \/ /\ Logged[a] = <<>>
                               /\ Logged' = [Logged EXCEPT ![a] = <<Original>>]
                            \/ \E p \in Appeals :
                                  /\ Logged[a] # <<>>
                                  /\ ~\E b \in Applications : \E n \in 2 .. Len(Logged[b]) :
                                         Logged[b][n] = p
                                  /\ Logged' = [Logged EXCEPT ![a] = Append(@, p)]
    BY DEF Log!Next, Log!Submit, Log!Revise, Log!Applied, Log!logVars, Logged, Sources
  <1>1. ASSUME NEW a \in Applications
        PROVE  /\ Logged[a] \in Seq(Makers(VersionsOf(a)))
               /\ Len(Logged[a]) = Count(a) /\ Count(a) \in Nat
    BY SourcesAreThere, CountIsTyped DEF ScoresInv, SheetIsAHistory, Logged
  <1>2. CASE UNCHANGED versions
    BY <1>2 DEF Logged, VersionsOf, Sources
  <1>3. ASSUME NEW a \in Applications, NEW u \in Users, NEW key \in Keys, Submit(a, u, key)
        PROVE  /\ Logged[a] = <<>>
               /\ Logged' = [Logged EXCEPT ![a] = <<Original>>]
    <2>1. HasSheet(a) /\ sheet[a].status = "DRAFT"
      BY <1>3 DEF Submit
    <2>2. Count(a) = 0
      BY <2>1 DEF ScoresInv, SheetIsAHistory, SheetIsCurrent, Count
    <2>3. PICK v : /\ versions' = versions \cup {v}
                   /\ v.application = a /\ v.number = 1 /\ v.source = Original
      BY <1>3 DEF Submit, Version
    <2>4. Logged' = [Logged EXCEPT ![a] = Append(@, Original)]
      BY <2>2, <2>3, LogGrows
    <2>5. Logged[a] = <<>>
      BY <1>1, <2>2
    <2>6. Append(Logged[a], Original) = <<Original>>
      BY <2>5
    <2> QED
      BY <2>4, <2>5, <2>6 DEF Logged
  <1>4. ASSUME NEW a \in Applications, NEW p \in Appeals, NEW key \in Keys, NEW m,
               NEW change \in Changes, Revise(a, p, key, m, change)
        PROVE  /\ Logged[a] # <<>>
               /\ ~\E b \in Applications : \E n \in 2 .. Len(Logged[b]) : Logged[b][n] = p
               /\ Logged' = [Logged EXCEPT ![a] = Append(@, p)]
    <2>1. HasSheet(a) /\ sheet[a].status # "DRAFT" /\ ~AppealApplied(p)
      BY <1>4 DEF Revise, Released
    <2>2. CurrentVersion(a).number = Count(a) /\ Count(a) >= 1
      BY <2>1, CurrentIsThere DEF Count
    <2>3. PICK v : /\ versions' = versions \cup {v}
                   /\ v.application = a /\ v.number = CurrentVersion(a).number + 1
                   /\ v.source = p
      BY <1>4 DEF Revise, Version
    <2>4. Logged' = [Logged EXCEPT ![a] = Append(@, p)]
      BY <2>2, <2>3, LogGrows
    <2>5. Logged[a] # <<>>
      BY <1>1, <2>2
    <2>6. ASSUME NEW b \in Applications, NEW n \in 2 .. Len(Logged[b]), Logged[b][n] = p
          PROVE  FALSE
      <3>1. p \in Makers(VersionsOf(b))
        BY <1>1, <2>6
      <3> QED
        BY <2>1, <3>1 DEF AppealApplied, Makers, VersionsOf
    <2> QED
      BY <2>4, <2>5, <2>6
  <1>5. CASE ScoresNext
    <2>1. \/ UNCHANGED versions
          \/ \E a \in Applications, u \in Users, key \in Keys : Submit(a, u, key)
          \/ \E a \in Applications, p \in Appeals, key \in Keys,
                m \in 1 .. Cardinality(Appeals) + 1, change \in Changes :
                   Revise(a, p, key, m, change)
      BY <1>5 DEF ScoresNext, scoreVars, Project, DeclareResults, SetCommittee, SaveDraft,
                  RefuseDraft, BeginDraft, ReplayRevision
    <2> QED
      BY <1>2, <1>3, <1>4, <2>1
  <1> QED
    BY <1>2, <1>5 DEF allScoreVars, scoreVars

\* The tables of the result service, their checks and keys implement the log of VersionLog.
THEOREM VersionsAreLogged == ScoresSpec => ImplementsVersionLog
  <1>1. ScoresInit => Log!Init
    <2> SUFFICES ASSUME ScoresInit
                 PROVE  Logged \in [Applications -> {<<>>, <<Original>>}]
      BY DEF Log!Init, Logged, Sources
    <2>1. ASSUME NEW a \in Applications
          PROVE  VersionsOf(a) = {}
      BY DEF ScoresInit, VersionsOf
    <2>2. Cardinality({}) = 0
      BY FS_EmptySet
    <2>3. Sources({}) = <<>>
      BY <2>2 DEF Sources
    <2> QED
      BY <2>1, <2>3 DEF Logged
  <1> QED
    BY <1>1, StepRefinesLog, AlwaysScoresInv, PTL
    DEF ScoresSpec, ImplementsVersionLog, Log!Spec
=============================================================================
