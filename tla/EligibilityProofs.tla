--------------------------- MODULE EligibilityProofs ---------------------------
(***************************************************************************)
(* Theorems about Eligibility, for any applications, events, replicas,     *)
(* workers and bounds.                                                     *)
(***************************************************************************)
EXTENDS Eligibility, FiniteSetTheorems, TLAPS

-----------------------------------------------------------------------------
(* The inductive invariant.                                                *)

\* Event e is not lost on its way: the broker has it, or it was processed or dead-lettered,
\* or the broker took it before there was a queue.
Held(e) == queue[e] > 0 \/ e \in processed \/ e \in deadLetters \/ e \in unrouted

\* A replica has loaded an event that could still fail, and marks it as published only
\* when the broker has taken it.
EntityInOrder(x) ==
    /\ x.event \in WrittenEvents
    /\ ~x.tried => x.attempts < MaxAttempts
    /\ x.published => Held(x.event)

BatchInOrder(r) ==
    /\ batch[r] \in Seq(Entity)
    /\ \A i \in DOMAIN batch[r] : EntityInOrder(batch[r][i])

\* A worker that goes on without changing anything has an event that was processed.
HandlerInOrder(w) ==
    handler[w] # Idle /\ (handler[w].committed \/ ~handler[w].fresh) =>
        handler[w].event \in processed

\* The broker has every copy that a worker has.
Counted(e) == IsFiniteSet(InHand(e)) /\ Cardinality(InHand(e)) <= queue[e]

IInv ==
    /\ TypeOK
    /\ written \in Seq(Events)
    /\ \A r \in Replicas : BatchInOrder(r)
    /\ \A w \in Workers : HandlerInOrder(w)
    /\ \A e \in Events : Counted(e)
    /\ NoEventLost
    /\ DOMAIN batch = Replicas

-----------------------------------------------------------------------------
(* Facts about the data.                                                   *)

\* A worker that handles a message is not idle.
LEMMA HandlersAreNotIdle == \A h \in Handler : h # Idle
  <1>1. ASSUME NEW h \in Handler, h = Idle
        PROVE  FALSE
    <2>1. "event" \in DOMAIN h
      BY DEF Handler
    <2>2. DOMAIN h = {"idle"}
      BY <1>1 DEF Idle
    <2> QED
      BY <2>1, <2>2
  <1> QED
    BY <1>1

\* The events that are written are finitely many.
LEMMA WrittenIsFinite ==
    ASSUME WrittenEvents \subseteq Events
    PROVE  IsFiniteSet(WrittenEvents) /\ Cardinality(WrittenEvents) \in Nat
  BY OutboxAssumption, FS_Subset, FS_CardinalityType

\* Writing an event appends it to the events there are.
LEMMA WritingAppends ==
    ASSUME written \in Seq(Events), WrittenEvents \subseteq Events,
           Len(written) = Cardinality(WrittenEvents),
           NEW e \in Events, WriteEvent(e)
    PROVE  /\ written' \in Seq(Events)
           /\ WrittenEvents' = WrittenEvents \cup {e}
           /\ Len(written') = Cardinality(WrittenEvents')
  <1>1. written' = Append(written, e) /\ e \notin WrittenEvents
    BY DEF WriteEvent
  <1>2. /\ written' \in Seq(Events) /\ Len(written') = Len(written) + 1
        /\ \A i \in 1 .. Len(written) : written'[i] = written[i]
        /\ written'[Len(written) + 1] = e
    BY <1>1
  <1>3. WrittenEvents' = WrittenEvents \cup {e}
    <2>1. DOMAIN written = 1 .. Len(written) /\ DOMAIN written' = 1 .. Len(written')
      BY <1>2
    <2>2. /\ \A x : x \in WrittenEvents <=> \E i \in 1 .. Len(written) : x = written[i]
          /\ \A x : x \in WrittenEvents' <=> \E i \in 1 .. Len(written') : x = written'[i]
      BY <2>1 DEF WrittenEvents, ToSet
    <2>3. 1 .. Len(written') = (1 .. Len(written)) \cup {Len(written) + 1}
      BY <1>2
    <2>4. \A x : x \in WrittenEvents' <=> x \in WrittenEvents \/ x = e
      BY <1>2, <2>2, <2>3
    <2> QED
      BY <2>4
  <1>4. Cardinality(WrittenEvents \cup {e}) = Cardinality(WrittenEvents) + 1
    BY <1>1, WrittenIsFinite, FS_AddElement
  <1> QED
    BY <1>2, <1>3, <1>4

\* The rest of a batch, and a batch whose head has changed.
LEMMA BatchesAreTyped ==
    ASSUME NEW b \in Seq(Entity), b # <<>>, NEW x \in Entity
    PROVE  /\ Head(b) \in Entity /\ Head(b) = b[1]
           /\ Tail(b) \in Seq(Entity)
           /\ \A i \in DOMAIN Tail(b) : i + 1 \in DOMAIN b /\ Tail(b)[i] = b[i + 1]
           /\ [b EXCEPT ![1] = x] \in Seq(Entity)
           /\ DOMAIN [b EXCEPT ![1] = x] = DOMAIN b
           /\ [b EXCEPT ![1] = x][1] = x
           /\ \A i \in DOMAIN b \ {1} : [b EXCEPT ![1] = x][i] = b[i]
  OBVIOUS

-----------------------------------------------------------------------------
(* What stays true when events only move on.                               *)

\* Nothing that is held is lost, and what is written stays written.
MovesOn ==
    /\ WrittenEvents \subseteq WrittenEvents'
    /\ \A e \in Events : Held(e) => Held(e)'

\* Then entities stay in order.
LEMMA EntitiesStay ==
    ASSUME MovesOn, WrittenEvents \subseteq Events, NEW x, EntityInOrder(x)
    PROVE  EntityInOrder(x)'
  BY DEF MovesOn, EntityInOrder

-----------------------------------------------------------------------------
(* Registration.                                                           *)

\* A transaction writes an event or none.
LEMMA RegistrationKeeps ==
    ASSUME IInv, NEW a \in Applications, RegistrationStep(a)
    PROVE  IInv'
  <1> USE DEF IInv, TypeOK, OutboxTypeOK, queueVars
  <1>1. /\ publishedAt' = publishedAt /\ attempts' = attempts /\ connection' = connection
        /\ batch' = batch /\ brokerUp' = brokerUp /\ UNCHANGED queueVars
        /\ eligibility' = eligibility /\ processed' = processed
        /\ handler' = handler /\ deadLetters' = deadLetters
    BY DEF RegistrationStep, Verify, MarkAbsent, ReadForResend, Resend, WriteNew, publisherVars,
           queueVars, resultVars, outboxVars, outboxRows
  <1>2. /\ status' \in [Applications -> {"UNDER_REVIEW", "VERIFIED", "ABSENT"}]
        /\ resending' \subseteq Applications
    BY DEF RegistrationStep, Verify, MarkAbsent, ReadForResend, Resend
  <1>3. written' = written \/ \E e \in Events : WriteEvent(e)
    BY DEF RegistrationStep, Verify, MarkAbsent, ReadForResend, Resend, WriteNew, outboxVars,
           outboxRows
  <1>4. /\ written' \in Seq(Events) /\ WrittenEvents \subseteq WrittenEvents'
        /\ WrittenEvents' \subseteq Events /\ Len(written') = Cardinality(WrittenEvents')
    <2>1. CASE written' = written
      BY <2>1 DEF WrittenEvents
    <2>2. ASSUME NEW e \in Events, WriteEvent(e)
          PROVE  /\ written' \in Seq(Events) /\ WrittenEvents \subseteq WrittenEvents'
                 /\ WrittenEvents' \subseteq Events /\ Len(written') = Cardinality(WrittenEvents')
      BY <2>2, WritingAppends
    <2> QED
      BY <1>3, <2>1, <2>2
  <1>5. MovesOn
    BY <1>1, <1>4 DEF MovesOn, Held
  <1>6. \A r \in Replicas : BatchInOrder(r)'
    BY <1>1, <1>5, EntitiesStay DEF BatchInOrder
  <1>7. (\A w \in Workers : HandlerInOrder(w)') /\ \A e \in Events : Counted(e)'
    BY <1>1 DEF HandlerInOrder, Counted, InHand
  <1>8. NoEventLost'
    BY <1>1 DEF NoEventLost
  <1>9. TypeOK'
    BY <1>1, <1>2, <1>4
  <1> QED
    BY <1>1, <1>4, <1>6, <1>7, <1>8, <1>9

-----------------------------------------------------------------------------
(* The replicas and the broker.                                            *)

\* What the broker took stays taken: copies are only added, and an event that it dropped
\* stays dropped unless it has a copy now.
Routes ==
    /\ queue' \in [Events -> 0 .. MaxCopies] /\ \A e \in Events : queue[e] <= queue'[e]
    /\ unrouted' \subseteq Events
    /\ \A e \in Events : e \in unrouted => e \in unrouted' \/ queue'[e] > 0

\* The broker has taken e.
Took(e) == queue'[e] > 0 \/ e \in unrouted'

\* What a publisher does is in order if its batch, its counts and its marks are.
LEMMA PublisherFrame ==
    ASSUME IInv, UNCHANGED <<written, registrationVars, resultVars>>,
           connection' \in [Replicas -> Connections], brokerUp' \in BOOLEAN,
           bound' \in BOOLEAN, Routes,
           attempts' \in [Events -> 0 .. MaxAttempts],
           DOMAIN batch' = Replicas,
           \A r \in Replicas :
              /\ batch'[r] \in Seq(Entity)
              /\ \A i \in DOMAIN batch'[r] : EntityInOrder(batch'[r][i])
                    \/ /\ batch'[r][i].event \in WrittenEvents /\ batch'[r][i].tried
                       /\ batch'[r][i].published => Took(batch'[r][i].event),
           publishedAt' \subseteq WrittenEvents,
           \A e \in publishedAt' : e \in publishedAt \/ Held(e)
    PROVE  IInv'
  <1> USE DEF IInv, TypeOK, OutboxTypeOK
  <1>1. /\ written' = written /\ status' = status /\ resending' = resending
        /\ eligibility' = eligibility /\ processed' = processed
        /\ handler' = handler /\ deadLetters' = deadLetters
    BY DEF registrationVars, resultVars
  <1>2. WrittenEvents' = WrittenEvents
    BY <1>1 DEF WrittenEvents
  <1>3. MovesOn
    BY <1>1, <1>2 DEF MovesOn, Held, Routes
  <1>4. ASSUME NEW r \in Replicas
        PROVE  BatchInOrder(r)' /\ ToSet(batch'[r]) \subseteq Entity
    <2>1. batch'[r] \in Seq(Entity)
      OBVIOUS
    <2>2. ASSUME NEW i \in DOMAIN batch'[r]
          PROVE  EntityInOrder(batch[r][i])'
      <3> DEFINE x == batch'[r][i]
      <3>1. CASE EntityInOrder(x)
        BY <1>2, <1>3, <3>1 DEF EntityInOrder, MovesOn
      <3>2. CASE /\ x.event \in WrittenEvents /\ x.tried
                 /\ x.published => Took(x.event)
        BY <1>2, <3>2 DEF EntityInOrder, Held, Took
      <3> QED
        BY <3>1, <3>2
    <2> QED
      BY <2>1, <2>2 DEF BatchInOrder, ToSet
  <1>5. \A w \in Workers : HandlerInOrder(w)'
    BY <1>1 DEF HandlerInOrder
  <1>6. \A e \in Events : Counted(e)'
    <2>1. ASSUME NEW e \in Events
          PROVE  Counted(e)'
      <3>1. InHand(e)' = InHand(e)
        BY <1>1 DEF InHand
      <3>2. Cardinality(InHand(e)) \in Nat /\ queue[e] \in Nat /\ queue'[e] \in Nat
        BY FS_CardinalityType DEF Counted, Routes
      <3> QED
        BY <3>1, <3>2 DEF Counted, Routes
    <2> QED
      BY <2>1
  <1>7. NoEventLost'
    BY <1>1, <1>3 DEF NoEventLost, MovesOn, Held
  <1>8. TypeOK'
    BY <1>1, <1>2, <1>4 DEF Routes
  <1> QED
    BY <1>1, <1>4, <1>5, <1>6, <1>7, <1>8

\* What a replica loads, tries and saves, and what starts and stops.
LEMMA PublisherKeeps ==
    ASSUME IInv, BrokerStep \/ \E r \in Replicas : PublisherStep(r),
           UNCHANGED <<registrationVars, resultVars>>
    PROVE  IInv'
  <1> USE DEF IInv, TypeOK, OutboxTypeOK
  <1> DEFINE Kept(r) == /\ batch'[r] \in Seq(Entity)
                        /\ \A i \in DOMAIN batch'[r] : EntityInOrder(batch'[r][i])
                              \/ /\ batch'[r][i].event \in WrittenEvents /\ batch'[r][i].tried
                                 /\ batch'[r][i].published => Took(batch'[r][i].event)
  <1>0. MaxAttempts \in Nat \ {0} /\ MaxCopies \in Nat \ {0}
    BY OutboxAssumption
  <1>1. \A r \in Replicas : batch'[r] = batch[r] \/ batch'[r] = <<>> => Kept(r)
    <2>1. ASSUME NEW r \in Replicas, batch'[r] = batch[r]
          PROVE  Kept(r)
      BY <2>1 DEF BatchInOrder
    <2>2. ASSUME NEW r \in Replicas, batch'[r] = <<>>
          PROVE  Kept(r)
      BY <2>2
    <2> HIDE DEF Kept
    <2> QED
      BY <2>1, <2>2
  <1>2. /\ NoEventLost /\ \A e \in publishedAt : Held(e)
        /\ UNCHANGED queueVars => bound' \in BOOLEAN /\ Routes
    BY <1>0 DEF NoEventLost, Held, Routes, queueVars
  <1>3. CASE BrokerStep
    <2>1. /\ written' = written /\ publishedAt' = publishedAt /\ attempts' = attempts
          /\ batch' = batch /\ UNCHANGED queueVars /\ brokerUp' \in BOOLEAN
          /\ connection' \in [Replicas -> Connections]
      BY <1>3 DEF BrokerStep, BrokerStops, BrokerStarts, outboxRows, Connections
    <2> HIDE DEF Kept
    <2>2. \A r \in Replicas : Kept(r)
      BY <1>1, <2>1
    <2> QED
      BY <1>2, <2>1, <2>2, PublisherFrame DEF Kept
  <1>4. ASSUME NEW r \in Replicas, Start(r) \/ Stop(r)
        PROVE  IInv'
    <2>1. /\ written' = written /\ publishedAt' = publishedAt /\ attempts' = attempts
          /\ UNCHANGED queueVars /\ brokerUp' = brokerUp
          /\ connection' \in [Replicas -> Connections]
      BY <1>4 DEF Start, Stop, outboxRows, Connections
    <2>2. /\ DOMAIN batch' = Replicas
          /\ \A q \in Replicas : batch'[q] = batch[q] \/ batch'[q] = <<>>
      BY <1>4 DEF Start, Stop
    <2> HIDE DEF Kept
    <2>3. \A q \in Replicas : Kept(q)
      BY <1>1, <2>2
    <2> QED
      BY <1>2, <2>1, <2>2, <2>3, PublisherFrame DEF Kept
  <1>5. ASSUME NEW r \in Replicas, LoadBatch(r)
        PROVE  IInv'
    <2>1. PICK s \in [1 .. Cardinality(Unpublished) -> Unpublished] :
             batch' = [batch EXCEPT ![r] = [i \in DOMAIN s |->
                [event |-> s[i], attempts |-> attempts[s[i]],
                 published |-> FALSE, tried |-> FALSE]]]
      BY <1>5 DEF LoadBatch
    <2>2. Cardinality(Unpublished) \in Nat
      <3>1. Unpublished \subseteq WrittenEvents
        BY DEF Unpublished
      <3>2. IsFiniteSet(Unpublished)
        BY <3>1, WrittenIsFinite, FS_Subset
      <3> QED
        BY <3>2, FS_CardinalityType
    <2> DEFINE b == [i \in DOMAIN s |-> [event |-> s[i], attempts |-> attempts[s[i]],
                                         published |-> FALSE, tried |-> FALSE]]
    <2>3. \A i \in DOMAIN s : b[i] \in Entity /\ EntityInOrder(b[i])
      <3>1. ASSUME NEW i \in DOMAIN s
            PROVE  b[i] \in Entity /\ EntityInOrder(b[i])
        <4>1. s[i] \in WrittenEvents /\ s[i] \in Events /\ attempts[s[i]] < MaxAttempts
          BY DEF Unpublished
        <4>2. attempts[s[i]] \in 0 .. MaxAttempts
          BY <4>1
        <4> QED
          BY <4>1, <4>2 DEF Entity, EntityInOrder
      <3> QED
        BY <3>1
    <2>4. b \in Seq(Entity) /\ DOMAIN b = DOMAIN s
      BY <2>2, <2>3
    <2>5. /\ written' = written /\ publishedAt' = publishedAt /\ attempts' = attempts
          /\ UNCHANGED queueVars /\ brokerUp' = brokerUp /\ connection' = connection
      BY <1>5 DEF LoadBatch, outboxRows
    <2>6. /\ DOMAIN batch' = Replicas /\ batch'[r] = b
          /\ \A q \in Replicas \ {r} : batch'[q] = batch[q]
      BY <2>1
    <2>7. Kept(r)
      BY <2>3, <2>4, <2>6
    <2> HIDE DEF Kept, b
    <2>8. \A q \in Replicas : Kept(q)
      BY <1>1, <2>6, <2>7
    <2> QED
      BY <1>2, <2>5, <2>6, <2>8, PublisherFrame DEF Kept
  <1>6. ASSUME NEW r \in Replicas, NEW published \in BOOLEAN, MayTry(r), Tried(r, published),
               UNCHANGED <<written, publishedAt, attempts, brokerUp>>,
               connection' \in [Replicas -> Connections], bound' \in BOOLEAN, Routes,
               published => Took(Head(batch[r]).event)
        PROVE  IInv'
    <2> DEFINE b == batch[r]
               x == b[1]
               n == IF published THEN x.attempts ELSE x.attempts + 1
               z == [x EXCEPT !.tried = TRUE]
               t == [z EXCEPT !.published = published]
               y == [t EXCEPT !.attempts = n]
    <2>1. b \in Seq(Entity) /\ b # <<>> /\ Head(b) = x /\ ~x.tried /\ x \in Entity
      BY <1>6, BatchesAreTyped DEF MayTry, BatchInOrder
    <2>2. 1 \in DOMAIN b /\ EntityInOrder(x)
      BY <2>1 DEF BatchInOrder
    <2>3. y \in Entity /\ y.event = x.event /\ y.tried /\ y.published = published
      <3>1. n \in 0 .. MaxAttempts
        BY <1>0, <2>1, <2>2 DEF Entity, EntityInOrder
      <3>2. z \in Entity /\ z.event = x.event /\ z.tried = TRUE
        BY <2>1 DEF Entity
      <3> HIDE DEF z, n
      <3>3. t \in Entity /\ t.event = x.event /\ t.tried = TRUE /\ t.published = published
        BY <3>2 DEF Entity
      <3> HIDE DEF t
      <3> QED
        BY <3>1, <3>3 DEF Entity
    <2>4. /\ DOMAIN batch' = Replicas /\ \A q \in Replicas \ {r} : batch'[q] = batch[q]
          /\ batch'[r] = [b EXCEPT ![1] = y]
      <3>1. DOMAIN batch' = Replicas /\ \A q \in Replicas \ {r} : batch'[q] = batch[q]
        BY <1>6 DEF Tried
      <3>2. batch'[r] = [b EXCEPT ![1].tried = TRUE, ![1].published = published,
                                  ![1].attempts = IF published THEN @ ELSE @ + 1]
        BY <1>6 DEF Tried
      <3>3. batch'[r] = [b EXCEPT ![1] = [x EXCEPT !.tried = TRUE, !.published = published,
                                                   !.attempts = IF published THEN @ ELSE @ + 1]]
        BY <2>1, <2>2, <3>2
      <3>4. [x EXCEPT !.tried = TRUE, !.published = published,
                      !.attempts = IF published THEN @ ELSE @ + 1] = y
        BY <2>1 DEF Entity
      <3> QED
        BY <3>1, <3>3, <3>4
    <2>5. y.event \in WrittenEvents /\ y.tried /\ (y.published => Took(y.event))
      BY <1>6, <2>1, <2>2, <2>3 DEF EntityInOrder
    <2> HIDE DEF y
    <2>6. Kept(r)
      <3>1. /\ batch'[r] \in Seq(Entity) /\ batch'[r][1] = y
            /\ DOMAIN batch'[r] = DOMAIN b
            /\ \A i \in DOMAIN b \ {1} : batch'[r][i] = b[i]
        BY <2>1, <2>3, <2>4, BatchesAreTyped
      <3>2. \A i \in DOMAIN b : EntityInOrder(b[i])
        BY DEF BatchInOrder
      <3> QED
        BY <2>5, <3>1, <3>2
    <2> HIDE DEF Kept, b
    <2>7. \A q \in Replicas : Kept(q)
      BY <1>1, <2>4, <2>6
    <2> QED
      BY <1>6, <2>4, <2>7, PublisherFrame DEF Kept
  <1>7. ASSUME NEW r \in Replicas, MayTry(r)
        PROVE  Head(batch[r]).event \in Events
    <2>1. batch[r] \in Seq(Entity) /\ batch[r] # <<>>
      BY <1>7 DEF MayTry, BatchInOrder
    <2>2. Head(batch[r]) \in Entity
      BY <2>1
    <2> QED
      BY <2>2 DEF Entity
  <1>8. ASSUME NEW e \in Events, Route(e)
        PROVE  bound' \in BOOLEAN /\ Routes /\ Took(e)
    BY <1>0, <1>8 DEF Route, Routes, Took
  <1>9. ASSUME NEW r \in Replicas, Publish(r)
        PROVE  IInv'
    <2>1. /\ MayTry(r) /\ Tried(r, TRUE) /\ Route(Head(batch[r]).event)
          /\ written' = written /\ publishedAt' = publishedAt /\ attempts' = attempts
          /\ brokerUp' = brokerUp /\ connection' = connection
      BY <1>9 DEF Publish, outboxRows
    <2> QED
      BY <1>6, <1>7, <1>8, <2>1
  <1>10. ASSUME NEW r \in Replicas, PublishFails(r)
         PROVE  IInv'
    <2>1. /\ MayTry(r) /\ Tried(r, FALSE)
          /\ Route(Head(batch[r]).event) \/ UNCHANGED queueVars
          /\ written' = written /\ publishedAt' = publishedAt /\ attempts' = attempts
          /\ brokerUp' = brokerUp /\ connection' \in [Replicas -> Connections]
      BY <1>10 DEF PublishFails, outboxRows, Connections
    <2>2. bound' \in BOOLEAN /\ Routes
      BY <1>2, <1>7, <1>8, <2>1
    <2> QED
      BY <1>6, <2>1, <2>2
  <1>11. ASSUME NEW r \in Replicas, SaveHead(r)
         PROVE  IInv'
    <2> DEFINE b == batch[r]
               x == b[1]
    <2>1. b \in Seq(Entity) /\ b # <<>> /\ Head(b) = x /\ x \in Entity
      BY <1>11, BatchesAreTyped DEF SaveHead, BatchInOrder
    <2>2. 1 \in DOMAIN b /\ EntityInOrder(x)
      BY <2>1 DEF BatchInOrder
    <2>3. /\ written' = written /\ UNCHANGED queueVars /\ brokerUp' = brokerUp
          /\ connection' = connection
          /\ DOMAIN batch' = Replicas /\ batch'[r] = Tail(b)
          /\ \A q \in Replicas \ {r} : batch'[q] = batch[q]
      BY <1>11 DEF SaveHead
    <2>4. attempts' \in [Events -> 0 .. MaxAttempts]
      BY <1>11, <2>1 DEF SaveHead, Entity
    <2>5. /\ publishedAt' \subseteq publishedAt \cup {x.event}
          /\ x.event \in publishedAt' => x.published \/ x.event \in publishedAt
      BY <1>11, <2>1 DEF SaveHead
    <2>6. \A e \in publishedAt' : e \in WrittenEvents /\ (e \in publishedAt \/ Held(e))
      BY <2>2, <2>5 DEF EntityInOrder
    <2>7. Kept(r)
      <3>1. /\ batch'[r] \in Seq(Entity)
            /\ \A i \in DOMAIN batch'[r] : i + 1 \in DOMAIN b /\ batch'[r][i] = b[i + 1]
        BY <2>1, <2>3, BatchesAreTyped
      <3>2. \A i \in DOMAIN b : EntityInOrder(b[i])
        BY DEF BatchInOrder
      <3> QED
        BY <3>1, <3>2
    <2> HIDE DEF Kept, b
    <2>8. \A q \in Replicas : Kept(q)
      BY <1>1, <2>3, <2>7
    <2> QED
      BY <1>2, <2>3, <2>4, <2>6, <2>8, PublisherFrame DEF Kept
  <1> QED
    BY <1>3, <1>4, <1>5, <1>9, <1>10, <1>11 DEF PublisherStep

-----------------------------------------------------------------------------
(* The consumer.                                                           *)

\* A step of one worker leaves registration and the publishers alone.
LEMMA WorkerLeaves ==
    ASSUME NEW w \in Workers, WorkerStep(w)
    PROVE  /\ written' = written /\ publishedAt' = publishedAt /\ attempts' = attempts
           /\ connection' = connection /\ batch' = batch /\ brokerUp' = brokerUp
           /\ status' = status /\ resending' = resending
           /\ bound' = bound /\ unrouted' = unrouted
  BY DEF WorkerStep, Take, Commit, Ack, Reject, Settle, LoseDelivery, outboxVars, outboxRows,
         publisherVars, queueVars, registrationVars

\* What holds after a worker's step whose queue, handlers and marks are in order.
LEMMA WorkerFrame ==
    ASSUME IInv, NEW w \in Workers, WorkerStep(w), MovesOn,
           queue' \in [Events -> 0 .. MaxCopies],
           eligibility' \in [Applications -> {NoRow, "ELIGIBLE", "ABSENT"}],
           processed \subseteq processed', processed' \subseteq Events, deadLetters' \subseteq Events,
           handler' \in [Workers -> Handler \cup {Idle}],
           \A v \in Workers \ {w} : handler'[v] = handler[v],
           HandlerInOrder(w)',
           \A e \in Events : Counted(e)'
    PROVE  IInv'
  <1> USE DEF IInv, TypeOK, OutboxTypeOK
  <1>1. /\ written' = written /\ publishedAt' = publishedAt /\ attempts' = attempts
        /\ connection' = connection /\ batch' = batch /\ brokerUp' = brokerUp
        /\ status' = status /\ resending' = resending
        /\ bound' = bound /\ unrouted' = unrouted
    BY WorkerLeaves
  <1>2. WrittenEvents' = WrittenEvents
    BY <1>1 DEF WrittenEvents
  <1>3. \A r \in Replicas : BatchInOrder(r)'
    BY <1>1, EntitiesStay DEF BatchInOrder
  <1>4. \A v \in Workers \ {w} : HandlerInOrder(v)'
    BY DEF HandlerInOrder
  <1>5. NoEventLost'
    BY <1>1 DEF NoEventLost, MovesOn, Held
  <1>6. TypeOK'
    BY <1>1, <1>2
  <1> QED
    BY <1>1, <1>3, <1>4, <1>5, <1>6

\* A worker takes a copy, commits, settles it or loses it.
LEMMA WorkerKeeps ==
    ASSUME IInv, NEW w \in Workers, WorkerStep(w)
    PROVE  IInv'
  <1> USE DEF IInv, TypeOK, OutboxTypeOK
  <1>0. MaxCopies \in Nat \ {0} /\ WrittenEvents' = WrittenEvents /\ unrouted' = unrouted
    BY OutboxAssumption, WorkerLeaves DEF WrittenEvents
  <1>1. handler[w] # Idle => handler[w] \in Handler /\ handler[w].event \in Events
    BY DEF Handler
  <1>2. \A e \in Events : /\ IsFiniteSet(InHand(e)) /\ Cardinality(InHand(e)) <= queue[e]
                          /\ Cardinality(InHand(e)) \in Nat /\ queue[e] \in 0 .. MaxCopies
    BY FS_CardinalityType DEF Counted
  <1>3. ASSUME NEW e \in Events, Take(w, e)
        PROVE  IInv'
    <2> DEFINE h == [event |-> e, fresh |-> e \notin processed, committed |-> FALSE]
    <2>1. h \in Handler /\ h # Idle /\ h.event = e /\ ~h.committed
      <3>1. h \in Handler
        BY DEF Handler
      <3> QED
        BY <3>1, HandlersAreNotIdle
    <2>2. ~h.fresh => e \in processed
      OBVIOUS
    <2>3. handler' = [handler EXCEPT ![w] = h] /\ handler[w] = Idle
      BY <1>3 DEF Take
    <2>4. /\ queue' = queue /\ eligibility' = eligibility /\ processed' = processed
          /\ deadLetters' = deadLetters
      BY <1>3 DEF Take, outboxVars, queueVars
    <2>5. Cardinality(InHand(e)) < queue[e]
      BY <1>3 DEF Take, Waiting
    <2> HIDE DEF h
    <2>6. /\ handler' \in [Workers -> Handler \cup {Idle}] /\ handler'[w] = h
          /\ \A v \in Workers \ {w} : handler'[v] = handler[v]
      BY <2>1, <2>3
    <2>7. HandlerInOrder(w)'
      BY <2>1, <2>2, <2>4, <2>6 DEF HandlerInOrder
    <2>8. InHand(e)' = InHand(e) \cup {w} /\ w \notin InHand(e)
      BY <2>1, <2>3, <2>6 DEF InHand
    <2>9. \A d \in Events \ {e} : InHand(d)' = InHand(d)
      BY <2>1, <2>3, <2>6 DEF InHand
    <2>10. Counted(e)'
      <3>1. /\ IsFiniteSet(InHand(e) \cup {w})
            /\ Cardinality(InHand(e) \cup {w}) = Cardinality(InHand(e)) + 1
        BY <1>2, <2>8, FS_AddElement
      <3>2. Cardinality(InHand(e)) + 1 <= queue[e]
        BY <1>2, <2>5
      <3> QED
        BY <2>4, <2>8, <3>1, <3>2 DEF Counted
    <2>11. \A d \in Events : Counted(d)'
      BY <2>4, <2>9, <2>10 DEF Counted
    <2>12. MovesOn
      BY <1>0, <2>4 DEF MovesOn, Held
    <2> QED
      BY <2>4, <2>6, <2>7, <2>11, <2>12, WorkerFrame
  <1>4. CASE Commit(w)
    <2> DEFINE e == handler[w].event
               h == [handler[w] EXCEPT !.committed = TRUE]
    <2>1. handler[w] \in Handler /\ handler[w] # Idle /\ e \in Events
      BY <1>1, <1>4 DEF Commit, Handling
    <2>2. h \in Handler /\ h # Idle /\ h.event = e
      <3>1. h \in Handler /\ h.event = e
        BY <2>1 DEF Handler
      <3> QED
        BY <3>1, HandlersAreNotIdle
    <2>3. /\ handler' = [handler EXCEPT ![w] = h]
          /\ queue' = queue /\ deadLetters' = deadLetters
      BY <1>4 DEF Commit, outboxVars, queueVars
    <2>4. processed' = processed \/ processed' = processed \cup {e}
      BY <1>4 DEF Commit
    <2>5. e \in processed'
      <3>1. ~handler[w].fresh => e \in processed
        BY <2>1 DEF HandlerInOrder
      <3> QED
        BY <1>4, <3>1 DEF Commit
    <2>6. eligibility' \in [Applications -> {NoRow, "ELIGIBLE", "ABSENT"}]
      BY <1>4 DEF Commit, Projected
    <2> HIDE DEF h
    <2>7. /\ handler' \in [Workers -> Handler \cup {Idle}] /\ handler'[w] = h
          /\ \A v \in Workers \ {w} : handler'[v] = handler[v]
      BY <2>2, <2>3
    <2>8. HandlerInOrder(w)'
      BY <2>2, <2>5, <2>7 DEF HandlerInOrder
    <2>9. \A d \in Events : InHand(d)' = InHand(d)
      BY <2>1, <2>2, <2>7 DEF InHand
    <2>10. \A d \in Events : Counted(d)'
      BY <2>3, <2>9 DEF Counted
    <2>11. MovesOn
      BY <1>0, <2>3, <2>4 DEF MovesOn, Held
    <2> QED
      BY <2>1, <2>3, <2>4, <2>6, <2>7, <2>8, <2>10, <2>11, WorkerFrame
  <1>5. ASSUME handler[w] # Idle, handler' = [handler EXCEPT ![w] = Idle]
        PROVE  /\ handler' \in [Workers -> Handler \cup {Idle}]
               /\ \A v \in Workers \ {w} : handler'[v] = handler[v]
               /\ HandlerInOrder(w)'
               /\ \A d \in Events : InHand(d)' = InHand(d) \ {w}
               /\ w \in InHand(handler[w].event)
               /\ \A d \in Events : d # handler[w].event => w \notin InHand(d)
    <2>1. /\ handler' \in [Workers -> Handler \cup {Idle}] /\ handler'[w] = Idle
          /\ \A v \in Workers \ {w} : handler'[v] = handler[v]
      BY <1>5
    <2> QED
      BY <1>5, <2>1 DEF HandlerInOrder, InHand
  <1>6. ASSUME handler[w] # Idle, Settle(w), deadLetters' \subseteq Events,
               deadLetters \subseteq deadLetters',
               handler[w].event \in processed \/ handler[w].event \in deadLetters'
        PROVE  IInv'
    <2>0. PICK e \in Events : e = handler[w].event
      BY <1>1, <1>6
    <2>1. /\ handler' = [handler EXCEPT ![w] = Idle]
          /\ eligibility' = eligibility /\ processed' = processed
          /\ queue' = [queue EXCEPT ![e] = @ - 1]
      BY <1>6, <2>0 DEF Settle
    <2>2. /\ \A d \in Events : InHand(d)' = InHand(d) \ {w}
          /\ w \in InHand(e) /\ e \in Events
          /\ \A d \in Events : d # e => w \notin InHand(d)
      BY <1>5, <1>6, <2>0, <2>1
    <2>3. Cardinality(InHand(e)) # 0
      BY <1>2, <2>2, FS_EmptySet
    <2>4. /\ queue'[e] = queue[e] - 1 /\ \A d \in Events \ {e} : queue'[d] = queue[d]
          /\ queue' \in [Events -> 0 .. MaxCopies]
      BY <1>0, <1>2, <2>1, <2>2, <2>3
    <2>5. Counted(e)'
      <3>1. /\ IsFiniteSet(InHand(e) \ {w})
            /\ Cardinality(InHand(e) \ {w}) = Cardinality(InHand(e)) - 1
        BY <1>2, <2>2, FS_RemoveElement
      <3>2. InHand(e)' = InHand(e) \ {w}
        BY <2>2
      <3> QED
        BY <1>2, <2>2, <2>4, <3>1, <3>2 DEF Counted
    <2>6. ASSUME NEW d \in Events \ {e}
          PROVE  Counted(d)'
      <3>1. InHand(d)' = InHand(d)
        <4>1. InHand(d)' = InHand(d) \ {w}
          BY <2>2
        <4>2. w \notin InHand(d)
          BY <2>0, <2>2
        <4> QED
          BY <4>1, <4>2
      <3> QED
        BY <2>4, <3>1 DEF Counted
    <2>7. \A d \in Events : Counted(d)'
      BY <2>5, <2>6
    <2>8. MovesOn
      BY <1>0, <1>6, <2>0, <2>1, <2>4 DEF MovesOn, Held
    <2> QED
      BY <1>5, <1>6, <2>1, <2>4, <2>7, <2>8, WorkerFrame
  <1>7. CASE Ack(w)
    <2>1. handler[w] # Idle /\ Settle(w) /\ deadLetters' = deadLetters /\ handler[w].committed
      BY <1>7 DEF Ack
    <2>2. handler[w].event \in processed
      BY <2>1 DEF HandlerInOrder
    <2> QED
      BY <1>6, <2>1, <2>2
  <1>8. CASE Reject(w)
    <2>1. /\ handler[w] # Idle /\ Settle(w)
          /\ deadLetters' = deadLetters \cup {handler[w].event}
      BY <1>8 DEF Reject, Handling
    <2> QED
      BY <1>1, <1>6, <2>1
  <1>9. CASE LoseDelivery(w)
    <2>1. /\ handler[w] # Idle /\ handler' = [handler EXCEPT ![w] = Idle]
          /\ queue' = queue /\ eligibility' = eligibility /\ processed' = processed
          /\ deadLetters' = deadLetters
      BY <1>9 DEF LoseDelivery, outboxVars, queueVars
    <2>2. ASSUME NEW d \in Events
          PROVE  Counted(d)'
      <3>1. InHand(d)' = InHand(d) \ {w}
        BY <1>5, <2>1
      <3>2. /\ IsFiniteSet(InHand(d) \ {w})
            /\ Cardinality(InHand(d) \ {w}) <= Cardinality(InHand(d))
            /\ Cardinality(InHand(d) \ {w}) \in Nat
        <4>1. /\ IsFiniteSet(InHand(d) \ {w})
              /\ \/ Cardinality(InHand(d) \ {w}) = Cardinality(InHand(d)) - 1
                 \/ Cardinality(InHand(d) \ {w}) = Cardinality(InHand(d))
          BY <1>2, FS_RemoveElement
        <4>2. Cardinality(InHand(d) \ {w}) \in Nat
          BY <4>1, FS_CardinalityType
        <4> QED
          BY <1>2, <4>1, <4>2
      <3> QED
        BY <1>2, <2>1, <3>1, <3>2 DEF Counted
    <2>3. MovesOn
      BY <1>0, <2>1 DEF MovesOn, Held
    <2> QED
      BY <1>5, <2>1, <2>2, <2>3, WorkerFrame
  <1> QED
    BY <1>3, <1>4, <1>7, <1>8, <1>9 DEF WorkerStep

-----------------------------------------------------------------------------
(* The theorems.                                                           *)

\* Declaring the queue changes nothing that is on its way.
LEMMA DeclaringKeeps ==
    ASSUME IInv, DeclareQueue
    PROVE  IInv'
  BY DEF DeclareQueue, outboxRows, publisherVars, registrationVars, resultVars, IInv, TypeOK,
         OutboxTypeOK, WrittenEvents, BatchInOrder, EntityInOrder, Held, HandlerInOrder, Counted,
         InHand, NoEventLost

\* The invariant holds at first.
LEMMA InitIInv == Init => IInv
  <1> SUFFICES ASSUME Init
               PROVE  IInv
    OBVIOUS
  <1> USE DEF Init, OutboxInit
  <1>1. WrittenEvents = {}
    BY DEF WrittenEvents, ToSet
  <1>2. TypeOK
    <2>1. MaxAttempts \in Nat /\ MaxCopies \in Nat /\ 0 \in 0 .. MaxAttempts /\ 0 \in 0 .. MaxCopies
      BY OutboxAssumption
    <2>2. Len(written) = Cardinality(WrittenEvents) /\ publishedAt \subseteq WrittenEvents
      BY <1>1, FS_EmptySet
    <2>3. \A r \in Replicas : ToSet(batch[r]) \subseteq Entity
      BY DEF ToSet
    <2>4. OutboxTypeOK
      BY <1>1, <2>1, <2>2, <2>3 DEF OutboxTypeOK, Connections
    <2> QED
      BY <2>4 DEF TypeOK
  <1>3. \A r \in Replicas : BatchInOrder(r)
    BY DEF BatchInOrder
  <1>4. \A w \in Workers : HandlerInOrder(w)
    BY DEF HandlerInOrder
  <1>5. \A e \in Events : InHand(e) = {}
    BY DEF InHand
  <1>6. \A e \in Events : Counted(e)
    <2>1. \A e \in Events : queue[e] = 0
      OBVIOUS
    <2> QED
      <3>1. IsFiniteSet({}) /\ Cardinality({}) = 0
        BY FS_EmptySet
      <3>2. ASSUME NEW e \in Events
            PROVE  IsFiniteSet(InHand(e)) /\ Cardinality(InHand(e)) <= queue[e]
        <4>1. InHand(e) = {} /\ queue[e] = 0
          BY <1>5, <2>1
        <4>2. IsFiniteSet(InHand(e)) /\ Cardinality(InHand(e)) = 0
          BY <3>1, <4>1
        <4> QED
          BY <4>1, <4>2
      <3> QED
        BY <3>2 DEF Counted
  <1> QED
    BY <1>2, <1>3, <1>4, <1>6 DEF IInv, NoEventLost

\* Every step keeps it.
LEMMA StepIInv == IInv /\ [Next]_vars => IInv'
  <1>1. ASSUME IInv, Next
        PROVE  IInv'
    BY <1>1, RegistrationKeeps, PublisherKeeps, DeclaringKeeps, WorkerKeeps DEF Next
  <1>2. ASSUME IInv, UNCHANGED vars
        PROVE  IInv'
    BY <1>2 DEF vars, outboxVars, outboxRows, publisherVars, queueVars, registrationVars,
                resultVars, IInv, TypeOK, OutboxTypeOK, WrittenEvents, BatchInOrder, EntityInOrder, Held,
                HandlerInOrder, Counted, InHand, NoEventLost
  <1> QED
    BY <1>1, <1>2

\* So it holds in every state.
LEMMA AlwaysIInv == Spec => []IInv
  BY InitIInv, StepIInv, PTL DEF Spec

\* Every variable has its type in every state.
THEOREM TypeCorrect == Spec => []TypeOK
  <1>1. IInv => TypeOK
    BY DEF IInv
  <1> QED
    BY <1>1, AlwaysIInv, PTL

\* A published event is in the broker's hands, was processed or is dead-lettered, unless the
\* broker only took it before the consumer's queue existed.
THEOREM PublishedEventsAreKept == Spec => []NoEventLost
  <1>1. IInv => NoEventLost
    BY DEF IInv
  <1> QED
    BY <1>1, AlwaysIInv, PTL

\* Eligibility changes only by an event that is processed for the first time.
THEOREM EventsAreAppliedOnce == Spec => EachEventAppliedOnce
  <1>1. IInv /\ [Next]_vars =>
          [\A a \in Applications :
              eligibility'[a] # eligibility[a] =>
                  \E e \in processed' \ processed : e[2] = a]_vars
    <2> SUFFICES ASSUME IInv, Next, NEW a \in Applications, eligibility'[a] # eligibility[a]
                 PROVE  \E e \in processed' \ processed : e[2] = a
      OBVIOUS
    <2>1. PICK w \in Workers : WorkerStep(w)
      <3>1. ASSUME NEW b \in Applications, RegistrationStep(b)
            PROVE  eligibility' = eligibility
        BY <3>1 DEF RegistrationStep, Verify, MarkAbsent, ReadForResend, Resend, WriteNew,
                    resultVars
      <3>2. ASSUME UNCHANGED <<registrationVars, resultVars>>
            PROVE  eligibility' = eligibility
        BY <3>2 DEF resultVars
      <3>3. DeclareQueue => eligibility' = eligibility
        BY DEF DeclareQueue, resultVars
      <3> QED
        BY <3>1, <3>2, <3>3 DEF Next
    <2> DEFINE e == handler[w].event
    <2>2. /\ Handling(w) /\ e \notin processed /\ processed' = processed \cup {e}
          /\ Projected(e)
      BY <2>1 DEF WorkerStep, Take, Commit, Ack, Reject, Settle, LoseDelivery
    <2>3. a = e[2]
      <3>1. eligibility \in [Applications -> {NoRow, "ELIGIBLE", "ABSENT"}]
        BY DEF IInv, TypeOK
      <3> HIDE DEF e
      <3> QED
        BY <2>2, <3>1 DEF Projected
    <2> QED
      BY <2>2, <2>3
  <1> QED
    BY <1>1, AlwaysIInv, PTL DEF Spec, EachEventAppliedOnce

-----------------------------------------------------------------------------
(* The flow of events.                                                     *)

\* The broker has e for the consumer.
InTransit == {e \in Events : queue[e] > 0}

\* Registration records an event or none.
LEMMA RegistrationFlows ==
    ASSUME IInv, NEW a \in Applications, RegistrationStep(a)
    PROVE  [Flow!Next]_(Flow!flowVars)
  <1>1. /\ queue' = queue /\ processed' = processed /\ deadLetters' = deadLetters
        /\ InTransit' = InTransit
    BY DEF RegistrationStep, Verify, MarkAbsent, ReadForResend, Resend, WriteNew, outboxVars,
           queueVars, resultVars, InTransit
  <1>2. written' = written \/ \E e \in Events : WriteEvent(e)
    BY DEF RegistrationStep, Verify, MarkAbsent, ReadForResend, Resend, WriteNew, outboxVars,
           outboxRows
  <1>3. CASE written' = written
    BY <1>1, <1>3 DEF Flow!flowVars, InTransit, WrittenEvents
  <1>4. ASSUME NEW e \in Events, WriteEvent(e)
        PROVE  Flow!Next
    <2>1. WrittenEvents' = WrittenEvents \cup {e}
      BY <1>4, WritingAppends DEF IInv, TypeOK, OutboxTypeOK
    <2>2. Flow!Record(e)
      BY <1>1, <2>1 DEF Flow!Record, InTransit
    <2> QED
      BY <2>2 DEF Flow!Next
  <1> QED
    BY <1>2, <1>3, <1>4

\* The publishers send what is recorded.
LEMMA PublisherFlows ==
    ASSUME IInv, BrokerStep \/ \E r \in Replicas : PublisherStep(r),
           UNCHANGED <<registrationVars, resultVars>>
    PROVE  [Flow!Next]_(Flow!flowVars)
  <1>1. /\ written' = written /\ WrittenEvents' = WrittenEvents
        /\ processed' = processed /\ deadLetters' = deadLetters
    <2>1. written' = written
      BY DEF BrokerStep, BrokerStops, BrokerStarts, PublisherStep, Start, Stop, LoadBatch,
             Publish, PublishFails, SaveHead, outboxRows
    <2> QED
      BY <2>1 DEF WrittenEvents, resultVars
  <1>2. CASE queue' = queue
    BY <1>1, <1>2 DEF Flow!flowVars, InTransit
  <1>3. ASSUME NEW r \in Replicas, MayTry(r), Route(Head(batch[r]).event), queue' # queue
        PROVE  Flow!Next
    <2>1. batch[r] \in Seq(Entity) /\ batch[r] # <<>>
      BY <1>3 DEF MayTry, IInv, BatchInOrder
    <2>2. PICK e \in Events : e = Head(batch[r]).event /\ e \in WrittenEvents
      <3>1. Head(batch[r]) \in Entity /\ Head(batch[r]) = batch[r][1] /\ 1 \in DOMAIN batch[r]
        BY <2>1
      <3>2. EntityInOrder(Head(batch[r]))
        BY <3>1 DEF IInv, BatchInOrder
      <3> QED
        BY <3>1, <3>2 DEF Entity, EntityInOrder
    <2>3. queue \in [Events -> 0 .. MaxCopies] /\ queue' = [queue EXCEPT ![e] = @ + 1]
      BY <1>3, <2>2 DEF Route, IInv, TypeOK, OutboxTypeOK
    <2>4. \A d \in Events : queue'[d] > 0 <=> queue[d] > 0 \/ d = e
      BY <2>3
    <2>5. InTransit' = InTransit \cup {e}
      BY <2>4 DEF InTransit
    <2>6. Flow!Send(e)
      BY <1>1, <2>2, <2>5 DEF Flow!Send, InTransit
    <2> QED
      BY <2>6 DEF Flow!Next
  <1>4. \/ queue' = queue
        \/ \E r \in Replicas : MayTry(r) /\ Route(Head(batch[r]).event)
    BY DEF BrokerStep, BrokerStops, BrokerStarts, PublisherStep, Start, Stop, LoadBatch, Publish,
           PublishFails, SaveHead, outboxRows, queueVars
  <1> QED
    BY <1>2, <1>3, <1>4

\* A worker consumes what the broker has.
LEMMA WorkerFlows ==
    ASSUME IInv, NEW w \in Workers, WorkerStep(w)
    PROVE  [Flow!Next]_(Flow!flowVars)
  <1>1. WrittenEvents' = WrittenEvents
    BY WorkerLeaves DEF WrittenEvents
  <1>2. CASE queue' = queue /\ processed' = processed /\ deadLetters' = deadLetters
    BY <1>1, <1>2 DEF Flow!flowVars, InTransit
  <1>3. ASSUME NEW e \in Events, handler[w] # Idle, handler[w].event = e
        PROVE  e \in InTransit
    <2>1. w \in InHand(e)
      BY <1>3 DEF InHand
    <2>2. Cardinality(InHand(e)) \in Nat /\ Cardinality(InHand(e)) # 0
      BY <2>1, FS_CardinalityType, FS_EmptySet DEF IInv, Counted
    <2>3. Cardinality(InHand(e)) <= queue[e] /\ queue[e] \in 0 .. MaxCopies
      BY DEF IInv, Counted, TypeOK, OutboxTypeOK
    <2> QED
      BY <2>2, <2>3, OutboxAssumption DEF InTransit
  <1>4. handler[w] # Idle => handler[w].event \in Events
    BY DEF IInv, TypeOK, Handler
  <1>5. CASE Commit(w)
    <2>1. PICK e \in Events : e = handler[w].event
      BY <1>4, <1>5 DEF Commit, Handling
    <2>2. e \in InTransit
      BY <1>3, <1>5, <2>1 DEF Commit, Handling
    <2>3. queue' = queue /\ deadLetters' = deadLetters /\ InTransit' = InTransit
      BY <1>5 DEF Commit, outboxVars, queueVars, InTransit
    <2>4. \/ processed' = processed
          \/ e \notin processed /\ processed' = processed \cup {e}
      BY <1>5, <2>1 DEF Commit
    <2>5. processed' # processed => Flow!Consume(e)
      BY <1>1, <2>2, <2>3, <2>4 DEF Flow!Consume, InTransit
    <2> QED
      BY <1>2, <2>3, <2>5 DEF Flow!Next
  <1>6. ASSUME NEW e \in Events, handler[w] # Idle, handler[w].event = e, Settle(w),
               deadLetters' = deadLetters \/ deadLetters' = deadLetters \cup {e},
               e \in processed \cup deadLetters'
        PROVE  Flow!Next
    <2>1. e \in InTransit /\ processed' = processed
      BY <1>3, <1>6 DEF Settle
    <2>2. queue \in [Events -> 0 .. MaxCopies] /\ queue' = [queue EXCEPT ![e] = @ - 1]
      BY <1>6 DEF Settle, IInv, TypeOK, OutboxTypeOK
    <2>3. \A d \in Events : d # e => queue'[d] = queue[d]
      BY <2>2
    <2>4. InTransit' = InTransit \/ InTransit' = InTransit \ {e}
      <3>1. CASE queue'[e] > 0
        BY <2>1, <2>3, <3>1 DEF InTransit
      <3>2. CASE ~(queue'[e] > 0)
        BY <2>1, <2>3, <3>2 DEF InTransit
      <3> QED
        BY <3>1, <3>2
    <2>5. Flow!Consume(e)
      BY <1>1, <1>6, <2>1, <2>4 DEF Flow!Consume, InTransit
    <2> QED
      BY <2>5 DEF Flow!Next
  <1>7. CASE Ack(w)
    <2>1. /\ handler[w] # Idle /\ handler[w].event \in processed
          /\ Settle(w) /\ deadLetters' = deadLetters
      BY <1>7 DEF Ack, IInv, HandlerInOrder
    <2> QED
      BY <1>4, <1>6, <2>1
  <1>8. CASE Reject(w)
    <2>1. /\ handler[w] # Idle /\ Settle(w)
          /\ deadLetters' = deadLetters \cup {handler[w].event}
      BY <1>8 DEF Reject, Handling
    <2> QED
      BY <1>4, <1>6, <2>1
  <1>9. CASE (\E e \in Events : Take(w, e)) \/ LoseDelivery(w)
    BY <1>2, <1>9 DEF Take, LoseDelivery, outboxVars, queueVars
  <1> QED
    BY <1>5, <1>7, <1>8, <1>9 DEF WorkerStep

\* Outbox, broker and consumer keep the promise of EventFlow: a candidate's eligibility comes
\* from an event that registration recorded with its change, once, and an event that the
\* broker has leaves it only when it was processed or dead-lettered.
THEOREM EligibilityFlows == Spec => ImplementsEventFlow
  <1>1. Init => Flow!Init
    <2> SUFFICES ASSUME Init
                 PROVE  Flow!Init
      OBVIOUS
    <2>1. WrittenEvents = {}
      BY DEF Init, OutboxInit, WrittenEvents, ToSet
    <2>2. InTransit = {}
      BY DEF Init, OutboxInit, InTransit
    <2> QED
      BY <2>1, <2>2 DEF Init, Flow!Init, InTransit
  <1>2. IInv /\ [Next]_vars => [Flow!Next]_(Flow!flowVars)
    <2>1. ASSUME IInv, Next
          PROVE  [Flow!Next]_(Flow!flowVars)
      <3>1. DeclareQueue => UNCHANGED Flow!flowVars
        BY DEF DeclareQueue, outboxRows, resultVars, Flow!flowVars, WrittenEvents
      <3> QED
        BY <2>1, <3>1, RegistrationFlows, PublisherFlows, WorkerFlows DEF Next
    <2>2. ASSUME UNCHANGED vars
          PROVE  UNCHANGED Flow!flowVars
      BY <2>2 DEF vars, outboxVars, outboxRows, queueVars, resultVars, Flow!flowVars, WrittenEvents
    <2> QED
      BY <2>1, <2>2
  <1> QED
    BY <1>1, <1>2, AlwaysIInv, PTL DEF Spec, ImplementsEventFlow, Flow!Spec
=============================================================================
