# TLA+ models of the Dzongkha Standard Testing System

DSTS registers candidates for language examinations, verifies them, collects fees, scores
their tests, declares results, handles appeals and issues certificates. The backend
(`src/backend`) is a set of NestJS services, each with its own PostgreSQL schema, that talk
through a transactional outbox and RabbitMQ, and through internal HTTP calls. What is hard to
get right in it, and hard to test, is what several calls, services and external parties do to
the same row. That is what these modules model.

## The system

| Component | State it keeps | Operations | Meets others through | Hard behaviour | What makes it correct |
|---|---|---|---|---|---|
| Registration (`registration-service`) | `exams`, `applications`, `waitlist_entries`, `attendance`, `idempotency_records` | create / edit / move examination windows; submit, cancel, resubmit; review, return, verify; attendance | outbox events; DCRC over HTTP inside `verify` | concurrent submissions at the last seat, promotion while cancelling, edits of the capacity, a profile replaced while DCRC answers | no seat sold twice; a fair waitlist; one application per person; one answer per request |
| DSTS numbers (`dsts-number.ts`) | `dsts_number_counters`, `dsts_number_slots` | allocate, release | called in the transaction of submit, verify, attendance | reuse of released numbers, exhaustion, the year's end | column and slot table agree; the smallest free number of the year; no reuse across years |
| Registration payments (`birms-payment.service.ts`) | payment columns of `applications` | advice, refresh, cancel, callback, reversal; manual entry | BIRMS over HTTP and webhooks | every operation reads, waits for BIRMS, then writes | the recorded status is one BIRMS or staff reported; nothing else on the row changes |
| Outbox and broker (`rabbit-outbox.ts`) | `outbox_events` | write in a transaction, publish, retry, give up | topic exchange, one queue per consumer | duplicates, reordering, loss after ten attempts | every event reaches its consumers while the broker is up |
| Eligibility projection (`result-service/event-consumer.service.ts`) | `candidate_eligibility`, `processed_events` | ApplicationVerified, CandidateMarkedAbsent | RabbitMQ, up to ten deliveries at once | late, duplicate and reordered events, dead letters | absent candidates are not eligible; each event applied once |
| Results (`result.service.ts`, `scoring.service.ts`) | `committees`, `score_sheets`, `score_versions`, `scoring_rules`, `declarations` | committee, rules, draft, submit, declare, appeal revision | outbox; HTTP from appeals and certificates | a committee replaced under a draft; retried revisions | one version log per sheet; nothing declared that is incomplete |
| Appeals (`appeal.service.ts`) | `appeals`, idempotency records | submit, payment, waiver, review, decide, apply revision | HTTP to results; certificates in the same service | a three-step saga over two services | a decided appeal changes the score once |
| Certificates (`certificate.service.ts`, its consumer) | `certificates` | issue, supersede, revoke, expire | ScoreSubmitted events; HTTP to results | issue racing a revision | one active certificate, of the current score |
| Identity (`auth.service.ts`) | users, `sessions`, `ndi_logins` | login, refresh, logout, NDI poll / webhook / cancel / expiry | Bhutan NDI over HTTP and webhook | rotation and revocation on one session; four writers of one NDI login | a revoked session stays revoked; one login per proof |
| Staff handover (`staff-handover.service.ts`) | transfers; responsibilities in five services | transfer, resume | HTTP to five services | partial failure and resumption | no responsibility lost |
| Notification, reporting (`delivery-dispatch.service.ts`, `report-job.worker.ts`) | deliveries; report jobs | consume, claim, send or run, fail | RabbitMQ, mail and SMS | a worker that stops between claim and outcome | at most five attempts; nothing stuck |
| Assessment content | question papers, samples | upload, publish | ResultDeclared events | publication before declaration | no sample before its result |

The HTTP layer, guards, validation, most of the frontend, migrations and deployment are listed in
`PROJECT.json` with the reason they are not modelled; see also *Not modelled* below.

## Modules

| Module | Models | Extends |
|---|---|---|
| `DstsNumbers` | the counter and slot tables, `allocateDstsNumber`, `releaseDstsNumber` | |
| `NumberRegister` | the abstract register of numbers that `DstsNumbers` implements | |
| `Registration` | examination windows, applications, waitlist, review, attendance, idempotency | `DstsNumbers` |
| `Birms` | the revenue system, as the two services that call it see it (external) | |
| `RegistrationPayment` | the fee of an application, the calls to BIRMS about it, manual entry, verification and attendance on the same rows | `DstsNumbers`, `Birms` |
| `Outbox` | the transactional outbox, the replicas that publish it, one queue of the broker | |
| `Eligibility` | the events about a candidate, from the registration service's transactions to the result service's projection | `Outbox` |
| `ScoringRules` | rules, their approval for a period, the calculation of an overall score | |
| `VersionLog` | the abstract log of what made each version of a score, which `Scores` and `Appeal` implement | |
| `EventFlow` | the abstract way of an event from its record to its consumer, which `Eligibility` and, for each of its two consumers, `Messaging` implement | |
| `Scores` | committees, score sheets, versions, declarations, appeal revisions | `ScoringRules` |
| `Certificate` | certificates of a released result and the calls that issue them | |
| `Appeal` | appeals, from submission to the revision of the score | `Certificate` |
| `FeeDesk` | the abstract desk at which an appeal waits for its fee, which `Appeal` and `AppealPayment` implement | |
| `AppealPayment` | the fee of an appeal: submission, waiver, BIRMS, confirmation | `Birms` |
| `Sessions` | the sessions table: login, refresh, idle timeout, logout, revocation | |
| `Browser` | the tabs of one browser, their cookie, stores and shown users | `Sessions` |
| `NdiLogin` | a login with a Bhutan NDI proof: poll, claim, cancellation, deadline, webhook | |
| `NdiPanel` | the login panel that starts and polls it | `NdiLogin` |
| `Accounts` | rows of the users table, and the calls that read and save one | |
| `ReportJobs` | report jobs and their workers | |
| `StaffHandover` | the handover of a user's responsibilities over the services | `Accounts`, with an instance of `ReportJobs` |
| `Delivery` | e-mail and SMS deliveries and the workers that send them | |
| `Messaging` | events on their way into the projections of reporting and the deliveries of notification | `Delivery` |
| `Assessment` | question papers: upload, publication as a sample, retirement | |
| `RegistrationProofs`, `RegistrationPaymentProofs`, `EligibilityProofs`, `AppealProofs`, `NdiProofs` | the theorems, see *Proofs* | the module they are about |
| `BrowserAndFeeProofs` | theorems | `Browser`, `AppealPayment` |
| `StaffAndContentProofs` | theorems | `StaffHandover`, `Assessment` |
| `ScoresAndMessagingProofs` | theorems | `Scores`, `Messaging` |
| `MCRegistration`, `MCRegistrationPayment`, `MCEligibility`, `MCScores`, `MCAppeal`, `MCBrowser`, `MCNdiPanel`, `MCStaffHandover`, `MCMessaging`, `MCAssessment` | small instances and symmetry sets for TLC | the module they are about |

An operator whose comment begins "Mutated form of" is no part of a model: it is what the
definition after it would be with a plausible bug, and `PROJECT.json` names the property that
finds it.

### Registration and DSTS numbers

A variable is a column (or a table keyed by application), named after it; `NoRow` stands for a
row that does not exist and `None` for SQL NULL. An action is one handler with everything its
transaction does:

* `submit` and `cancel` run SERIALIZABLE (`submit` also locks the examination row), so two
  submissions that counted the same seats cannot both commit. `transition()`, `updateExam` and
  `setExamStatus` lock the row they change. The year's number counter is locked by whoever
  allocates, and a transaction that waited for it on an older snapshot fails with 40001 and is
  run again (three times for `submit`) or refused. Each therefore is one action.
* `cancel` includes the promotion of the next in line: `CancelAndPromote` and `CancelAlone` are
  its two outcomes.
* `verify` is two actions. It reads the application without a lock, awaits DCRC's match
  (`LookUpProfile`), and only then opens its transaction (`Verify`, `VerifyRefused`). DCRC that
  never answers is a lookup that is never used.
* `markAttendance` takes an advisory lock and reads the row without locking it. No other handler
  of this service leaves VERIFIED, so the read is as good as a locked one, except for the payment
  columns, which are not this module's.
* A refused call changes nothing and is a disabled action. A key that has been answered gets its
  recorded response: no action.

A number is a pair of year and sequence. Its text is a letter for the hundred the sequence is
in, the last two digits of the year and the sequence, so two numbers of one century have two
texts (`YearsAssumption`). A deployment may start with applications older than
DSTS numbers (`Legacy`): submitted and without a number, or verified under a number of the old
format. `MaxLookups` bounds the calls of `verify` that wait for DCRC at once.

`positionKey` is `Date.now()` of the committing replica; the model takes it to grow from one
commit on an examination row to the next. Equal keys within a millisecond and clock skew are
not modelled. A cancelled application keeps its DSTS number (only an absence releases one): the
properties are stated so.

Payment columns are left out here. That is an assumption on the invariants: `cancel` of
`BirmsPaymentService` saves a whole application it read before an HTTP call, and can write back
a status or a number that has changed since. The properties of
`Registration` speak of the service without it, and `RegistrationPayment` of what is left of them
with it.

Atomic abstractions left out on purpose: examination code uniqueness, permissions, texts,
the append-only history. `resendVerificationNotification` only emits an event again and is
`Resend` in `Eligibility`.

### Registration payments

`RegistrationPayment` keeps of an application the columns its handlers write. A BIRMS operation is a
call with phases: it begins (reads the row), BIRMS acts on the request, and each of its transactions
writes. Between any two, other calls go on. What they write back differs, and the model keeps the
difference: a refresh, a callback and a reversal load the row again, without a lock, and a reversal
that BIRMS confirms does so a second time (`LoadForReversal`, `SaveReversal`: only the provider's
details change there, but the save writes back the rest); a cancellation saves the copy it read at
its beginning; attendance loads the row under an advisory lock nobody else takes. Saving an entity
writes every column in which it differs from the stored row, so a stale copy takes back what others
wrote.

BIRMS is external: an advice per application's reference number, moved by payers and banks. A
request that is refused, lost or timed out ends its call before or after BIRMS acted on it.
Anybody may post to the callback; the code trusts only what BIRMS then answers, and so does the
model. Each of `Calls` is used once, which bounds the requests of a behaviour.

### Outbox and eligibility

In `Outbox` a replica is off, without a broker for good (`failed`: it connects once, when it
starts), on an open channel, or on a closed one. It loads the unpublished events, publishes one
after the other, and saves the copy it loaded (`SaveHead`), whatever another replica saved
meanwhile. A publish fails because the channel is closed, or closes before the broker has the
message, or closes after it but before the confirmation; then the event is sent again.
`MaxCopies` bounds the copies of one event in the broker. The consumer's queue exists, for good,
from the first time that the consumer found the broker (`DeclareQueue`). Until then the broker
confirms an event and drops it (`Route`); `unrouted` is history: events taken only in that way.

In `Eligibility` the registration service writes events in its transactions (`Verify`,
`MarkAbsent`; `Resend` does so from a row it read earlier without a lock). The consumer handles
several messages at once. A handler first looks in `processed_events` (`Take`), then runs its
transaction (`Commit`, where the unique event id refuses what another handler processed since),
then acknowledges (`Ack`). What throws goes to the dead-letter queue; a lost channel or process
brings the copy back (`LoseDelivery`).

`EventsAreSettled` is the liveness property. Fairness says of the code: a replica with a timer
goes on with its batch, as the timer fires every two seconds and a publish is confirmed or
fails; a worker takes what waits (strong, since other copies may be taken first), its
transaction ends, and not every one of its deliveries is lost before it is settled (strong,
since the channel may close again and again). Of the world: the broker and the consumer are
started again. The property's premise is that one replica keeps its timer, because a replica
that found no broker at its start never publishes. The conclusion includes the events the
code gives up: those in the dead-letter queue, which nothing reads, those with all their
attempts used, and those published before there was a queue. `NoEventLost` exempts the last, too.

`EventFlow` says what a consumer may rely on, without replicas, copies, batches and handlers: an
event is recorded with the change it tells of, only then sent, as often as it may be; it is applied
once; and the broker has it until it was applied or given up. In `Eligibility` (`ImplementsEventFlow`)
recorded are the outbox rows, in transit the events with a copy in the queue, a handler's included,
applied those in `processed_events`, and dead those with a copy in the dead-letter queue.

### Scores

`ScoringRules` has scores and bounds in thousandths, as the columns are `numeric(8,3)`. A band is
found by its inclusive bounds; the overall score is the mean of the four contributions, rounded to
the rule's decimals as `toFixed` does for values that binary fractions hold. Approval looks for an
approved rule in its period before it saves (`CheckApproval`, `Approve`); two approvals can overlap
there, and the exclusion constraint of the database is what remains.

In `Scores`, `submit`, `declareResults` and `applyAppealRevision` are single actions
(SERIALIZABLE). `saveDraft` is two: it checks the candidate and the head without a lock
(`BeginDraft`) and writes the sheet later (`SaveDraft`, `RefuseDraft`); `MaxDrafts` bounds the
calls in between. `setCommittee` holds the committee row that the foreign key of a new sheet
needs, so it is one action. A draft that was checked before a change of the committee and is
written as the first sheet after it stays possible in model and code; no property forbids it.
The status SUBMITTED does not occur: a submitted sheet is PUBLISHED at once (migration 0031).

### Appeals and certificates

`Appeal` has the versions of a score as the sequence of the appeals that made them: what
`Scores` guarantees of a sheet (`VersionsAreAHistory`, `EachAppealRevisesOnce`) is what this
module takes of the result service. `VersionLog` says it once for both: a log for each sheet, to
which a submission writes the first entry and each appeal at most one, in one sheet. Both modules
implement it (`ImplementsVersionLog`), `Scores` with its tables, statuses, rules and keys, `Appeal`
with its retries over two services. Of the four skills only `changes` is kept: whether an
approved skill differs from the score that was appealed. The committee must change a skill, the
Chief may approve only unchanged ones; such an appeal waits for ever, since the result service
refuses it, and so does one opened on a version that another appeal has replaced meanwhile.

Submission is two actions: the result is read from the result service, then the transaction
opens the appeal. A revision is four: `BeginRevision` (the appeal as read), `ReviseScore`
(transaction of the result service), `SupersedeCertificates`, `Complete`. `CallFails` ends a
call between any two of them, and the revision may be started again.

`Certificate` has an issuing call look for a certificate of its score version (`BeginIssue`), count
the candidate's certificates (`CountPrior`), and insert the row (`Insert`) with the two unique keys
of the table, superseding those of older versions. The version a call issues may have been replaced
since: by the time a ScoreSubmitted message is handled or in a list of results read for a whole
examination. `late` is history: it marks a certificate inserted when its version was no longer
current.

Of the fee `Appeal` keeps what settled it. `SetFeeWaiver` leaves alone the payments with an
advice or a transaction of a gateway, which `AppealPayment` knows, so it chooses here which are
waived. `FeeDesk` is what the two modules say of the same appeals: each waits until its fee is paid or
waived, is released once, and is not called back. `Appeal` goes on with an appeal from where
`AppealPayment` ends, its release, and takes the payment there in one step; that both implement the
desk (`ImplementsFeeDesk`) is why it may.

### Appeal payments

`AppealPayment` is about one row of `payments` for each appeal, up to the release of the appeal
to the committee. Submission, waiver and confirmation are SERIALIZABLE transactions that lock
what they change: one action each. An advice and a synchronization are calls with phases. An
advice saves the payment it read before it asked BIRMS (`SaveAdvice`); a synchronization, which
the payer's refresh and BIRMS's callback share, first confirms the payment if BIRMS has it as
paid (`Confirm`), then loads the row (`LoadForSync`) and saves it (`SaveSync`) without a lock.
BIRMS's answer may name a receipt or, before one is made out, only the advice: that is the
transaction a confirmation names, and it must be the same the second time.

The status a synchronization saves may be older than the row, so `payment.status` itself is not
what can be relied on: `AppealFeesAreSettled` says what can, and `PaidFeesAreReleased` what an
honest payer gets, except where the row has come to say FAILED or PAID while the appeal was still
SUBMITTED. Both exceptions happen (see *Divergences and observations*).

### Sessions and the browser

A request carries the cookie its browser held when it was sent, and its answer sets the cookie
when it arrives; in between are other tabs. In `Sessions` a handler that reads a session row and
writes it later is two actions: refresh (`ReadForRefresh`, then `Rotate`, `RefuseRotation` or
`TimeOutIdle`) and logout (`ReadForLogout`, `Revoke`). `Rotate` locks the row and looks at the
token again, which is what makes an exchange happen once; logout saves the row as it read it,
with `revokedAt` set. `Browser` has the cookie, each tab's `sessionStorage` (`stored`) and React
state (`shown`), and what the tab does with each answer: a refresh whose tab was signed out
meanwhile drops the answer, but the browser has taken the cookie.
`lost` is history: an answer that never came, after which browser and server may disagree about
the current token.

### NDI login

Poll, cancellation, deadline and webhook read a row of `ndi_login_requests` and save it later;
only the claim looks at the row again as it writes. `Decide` and `Deliver` are Bhutan NDI's:
a verdict, delivered once or more. `NdiPanel` polls every two seconds, one poll at a time, and is
dismissed or started anew at any moment. A poll that finds a validated login opens the session,
so the poll's answer is what must reach the tab.

### Accounts and the handover of staff

`Accounts` is the pattern of every call on a user: read the row, check, change a column, save the
entity. `Save` writes back all of it; `stale` is history: a row overwritten by an older copy. The
count of wrong passwords is left out, so a wrong password locks or does not.

`StaffHandover` takes `staff-handover.service.ts` step by step: the plan that asks every service
(`Begin`), the transaction that freezes the user and reserves the successor (`Freeze`), a call to
each service that moves what it holds (`Move`), another look at each (`Look`), the transaction that
completes it (`Complete`). Any step may fail (`GiveUp`), and a pending handover goes on from the
beginning of the moves. A move whose answer was lost may still be carried out (`MoveBelatedly`). The
services assign responsibilities to whomever they like meanwhile (`Assign`), and the user may ask
for a report as long as the access token is valid, whatever has become of the account
(`RequestReport`; `security.guards.ts:25` looks at the token only); `late` is history: what was
given out after the last look. Reporting refuses to move the jobs of a user while one of them is
RUNNING.

### Notifications and reporting

`Messaging` has one queue for each of the two services, which exists once the service has run
(`Bind`). `outbox` says how often each event will yet be published: more than once if a replica
stops or fails to save in between (`Outbox` is why). Reporting handles several messages at once:
`Read` looks for the event's row in `processed_events` and reads the projection, `Commit` writes
both, unless a unique key refuses (`Refused`, then `Reject`). `overtaken` is history: a resource
whose projection was written over by an older event, whose handler had read the row before the newer
one was projected (`Overtakes`). It is so until an event newer than all before is projected; a
handler that projects nothing, or replaces an older event, marks nothing. Notification's transaction
is one action (`Notify`): all it writes hangs on the unique note of the event.

Both keep the promise of `EventFlow` (`ReportingImplementsFlow`, `NotificationImplementsFlow`), from
an outbox that has the events. A message that a reporting handler has taken is still in transit, as
a restart brings it back; for notification an event is applied when its deliveries are written.

In `Delivery` a worker claims a row (SKIP LOCKED), hands the message to the provider, and saves
the outcome on the copy it claimed. `doubted` is history: the provider took the message but its
answer, or the worker's save, was lost. A save that fails runs into the same handler as a failed
send and counts a second attempt. That happens to the save of a delivery and to the save, inside
the same `try`, that there was no address (`LoseFail`). Either may have been committed with its
answer lost; the second save then writes its older copy over whatever the row is by then, which
another worker may have claimed, or delivered. `repeated` is history: where a failure was counted
so. A worker that stops leaves the row SENDING; nothing in the code
claims it again (`Abandoned`).

### Question bank

`Assessment` has an upload put its two documents at once and record them in a transaction
afterwards. `put` is how the storing of each stands, `object` what the storage holds, which
differs if an answer was lost. `Promise.all` fails with the first document while the other one may
still be stored, and the catch block deletes the keys it has noted by then (`UploadedKeys`), which
are none; after a refused transaction it deletes both. Publication locks the paper and asks for
the projected declaration; retirement reads the paper without a lock, then decides on the locked
row.

## Runs

Each run asks one model its questions; a property has a mutant in `PROJECT.json` that it finds.

| Run | Instance | Shows |
|---|---|---|
| `registration` | 3 applications (one may be of the older format), 3 identities, 2 keys, 1 examination of 1 or 2 seats, 2 profile snapshots, 2 numbers a year, 2 years, DCRC on, 1 verification waiting | seats within capacity, waitlist and status agree, FIFO promotion, submission answered once, the number column and the slots agree, the pool implements `NumberRegister` |
| `registration_payment` | 2 applications, 3 calls, 1 number | a recorded payment was confirmed by BIRMS or staff; the owner of a number shows it |
| `eligibility` | 1 candidate verified and absent, 2 replicas, 2 workers, 1 attempt, 2 copies | no event is lost, none is applied twice |
| `eligibility_liveness` | 1 candidate verified, its notice sent again, 1 replica, 1 worker, 2 attempts, 1 copy | every event is settled |
| `scores` | 2 candidates, 1 head, 2 appeals under 2 keys, 4 rules, 2 days | approved rules are disjoint, versions are a history, released scores are current, an appeal revises once, a declaration lacks no more candidates than were marked absent after their release |
| `appeal` | 1 result, 2 appeals, 2 calls | certificates are numbered, one appeal at a time, revisions were paid for and approved, completed revisions are applied, only late certificates are stale |
| `appeal_payment` | 1 appeal, 2 calls | no appeal is released unpaid and unwaived; a fee that is paid for good releases it |
| `assessment` | 2 uploads, 1 examination, 2 skills | storage agrees with the rows; a sample is published after the declaration, and for good |
| `browser` | 1 user, 2 tabs, 2 requests in flight, 2 sessions, 3 tokens | a token is exchanged once, revoked is revoked, the cookie is current, a logout sticks |
| `ndi` | 2 logins, 2 calls, 2 webhooks | a proof opens one session, a refused one none, the session reaches the tab, the panel settles |
| `staff` | 2 users, 1 singleton role, 1 overlapping call, 2 services, 1 job and worker | accounts are kept through a handover, moved jobs stay, leftovers were assigned late |
| `messaging` | 3 events of one resource, one of them published twice; or 1 event with a delivery, published twice; 2 handlers, 1 restart, 2 workers, 3 attempts | nothing is sent twice without doubt, the newest event stands, deliveries and events settle |

Bounds. In `registration` three applicants for one seat give a queue of two, which is what order
needs, and for two seats a full window with somebody waiting. The row of the older format may be
there from the start: it holds a seat, and gets its number at its verification or keeps its old one;
without it the examination starts at its creation. Two numbers a year and three applications exhaust
a year, reuse a released number before the next fresh one and cross the year's end with a number
free in the old year. Two profile snapshots are the one DCRC was asked about and another; a second
waiting verification would find the row VERIFIED and be refused. In `registration_payment` three
calls are the fewest in which a stale copy crosses two others; in `appeal_payment` the longest harm
is one stale save over one other call, so two. Two copies of an event are a duplicate; two workers
are two handlers that overlap; two replicas publish the same events and save over each other. One
attempt is enough to fail beside them: a replica that loaded the event earlier, or that stops before
it saves, publishes it again. The liveness run has two attempts, a retry and the end of the
attempts, and one worker and one copy, because a redelivery by `LoseDelivery` is a duplicate too,
and overlapping handlers only matter to safety. In `scores` two of the four rules overlap and one
has a gap in its standards; two appeals under two keys are a retry, a second key for the same
appeal, and a revision of a revision. In `appeal` two calls are two submissions, two attempts at one
revision, two issues, or an issue beside a revision; with three calls (2.2 million states) the same
properties hold. In `browser` two requests are two tabs that refresh at once, or a refresh beside a
logout or a login; two sessions are the one before and the one after a login, three tokens one
exchange in either. In `ndi` two webhooks are the repeated verdict, and the second login is the one
a dismissed panel starts next. In `staff` reporting, which differs, and one other service stand for
the five; one call beside the handover is enough to write back a row it has changed. In `messaging`
three events are the fewest of which an older one can overwrite a newer one: the row has to exist
when two handlers read it. The event with a delivery comes alone, as reporting and the deliveries
share nothing but events (`MCPublications`): what they do apart interleaves freely in the code and
in the theorems, and together it would only multiply the states. Three attempts are a failed one, a
counted-twice one and the last; one restart redelivers what was in hand. In `assessment` two uploads
are the smallest number that compete for one slot.

Calls, tabs, appeals, applications, papers and keys are interchangeable where the symmetry sets
say so; runs with a liveness property use no symmetry.

Deadlock is not checked: an examination may be archived, calls are used up, events are all
settled, and then nothing more happens, as in the system.

Fairness is assumed of what the code's own scheduling does again and again. `eligibility_liveness`:
see *Outbox and eligibility*. `ndi`: the poll's timer fires while the panel is open, handlers end,
answers arrive or are given up (the HTTP client has a timeout), and time passes; nothing of the
person, of Bhutan NDI or of its webhooks. `messaging`: a handler takes what waits and its
transaction ends; the workers poll every two seconds, and a send ends one way or another, a stop of
the worker included; and, of the world and not of the code, reporting finds the broker again after a
restart, as its consumer connects only once. `appeal_payment`: a call to BIRMS ends by its timeout
of 15 seconds; the payer with an advice keeps pressing "Check Status" (`AppealList.jsx`), and
BIRMS's answer and the confirmation do not fail every time (strong fairness: either may fail again
and again, but not for ever). The premise of `PaidFeesAreReleased` is that BIRMS has the fee as paid
from some point on. The other models say only what must not happen: their services act when somebody
calls.

The type invariants are theorems, but for a part of `ScoresTypeOK` (see *Proofs*), and no run's
property.

### Divergences and observations

What the code does and the repository says otherwise. None of these is a run: each is left open in
its model, and the property beside it says what remains.

* `verify` (`registration.service.ts:327`) asks DCRC about the profile it read before its
  transaction, and the transaction checks only that the application is UNDER_REVIEW. A return, a
  resubmission with another profile and a new review fit into DCRC's answer time. The application is
  then VERIFIED with a profile DCRC never saw and the lookup id of the old one. `dtos.ts:130-133`
  says "a profile can never be rewritten after verification has accepted it". In the model:
  `LookUpProfile(a)`, `ReturnForCorrection(a)`, `Resubmit(a)`, `StartReview(a)`, `Verify(a)`.
* `cancel` (`birms-payment.service.ts:104`) saves the whole application it read before it asked
  BIRMS. An absence marked in between is undone on the row: the status is VERIFIED again and the
  released number is back, while its slot is free. `docs/dsts-numbering.md:7` promises the release
  "atomically with attendance". As the column is unique, the next allocation of that number fails.
  `OwnedNumberIsShown` is what still holds.
* `resendVerificationNotification` reads the application without a lock and records
  ApplicationVerified later. If the absence commits in between, its event comes first, and the
  consumer, which sets ELIGIBLE on every ApplicationVerified it has not processed
  (`event-consumer.service.ts:58`), makes the absent candidate eligible again.
* `declareResults` (`result.service.ts:146`) compares how many sheets are released with how many
  candidates are eligible. A sheet of a candidate marked absent after its release makes up for an
  eligible one without a score. `result.service.spec.ts:400` says it "blocks declaration if any
  eligible candidate has no submitted score". `DeclarationCountsAbsences` says how far it does.
* `issueOne` (`certificate.service.ts:401`) asks whether this version has a certificate, not
  whether the score has a newer version. Issued after a revision, from a message handled late or
  an older list of results, the certificate of the version that was appealed is active, whereas
  the notification (migration 0005:16) says "Any older certificate is no longer valid".
  `OnlyLateCertificatesAreStale` shows that there is no other way.
* `assertSingletonRoles` (`admin.service.ts:260`): a role "may be held by at most one active user
  at a time". `setStatus` activates an account without asking, and two `setRoles` that overlap
  both find the role free.
* `upload` (`assessment.service.ts:61-63`): a failure "must not leave orphaned ciphertext". When
  one document fails, no key has been noted yet and the other document stays, or is stored later.
  A commit whose answer is lost deletes the documents of a paper that is READY.

* `event-consumer.service.ts:66-67` of reporting: "an older event must not overwrite a projection a
  newer one already produced". The projection is read without a lock (line 65) and saved later
  (line 70), and up to fifty messages are handled at once. With a row stored, two handlers read it, the
  newer event commits, and then the older one, newer than what it read, overwrites it: the report
  lags behind until a still newer event is projected. The run reaches this (`Overtakes`);
  `NewestEventStands` shows that there is no other way for a projection to be older than an event
  processed for its resource.
* `delivery-dispatch.service.ts:20-21` promises "running more than one notification-service instance
  without double-sending a message", and lines 13-17 that a delivery ends "after this many attempts". A
  save whose commit went through but whose answer was lost is caught like a provider's error (line
  66) and saved again from the copy: a DELIVERED row is to be sent again, and so is one that another
  replica is sending, or has sent, since the save of line 55. In that case the provider may be given it
  more than MAX_ATTEMPTS times. `SentTwiceOnlyInDoubt` names these cases (`doubted`, `repeated`).

Seen on the way, with nothing in the repository that says otherwise:

* Appeal payments. An advice that overlaps a waiver undoes WAIVED and leaves the payer a bill for a
  released appeal. A PENDING answer saved after PAID leaves a released appeal with an INITIATED
  payment for ever, as confirmation then refuses. A payment that FAILED at BIRMS and then succeeds
  is never confirmed. A PAID answer without a receipt, then one with it, is refused as another
  transaction, and the receipt is never stored. A second advice that BIRMS answers as PAID leaves
  the appeal SUBMITTED with a PAID payment. A cancelled advice is given out again for ever.
* Registration payments. A callback or refresh without a receipt number keeps the one it read, so
  it may write an older one over a newer one; a PENDING answer that comes after PAID records a
  reversal.
* Sessions. `refresh` does not ask whether the user is still active, and `setStatus` revokes no
  session. If the answer of a refresh is lost, the cookie is spent and the session strands. A
  logout that overlaps a refresh finds no session under its old token and leaves it open.
* A report job of a worker that stopped stays RUNNING and blocks its owner's handover for ever; a
  delivery of a worker that stopped stays SENDING. A save that fails counts an attempt twice.
* Two first events of a resource that reporting handles at once: the later one is dead-lettered.
  A ScoreSubmitted handled after ResultsDeclared leaves that result unpublished in the report.
* Services assign responsibilities without asking whether the account is frozen or archived, and a
  frozen user can create report jobs with an access token that is still valid.
* An event that is published before a consumer has first run is confirmed, noted as published, and
  reaches no queue: that consumer never sees it.
* A replica that found no broker at its start never publishes.

## Proofs

Every safety invariant and every action property that a run checks is a theorem, and so are the
refinements: of `NumberRegister`, of `VersionLog` and `FeeDesk` by two modules each, and of
`EventFlow` by three consumers. A theorem holds for every
value of the constants that meets the named assumptions of the module (finite sets where something
is counted, bounds that are natural numbers, `None` that is no row). Each component follows one
argument: an invariant that the first state satisfies and every action keeps, which implies what is
stated. It is called `IInv`, or `FeeInv`, `BankInv` and `ScoresInv` where two components, which
share nothing, have one module of proofs between them; that is also why `AppealPayment`,
`Assessment` and `Scores` have their own names for what is `Init`, `Next` and `Spec` elsewhere.

* `RegistrationProofs`. `NumbersInv` is `TypeOK`, `NumbersMatchSlots`, and that a number the counter
  has not reached is held by nobody (`FreshNumbersUnheld`), which is what makes a fresh number
  fresh. With the refinement mapping holder <- slot every step of `Registration` is a step of
  `NumberRegister` or a stutter (`RegisterImplemented`). `RowsInv` is `TypeOK` and what every row
  satisfies: waitlist and status agree, one application per identity, columns of a row not
  submitted yet are blank, its examination exists, and a reviewed application is not cancelled.
  `SeatsNeverOversold` adds, action by action, what happens to the set of seated applications: it
  gains one while the window has a free seat, swaps one for another, or shrinks. `WaitlistIsFifo`
  adds `KeysFollowArrival`: entries have distinct position keys, none above the number of entries.
  `OnePerIdentity`, `ReviewedNeverCancelled` and `NumberKept` (a number leaves its application only
  by that application's absence) are proved though no run states them.
* `RegistrationPaymentProofs`. Each row is in order (a PAID or WAIVED status was made so, the owner
  of a slot shows it), and so is each call: the copy it will save is one the row could have been,
  or its answer one BIRMS has given. Both histories only grow, which keeps a stale copy harmless.
* `EligibilityProofs`. Types, the copies a replica has yet to save, the message in each handler, and
  `NoEventLost` itself. `Held` is what only grows: with the broker, processed, dead-lettered, or
  dropped for want of a queue (`Routes`, `MovesOn`). `Counted` ties the copies of an event to where
  they are. The refinement (`EligibilityFlows`) needs no more than that: an entity in a replica's
  batch is of an event that is recorded, so a publish is a `Send`; the copy that a worker holds is
  one of those in the queue, so what it does is a `Consume`; and a message that is acknowledged was
  processed (`HandlerInOrder`).
* `AppealProofs`. The certificates of a candidate are numbered without a gap; each appeal, each
  entry of the version history and each call in flight is in order; one appeal is active for a
  result; submissions in flight are of different appeals. `CallInOrder` says that a call about to
  complete an appeal has found its revision in the result. That a repeated call adds nothing to
  the log (`RevisionsAreLogged`) rests on it too: a revision is in the sheet its appeal is about, so
  the call that looks there would find it. The fee desk (`FeesAreTakenAtTheDesk`) needs that nothing is
  settled before there is an appeal (`NothingIsPrepaid`); no action takes an appeal back to
  SUBMITTED (`RowsStayReleased`).
* `BrowserAndFeeProofs`, about `Browser`. `RowsAreRead`: what a handler has read of a session was
  true once. `RowsAreCurrent`: an unrevoked session holds the last token that was issued for it, and
  no token but that one can still be exchanged. `AsksAreOfAUser`: a login names a user, a refresh
  remembers who was stored. `TheCookieIsCurrent` needs more, `CInv`, as its own statement speaks
  only of moments when nothing is in flight: a token that an answer brings is its session's current
  one and nobody else has it (`AnswerIsNew`), hence no handler can exchange it before the browser
  has it; and while no answer was lost, a cookie that is not current has such an answer under way
  (`CookieFollows`).
* `BrowserAndFeeProofs`, about `AppealPayment`. `FeeInv` carries `AppealFeesAreSettled` along with
  what could break it later: an advice that BIRMS has as paid, an answer that says so and a copy
  with a receipt, in any call at any phase, are of a fee that was paid (`AdvicesAreBacked`,
  `CallIsBacked`). `everPaid` and `waived` only grow, so it does not matter how old a copy is when it
  is saved. The desk (`TheDeskIsImplemented`) calls a fee settled when it was ever paid or waived, not
  when the row says so, which a stale copy may take back; a call can only be of an appeal that was
  opened (`CallsAreOfOpened`), and BIRMS has an advice only of such (`NothingIsEarly`).
* `NdiProofs`. `Named`: calls and webhooks are about rows that exist. `Proved`: only a validated
  verdict leads to a claim. `Asked`: a panel with a poll in flight has no second one and
  waits for no login that has been answered. `OpenedSessionsReachTheTab` adds `Arriving`: unless an
  answer was lost, an opened session is the tab's or an answer that brings it is in a call; only the
  arrival of that answer, or its loss, takes it away, whatever the panel shows by then
  (`AnswersWait`).
* `StaffAndContentProofs`, about `StaffHandover`. `Orderly`: handover, attempt and archive agree.
  `Reserved`: users and successors of pending handovers are frozen, or stale. `JobsInOrder`: a job
  that was moved is not in the hands of a worker that knows its former owner. `Looked`: behind the
  look of an attempt, what a user still holds came late.
* `StaffAndContentProofs`, about `Assessment`. `BankInv` follows each upload through its stages:
  while it prepares, a document that counts as stored is in the storage; when it cleans up, both
  were put, and what is left to delete is all that is there unless something lapsed
  (`UploadIsKept`); a recorded paper had both put and keeps them unless the answer to its commit was
  lost (`PaperIsKept`). A sample's declaration was projected, and only what was declared is.
* `ScoresAndMessagingProofs`, about `Messaging`. `Projected`: what a handler has read was projected.
  `Dispatched`: how often the provider took a delivery is bounded by the attempts counted for it,
  and it is above one only in doubt; a delivery whose failure was counted unnoticed (`repeated`) is
  exempt, as two workers can hold it then. `Newest`: a projection that was not overtaken shows the
  newest processed event. `ProviderIsSpared` is a theorem only: with the doubled counting it needs
  the two counts together. `ReportingFlows` and `NotificationFlows` are the refinements of
  `EventFlow`. At a restart the copies that come back are as many as the handlers that had the
  event, so the event stays in transit; a handler that lets go of an event has processed or
  dead-lettered it (`HandlersLetGo`).
* `ScoresAndMessagingProofs`, about `Scores`. `ScoresInv` says of every sheet how its row and its
  versions belong together: they are finitely many, as many as the row says, numbered without a gap
  (`Numbered`); each differs from the one before and all have one rule (`Chained`); the row shows the
  version it names and is a draft exactly while there is none (`SheetIsCurrent`). Submission and
  revision both append one version (`StepVersion`). Across sheets, two versions of one appeal are the
  same, and an answer in an appeal's scope names it (`AppealsReviseOnce`). `OnlyAbsencesHideScores`
  counts: as many released sheets as eligible candidates, and an eligible one without a sheet, leave
  a released sheet of one who is not eligible; having a sheet, that one was eligible once
  (`SheetsAreOfCandidates`), so was marked absent. `ScoresAssumption` says what the argument needs of
  the constants: an examination has finitely many applications, a submission's scope
  (`score.submit:user`) is never an appeal's (`score.appeal-revision:appeal`,
  `result.service.ts:102,247`), no appeal's id is the mark of a submitted version, and a revision
  gives numbers. `VersionsAreLogged` reads the log off the tables: entry `n` is what made the one
  version numbered `n` (`Numbered`), so a version that is added is an entry appended (`SourcesGrow`),
  and an appeal without a version is in no log. `RevisionsAreBounded` counts in the other direction:
  each version after the first uses up an appeal, so a sheet has at most one more than there are
  appeals, and the bound on a revision's expected version in `ScoresNext` leaves nothing out.

The refinements of `VersionLog`, `FeeDesk` and `EventFlow` are theorems only. TLC agrees where the
property is added to the configuration (`ImplementsVersionLog` to `Scores.cfg` or `Appeal.cfg`,
`ImplementsFeeDesk` to `Appeal.cfg` or `AppealPayment.cfg`, `ImplementsEventFlow` to
`Eligibility.cfg`, `ReportingImplementsFlow` and `NotificationImplementsFlow` to `Messaging.cfg`); the
runs leave them out because evaluating them at every step costs much of their time and what they
add there is in the theorems.

Not proved. Liveness (`EventsAreSettled`, `DeliveriesSettle`, `EventsAreReported`, `PanelSettles`,
`PaidFeesAreReleased`) is out of the prover's reach and stays with the runs. Of `ScoresTypeOK`,
that an overall score is an integer: it is a sum over a sequence, and what such a fold yields needs
induction over data; TLC agrees where `ScoresTypeOK` is added to `Scores.cfg`. That a handler is
atomic is argued above for each.

## Not modelled

* Who may call what: guards, permissions, assurance levels, the shape and validation of requests.
  The models start where a handler is called with a valid request by somebody who may call it.
* Texts and layout: names and their transliteration, examination codes, the text of a number,
  certificates' rendering, notification templates, exports, the Dzongkha translations and most of
  the frontend, which shows what the services answer. Pure computation or presentation, where a
  unit test sees as much as a model.
* Encryption of documents and certificates, malware scanning, hashing of passwords and tokens: their
  outcome is a success or a failure in the models.
* Settings that administrators save one at a time: master configuration, profile photos, notification
  templates, fee rules, saved reports. The last writer wins, and nothing else reads them meanwhile.
* `deleteUser`, the count of failed logins, the bulk update of a report by ResultsDeclared, the
  append-only history and audit tables: listed with their components in `PROJECT.json`.
* Migrations, deployment and configuration. A constraint a model relies on is named where it does;
  more than one replica of a service is what the concurrency of the models stands for.

## Plan

What is left:

* Fee rules, approval and period, next to `ScoringRules`, which they resemble; templates and their
  approval in `Messaging`; the count of failed logins in `Accounts`.
