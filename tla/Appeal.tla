-------------------------------- MODULE Appeal --------------------------------
(***************************************************************************)
(* Appeals against a released result                                       *)
(* (appeal-certificate-service/src/appeal.service.ts), from submission and *)
(* fee through committee and Chief to the revision of the score, which     *)
(* three transactions of two services carry out: the result service adds a *)
(* version, older certificates are superseded, the appeal is completed.    *)
(*                                                                         *)
(* Submission, payment, review and decision each run in one SERIALIZABLE   *)
(* transaction; submission reads the result from the result service before *)
(* it.                                                                     *)
(***************************************************************************)
EXTENDS Certificate

VARIABLES
    appeal,         \* appeals, with the committee's recommendation and the decision
    payment,        \* what the fee of each appeal was settled by (see AppealPayment)
    waiveFees       \* appeal_fee_settings.waiveFees

appealVars == <<appeal, payment, waiveFees>>
vars == <<certificateVars, work, appealVars>>

None == [appeal |-> "none"]
Statuses == {"SUBMITTED", "PENDING_COMMITTEE", "PENDING_CHIEF_APPROVAL",
             "APPROVED_PENDING_SCORE_UPDATE", "COMPLETED"}

\* changes: a skill the Chief approved has another score than the one appealed against.
AppealRow == [sheet : Sheets, version : Nat, status : Statuses, changes : BOOLEAN,
              recommendation : {"NONE", "NO_CHANGE", "REVISE"},
              decision : {"NONE", "APPROVED", "REJECTED"}]

\* The version a submission or a revision is about, and then the one it has made.
AppealWork == [step : {"submit", "revise", "supersede", "complete"}, appeal : Appeals,
               sheet : Sheets, version : Nat]

TypeOK ==
    /\ CertificatesTypeOK
    /\ appeal \in [Appeals -> AppealRow \cup {None}]
    /\ payment \in [Appeals -> {"NONE", "INITIATED", "PAID", "WAIVED"}]
    /\ waiveFees \in BOOLEAN
    /\ work \in [Calls -> IssueWork \cup AppealWork \cup {Idle}]

Init ==
    /\ CertificatesInit
    /\ appeal = [p \in Appeals |-> None]
    /\ payment = [p \in Appeals |-> "NONE"]
    /\ waiveFees \in BOOLEAN

Status(p, status) == appeal[p] # None /\ appeal[p].status = status
ActiveOn(s) == {p \in Appeals : appeal[p] # None /\ appeal[p].sheet = s
                                /\ appeal[p].status # "COMPLETED"}

-----------------------------------------------------------------------------
(* Submission and fee.                                                     *)

\* submit reads the current version from the result service ...
BeginSubmit(k, p, s) ==
    /\ work[k] = Idle
    /\ appeal[p] = None /\ \A j \in Calls : At(j, "submit") => work[j].appeal # p
    /\ work' = [work EXCEPT ![k] = [step |-> "submit", appeal |-> p, sheet |-> s,
                                    version |-> Current(s)]]
    /\ UNCHANGED <<certificateVars, appealVars>>

\* Mutated form of MaySubmit: the application's other appeals are not looked at.
MaySubmitAgain(s) == TRUE

MaySubmit(s) == ActiveOn(s) = {}

\* ... and opens the appeal on it.  Without a fee it goes to the committee at once.
Submit(k) ==
    /\ At(k, "submit")
    /\ MaySubmit(work[k].sheet)
    /\ appeal' = [appeal EXCEPT ![work[k].appeal] =
          [sheet |-> work[k].sheet, version |-> work[k].version,
           status |-> IF waiveFees THEN "PENDING_COMMITTEE" ELSE "SUBMITTED",
           changes |-> FALSE, recommendation |-> "NONE", decision |-> "NONE"]]
    /\ payment' = [payment EXCEPT ![work[k].appeal] = IF waiveFees THEN "WAIVED" ELSE "INITIATED"]
    /\ work' = [work EXCEPT ![k] = Idle]
    /\ UNCHANGED <<certificateVars, waiveFees>>

Released(row) == [row EXCEPT !.status = "PENDING_COMMITTEE"]

\* The appeals P are released in the transaction that changes their payments.
Release(P, status) ==
    /\ appeal' = [p \in Appeals |-> IF p \in P THEN Released(appeal[p]) ELSE appeal[p]]
    /\ payment' = [p \in Appeals |-> IF p \in P THEN status ELSE payment[p]]

ConfirmPayment(p) ==
    /\ Status(p, "SUBMITTED") /\ payment[p] = "INITIATED"
    /\ Release({p}, "PAID")
    /\ UNCHANGED <<certificateVars, waiveFees, work>>

\* A waiver releases the appeals that still await their payment, but for those with an
\* advice of BIRMS or of another gateway: P, as the gateways are AppealPayment's.
SetFeeWaiver(waive) ==
    /\ waiveFees' = waive
    /\ \E P \in SUBSET {p \in Appeals : Status(p, "SUBMITTED") /\ payment[p] = "INITIATED"} :
          /\ waive \/ P = {}
          /\ Release(P, "WAIVED")
    /\ UNCHANGED <<certificateVars, work>>

-----------------------------------------------------------------------------
(* Committee and Chief.                                                    *)

CommitteeReview(p, recommendation) ==
    /\ Status(p, "PENDING_COMMITTEE")
    /\ appeal' = [appeal EXCEPT ![p].status = "PENDING_CHIEF_APPROVAL",
                                ![p].recommendation = recommendation]
    /\ UNCHANGED <<certificateVars, payment, waiveFees, work>>

\* Mutated form of StatusOnceDecided: an approved revision is taken for an approved
\* recommendation of no change.
StatusOnceApproved(p, decision) == "COMPLETED"

StatusOnceDecided(p, decision) ==
    IF decision = "APPROVED" /\ appeal[p].recommendation = "REVISE"
    THEN "APPROVED_PENDING_SCORE_UPDATE" ELSE "COMPLETED"

\* A recommendation to revise changes a skill, but the Chief may approve only others.
Decide(p, decision, changes) ==
    /\ Status(p, "PENDING_CHIEF_APPROVAL")
    /\ changes => decision = "APPROVED" /\ appeal[p].recommendation = "REVISE"
    /\ appeal' = [appeal EXCEPT
          ![p].decision = decision, ![p].changes = changes,
          ![p].status = StatusOnceDecided(p, decision)]
    /\ UNCHANGED <<certificateVars, payment, waiveFees, work>>

-----------------------------------------------------------------------------
(* applyApprovedRevision: by decide once its transaction is over, and      *)
(* again by hand.                                                          *)

ReadyForRevision(p) ==
    Status(p, "APPROVED_PENDING_SCORE_UPDATE") /\ appeal[p].decision = "APPROVED"

BeginRevision(k, p) ==
    /\ work[k] = Idle
    /\ ReadyForRevision(p)
    /\ work' = [work EXCEPT ![k] = [step |-> "revise", appeal |-> p, sheet |-> appeal[p].sheet,
                                    version |-> appeal[p].version]]
    /\ UNCHANGED <<certificateVars, appealVars>>

\* Mutated form of Applicable: the version the appeal was opened on is not compared.
ApplicableAnyVersion(p, version) == TRUE

\* What the result service asks of a new revision (Scores: Revise).
Applicable(p, version) ==
    Current(appeal[p].sheet) = version /\ appeal[p].changes

\* The result service answers with the version the appeal has made, now or before.
ReviseScore(k) ==
    LET p == work[k].appeal
        s == work[k].sheet
    IN  /\ At(k, "revise")
        /\ Contains(revisions[s], p) \/ Applicable(p, work[k].version)
        /\ revisions' = [revisions EXCEPT ![s] = IF Contains(@, p) THEN @ ELSE Append(@, p)]
        /\ \E i \in DOMAIN revisions'[s] :
              /\ revisions'[s][i] = p
              /\ work' = [work EXCEPT ![k].step = "supersede", ![k].version = i + 1]
        /\ UNCHANGED <<certificates, appealVars>>

\* Mutated form of SupersedeCertificates: compared with the version that was appealed.
SupersedeBeforeAppealed(k) ==
    /\ At(k, "supersede")
    /\ certificates' = Superseded(work[k].sheet, appeal[work[k].appeal].version)
    /\ work' = [work EXCEPT ![k].step = "complete"]
    /\ UNCHANGED <<revisions, appealVars>>

SupersedeCertificates(k) ==
    /\ At(k, "supersede")
    /\ certificates' = Superseded(work[k].sheet, work[k].version)
    /\ work' = [work EXCEPT ![k].step = "complete"]
    /\ UNCHANGED <<revisions, appealVars>>

\* Another call may have completed the appeal meanwhile; this one then changes nothing.
Complete(k) ==
    LET p == work[k].appeal IN
    /\ At(k, "complete")
    /\ ReadyForRevision(p) \/ Status(p, "COMPLETED")
    /\ appeal' = [appeal EXCEPT ![p].status = "COMPLETED"]
    /\ work' = [work EXCEPT ![k] = Idle]
    /\ UNCHANGED <<certificateVars, payment, waiveFees>>

\* A service, the renderer, the storage or a unique key refuses, or the process stops: the
\* call ends where it is.
CallFails(k) ==
    /\ work[k] # Idle
    /\ work' = [work EXCEPT ![k] = Idle]
    /\ UNCHANGED <<certificateVars, appealVars>>

-----------------------------------------------------------------------------
AppealStep ==
    \/ \E k \in Calls, p \in Appeals, s \in Sheets : BeginSubmit(k, p, s)
    \/ \E waive \in BOOLEAN : SetFeeWaiver(waive)
    \/ \E p \in Appeals :
          \/ ConfirmPayment(p)
          \/ \E recommendation \in {"NO_CHANGE", "REVISE"} : CommitteeReview(p, recommendation)
          \/ \E decision \in {"APPROVED", "REJECTED"}, changes \in BOOLEAN :
                Decide(p, decision, changes)
          \/ \E k \in Calls : BeginRevision(k, p)
    \/ \E k \in Calls :
          \/ Submit(k)
          \/ ReviseScore(k)
          \/ SupersedeCertificates(k)
          \/ Complete(k)
          \/ CallFails(k)

CertificateStep ==
    \/ \E k \in Calls, s \in Sheets : \E v \in 1 .. Current(s) :
          BeginIssue(k, s, v) /\ UNCHANGED appealVars
    \/ \E k \in Calls : CountPrior(k) /\ UNCHANGED appealVars
    \/ \E k \in Calls : Insert(k) /\ UNCHANGED appealVars
    \/ \E c \in certificates : Revoke(c) /\ UNCHANGED appealVars

Next == AppealStep \/ CertificateStep

Spec == Init /\ [][Next]_vars

-----------------------------------------------------------------------------
(* Properties.                                                             *)

\* However submissions overlap with the completion of earlier appeals, a result has at
\* most one appeal under way.
OneActiveAppeal == \A s \in Sheets : Cardinality(ActiveOn(s)) <= 1

\* A version of the score is made by one appeal, which was paid for or waived, recommended
\* and approved, and which was opened on the version before it.
EachRevisionWasApproved ==
    \A s \in Sheets : \A i \in DOMAIN revisions[s] :
        LET p == revisions[s][i] IN
        /\ appeal[p] # None /\ appeal[p].sheet = s /\ appeal[p].version = i
        /\ appeal[p].decision = "APPROVED" /\ appeal[p].recommendation = "REVISE"
        /\ payment[p] \in {"PAID", "WAIVED"}
        /\ \A j \in DOMAIN revisions[s] : revisions[s][j] = p => j = i

\* Whatever fails between the services, an approved appeal completes only after its
\* revision is in the result.
CompletedRevisionsAreApplied ==
    \A p \in Appeals :
        Status(p, "COMPLETED") /\ appeal[p].decision = "APPROVED"
            /\ appeal[p].recommendation = "REVISE" =>
        Contains(revisions[appeal[p].sheet], p)

\* Once an appeal has revised a score and is completed, only a certificate that was
\* inserted after the revision can be active for an older version.
OnlyLateCertificatesAreStale ==
    \A p \in Appeals : Status(p, "COMPLETED") =>
        \A c \in certificates :
            /\ c.sheet = appeal[p].sheet /\ c.status = "ACTIVE"
            /\ \E i \in DOMAIN revisions[c.sheet] : revisions[c.sheet][i] = p /\ c.version <= i
            => c.late

\* What is taken of the result service behaves as the log of VersionLog, which the result
\* service implements too (Scores): the submitted version, then one of each appeal.
Log == INSTANCE VersionLog WITH
    Original <- "ORIGINAL",
    log <- [s \in Sheets |-> <<"ORIGINAL">> \o revisions[s]]
ImplementsVersionLog == Log!Spec

\* What is taken of the fee behaves as the desk of FeeDesk, which AppealPayment implements
\* with all it does about BIRMS: an appeal goes on with a settled fee, once.
Desk == INSTANCE FeeDesk WITH
    desk <- [p \in Appeals |-> IF appeal[p] = None THEN "NO_ROW"
                               ELSE IF appeal[p].status = "SUBMITTED" THEN "SUBMITTED"
                               ELSE "RELEASED"],
    settled <- {p \in Appeals : payment[p] \in {"PAID", "WAIVED"}}
ImplementsFeeDesk == Desk!Spec
=============================================================================
