------------------------------ MODULE Certificate ------------------------------
(***************************************************************************)
(* Certificates of released results                                        *)
(* (appeal-certificate-service/src/certificate.service.ts): issued by the  *)
(* ScoreSubmitted event or for a whole examination, revoked, superseded.   *)
(*                                                                         *)
(* A call that issues a certificate looks for one of the same score        *)
(* version, later counts the candidate's certificates, renders and stores  *)
(* a PDF and at last inserts the row.                                      *)
(***************************************************************************)
EXTENDS Integers, Sequences, SequencesExt, FiniteSets

CONSTANTS
    Sheets,         \* score sheets with a released result
    Appeals,        \* appeal ids
    Calls           \* requests and messages that are handled at once

VARIABLES
    revisions,      \* result service: the appeals that revised each sheet, in order
    certificates,   \* certificates
    work            \* of each call, the step it takes next and what it has read

certificateVars == <<revisions, certificates>>

\* The result service's score_sheets.currentVersion.
Current(s) == 1 + Len(revisions[s])

Idle == [idle |-> TRUE]

\* late: the version was no longer current at the insertion, which the row does not say.
CertificateRow == [sheet : Sheets, version : Nat, number : Nat \ {0},
                   status : {"ACTIVE", "SUPERSEDED", "REVOKED"}, late : BOOLEAN]

\* prior: how many certificates the candidate had.
IssueWork == [step : {"count"}, sheet : Sheets, version : Nat]
             \cup [step : {"insert"}, sheet : Sheets, version : Nat, prior : Nat]

At(k, step) == work[k] # Idle /\ work[k].step = step

CertificatesOf(s) == {c \in certificates : c.sheet = s}
Issued(s, v) == \E c \in certificates : c.sheet = s /\ c.version = v

CertificatesTypeOK ==
    /\ revisions \in [Sheets -> Seq(Appeals)]
    /\ certificates \subseteq CertificateRow
    /\ \A c \in certificates : c.version \in 1 .. Current(c.sheet)

CertificatesInit ==
    /\ revisions = [s \in Sheets |-> <<>>]
    /\ certificates = {}
    /\ work = [k \in Calls |-> Idle]

-----------------------------------------------------------------------------
\* The call has version v of the result: from the event of the submission, or from a list
\* of results read when v was current.
BeginIssue(k, s, v) ==
    /\ work[k] = Idle
    /\ v \in 1 .. Current(s)
    /\ ~Issued(s, v)
    /\ work' = [work EXCEPT ![k] = [step |-> "count", sheet |-> s, version |-> v]]
    /\ UNCHANGED certificateVars

\* The certificates of the candidate are counted before the new one is rendered and stored.
CountPrior(k) ==
    /\ At(k, "count")
    /\ work' = [work EXCEPT ![k] = [step |-> "insert", sheet |-> @.sheet, version |-> @.version,
                                    prior |-> Cardinality(CertificatesOf(@.sheet))]]
    /\ UNCHANGED certificateVars

\* The certificates of the sheet for versions before v are no longer valid.
Superseded(s, v) ==
    {IF c.sheet = s /\ c.status = "ACTIVE" /\ c.version < v
     THEN [c EXCEPT !.status = "SUPERSEDED"] ELSE c : c \in certificates}

\* Mutated form of Unique: without the key on (applicationId, versionNumber).
UniqueVersionOnly(s, v, number) == ~Issued(s, v)

\* The unique keys on (scoreSheetId, scoreVersionNumber) and (applicationId, versionNumber).
Unique(s, v, number) ==
    ~Issued(s, v) /\ \A c \in CertificatesOf(s) : c.number # number

Insert(k) ==
    LET s == work[k].sheet
        v == work[k].version
        number == work[k].prior + 1
    IN  /\ At(k, "insert")
        /\ Unique(s, v, number)
        /\ certificates' = Superseded(s, v) \cup
              {[sheet |-> s, version |-> v, number |-> number,
                status |-> "ACTIVE", late |-> v < Current(s)]}
        /\ work' = [work EXCEPT ![k] = Idle]
        /\ UNCHANGED revisions

Revoke(c) ==
    /\ c.status = "ACTIVE"
    /\ certificates' = (certificates \ {c}) \cup {[c EXCEPT !.status = "REVOKED"]}
    /\ UNCHANGED <<revisions, work>>

-----------------------------------------------------------------------------
\* However issuing calls overlap, the certificates of a candidate are numbered from 1
\* without a gap, and each score version has at most one.
CertificatesAreNumbered ==
    \A s \in Sheets :
        LET n == Cardinality(CertificatesOf(s)) IN
        /\ {c.number : c \in CertificatesOf(s)} = 1 .. n
        /\ Cardinality({c.version : c \in CertificatesOf(s)}) = n
=============================================================================
