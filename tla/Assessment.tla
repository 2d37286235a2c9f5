------------------------------ MODULE Assessment ------------------------------
(***************************************************************************)
(* The question bank (assessment-content-service): a question paper and    *)
(* its answer sheet are put, encrypted, into the object storage and then   *)
(* recorded in one transaction; a recorded paper may be published as a     *)
(* sample once the results of its examination are declared, or be retired. *)
(*                                                                         *)
(* The storage is outside the transaction, so an upload that does not get  *)
(* there deletes again what it has put.  Any of its steps may fail, its    *)
(* answer may be lost, and the process may stop between two of them.       *)
(***************************************************************************)
CONSTANTS
    Papers,             \* bound: the uploads of a behaviour, each of one paper
    Exams, Skills

VARIABLES
    paper,              \* question_papers.status
    about,              \* examination and skill of each upload
    upload,             \* how far each upload has come
    put,                \* how the storing of each of its documents stands
    object,             \* the objects in the storage
    cleaning,           \* the keys the upload has still to delete
    retiring,           \* the calls to retire that have read their paper
    declared,           \* the examinations the result service has declared
    projected,          \* result_declaration_projections
    lapses              \* history: what went wrong with each upload

paperVars == <<paper, retiring, declared, projected>>
uploadVars == <<about, upload, put, object, cleaning, lapses>>
bankVars == <<paperVars, uploadVars>>

Documents == {"QUESTION_PAPER", "ANSWER_SHEET"}
Slots == Exams \X Skills

BankTypeOK ==
    /\ paper \in [Papers -> {"NO_ROW", "READY", "SAMPLE_PUBLISHED", "RETIRED"}]
    /\ about \in [Papers -> Slots]
    /\ upload \in [Papers -> {"none", "preparing", "cleaning", "over"}]
    /\ put \in [Papers -> [Documents -> {"none", "sent", "stored", "failed"}]]
    /\ object \in [Papers -> SUBSET Documents]
    /\ cleaning \in [Papers -> SUBSET Documents]
    /\ retiring \subseteq Papers
    /\ declared \subseteq Exams /\ projected \subseteq Exams
    /\ lapses \in [Papers -> SUBSET {"preparation", "commit", "deletion", "stop"}]

BankInit ==
    /\ paper = [p \in Papers |-> "NO_ROW"]
    /\ about \in [Papers -> Slots]
    /\ upload = [p \in Papers |-> "none"]
    /\ put = [p \in Papers |-> [d \in Documents |-> "none"]]
    /\ object = [p \in Papers |-> {}]
    /\ cleaning = [p \in Papers |-> {}]
    /\ retiring = {} /\ declared = {} /\ projected = {}
    /\ lapses = [p \in Papers |-> {}]

Lapse(p, what) == lapses' = [lapses EXCEPT ![p] = @ \cup {what}]

-----------------------------------------------------------------------------
(* Preparation: both documents are scanned, encrypted and put at once.     *)

BeginUpload(p) ==
    /\ upload[p] = "none"
    /\ upload' = [upload EXCEPT ![p] = "preparing"]
    /\ put' = [put EXCEPT ![p] = [d \in Documents |-> "sent"]]
    /\ UNCHANGED <<paperVars, about, object, cleaning, lapses>>

\* A put is not called back when the other one fails, or when nobody awaits it any more.
PutSucceeds(p, d) ==
    /\ put[p][d] = "sent"
    /\ put' = [put EXCEPT ![p][d] = "stored"]
    /\ object' = [object EXCEPT ![p] = @ \cup {d}]
    /\ UNCHANGED <<paperVars, about, upload, cleaning, lapses>>

\* The scanner or the storage refuses, or the storage's answer is lost.  The first failure
\* ends the upload, which has noted no key by then.
PutFails(p, d) ==
    /\ put[p][d] = "sent"
    /\ put' = [put EXCEPT ![p][d] = "failed"]
    /\ \E landed \in BOOLEAN :
          object' = IF landed THEN [object EXCEPT ![p] = @ \cup {d}] ELSE object
    /\ IF upload[p] = "preparing"
       THEN upload' = [upload EXCEPT ![p] = "over"] /\ Lapse(p, "preparation")
       ELSE UNCHANGED <<upload, lapses>>
    /\ UNCHANGED <<paperVars, about, cleaning>>

-----------------------------------------------------------------------------
(* persistUpload, and the deletion of both documents if it fails.          *)

Prepared(p) == upload[p] = "preparing" /\ \A d \in Documents : put[p][d] = "stored"

\* An examination has one paper of a skill that is not retired: a unique index.
SlotIsFree(p) ==
    \A q \in Papers \ {p} : about[q] = about[p] => paper[q] \in {"NO_ROW", "RETIRED"}

Persist(p) ==
    /\ Prepared(p) /\ SlotIsFree(p)
    /\ paper' = [paper EXCEPT ![p] = "READY"]
    /\ upload' = [upload EXCEPT ![p] = "over"]
    /\ UNCHANGED <<retiring, declared, projected, about, put, object, cleaning, lapses>>

\* Mutated form of UploadedKeys: the keys are noted with the rows.
UploadedKeysOnceSaved(p) == IF paper[p] = "NO_ROW" THEN {} ELSE Documents

UploadedKeys(p) == {d \in Documents : put[p][d] = "stored"}

CleanUp(p) ==
    /\ upload' = [upload EXCEPT ![p] = "cleaning"]
    /\ cleaning' = [cleaning EXCEPT ![p] = UploadedKeys(p)]
    /\ UNCHANGED <<retiring, declared, projected, about, put, object>>

\* The index or the database refuses the rows.
PersistRefused(p) ==
    /\ Prepared(p)
    /\ CleanUp(p)
    /\ UNCHANGED <<paper, lapses>>

\* The rows are committed, but the answer to the commit is lost.
PersistInDoubt(p) ==
    /\ Prepared(p) /\ SlotIsFree(p)
    /\ paper' = [paper EXCEPT ![p] = "READY"]
    /\ Lapse(p, "commit")
    /\ CleanUp(p)

\* A deletion that fails is let be.
Delete(p, d) ==
    /\ upload[p] = "cleaning" /\ d \in cleaning[p]
    /\ cleaning' = [cleaning EXCEPT ![p] = @ \ {d}]
    /\ \/ object' = [object EXCEPT ![p] = @ \ {d}] /\ UNCHANGED lapses
       \/ UNCHANGED object /\ Lapse(p, "deletion")
    /\ UNCHANGED <<paperVars, about, upload, put>>

EndUpload(p) ==
    /\ upload[p] = "cleaning" /\ cleaning[p] = {}
    /\ upload' = [upload EXCEPT ![p] = "over"]
    /\ UNCHANGED <<paperVars, about, put, object, cleaning, lapses>>

ProcessStops(p) ==
    /\ upload[p] \in {"preparing", "cleaning"}
    /\ upload' = [upload EXCEPT ![p] = "over"]
    /\ Lapse(p, "stop")
    /\ UNCHANGED <<paperVars, about, put, object, cleaning>>

-----------------------------------------------------------------------------
(* Publication and retirement.                                             *)

Publish(p) ==
    /\ paper[p] = "READY" /\ about[p][1] \in projected
    /\ paper' = [paper EXCEPT ![p] = "SAMPLE_PUBLISHED"]
    /\ UNCHANGED <<retiring, declared, projected, uploadVars>>

\* retire reads the paper without a lock ...
BeginRetire(p) ==
    /\ paper[p] \in {"READY", "SAMPLE_PUBLISHED"}
    /\ retiring' = retiring \cup {p}
    /\ UNCHANGED <<paper, declared, projected, uploadVars>>

\* Mutated form of MayRetire: the reading without a lock is taken for good.
MayRetireAsRead(p) == TRUE

MayRetire(p) == paper[p] # "SAMPLE_PUBLISHED"

\* ... and decides on the locked row.
Retire(p) ==
    /\ p \in retiring
    /\ paper' = IF MayRetire(p) THEN [paper EXCEPT ![p] = "RETIRED"] ELSE paper
    /\ retiring' = retiring \ {p}
    /\ UNCHANGED <<declared, projected, uploadVars>>

\* The result service declares; its event arrives later, again, or never.
DeclareResults(x) ==
    /\ declared' = declared \cup {x}
    /\ UNCHANGED <<paper, retiring, projected, uploadVars>>

ProjectResultDeclaration(x) ==
    /\ x \in declared
    /\ projected' = projected \cup {x}
    /\ UNCHANGED <<paper, retiring, declared, uploadVars>>

-----------------------------------------------------------------------------
BankNext ==
    \/ \E p \in Papers :
          \/ BeginUpload(p)
          \/ \E d \in Documents : PutSucceeds(p, d) \/ PutFails(p, d) \/ Delete(p, d)
          \/ Persist(p)
          \/ PersistRefused(p)
          \/ PersistInDoubt(p)
          \/ EndUpload(p)
          \/ ProcessStops(p)
          \/ Publish(p)
          \/ BeginRetire(p)
          \/ Retire(p)
    \/ \E x \in Exams :
          \/ DeclareResults(x)
          \/ ProjectResultDeclaration(x)

BankSpec == BankInit /\ [][BankNext]_bankVars

-----------------------------------------------------------------------------
(* Properties.                                                             *)

\* Whichever of an upload's steps fail, in whatever order: a recorded paper has both its
\* documents, unless the answer to its commit was lost; and an upload that was not
\* recorded leaves no document behind once it is over, unless one of the two preparations
\* or a deletion failed or the process stopped.
StorageAgreesWithRows ==
    \A p \in Papers :
        /\ paper[p] # "NO_ROW" /\ "commit" \notin lapses[p] => object[p] = Documents
        /\ paper[p] = "NO_ROW" /\ upload[p] = "over" /\ lapses[p] = {} => object[p] = {}

\* However retirement, publication and declaration overlap, a paper is published only
\* after the results of its examination, and is then published for good.
SamplesAreFinal ==
    [][\A p \in Papers : "SAMPLE_PUBLISHED" \in {paper[p], paper'[p]} =>
          paper'[p] = "SAMPLE_PUBLISHED" /\ about[p][1] \in declared]_bankVars
=============================================================================
