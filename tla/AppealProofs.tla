---------------------------- MODULE AppealProofs ----------------------------
(***************************************************************************)
(* Theorems about Appeal and Certificate, for any score sheets, appeals    *)
(* and calls in flight.                                                    *)
(***************************************************************************)
EXTENDS Appeal, FiniteSetTheorems, TLAPS

-----------------------------------------------------------------------------
(* The inductive invariant.                                                *)

HasNumber(C, s, m) == \E c \in C : c.sheet = s /\ c.number = m

\* The certificates in C of sheet s have numbers 1 to some n, each of them once, and no
\* two are of one version.
Numbered(C, s) ==
    /\ \A c, d \in C :
          c.sheet = s /\ d.sheet = s /\ (c.number = d.number \/ c.version = d.version) => c = d
    /\ \E n \in Nat : \A m \in Nat : HasNumber(C, s, m) <=> m \in 1 .. n

InOrder(C) ==
    /\ IsFiniteSet(C)
    /\ C \subseteq CertificateRow
    /\ \A s \in Sheets : Numbered(C, s)

\* No certificate in C of sheet s is active for a version before v, but for late ones.
Clean(C, s, v) ==
    \A c \in C : c.sheet = s /\ c.status = "ACTIVE" /\ c.version < v => c.late

\* Appeal p, on sheet s, was approved to revise the score.
Revisable(p, s) ==
    /\ appeal[p] # None
    /\ appeal[p].sheet = s
    /\ appeal[p].status \in {"APPROVED_PENDING_SCORE_UPDATE", "COMPLETED"}
    /\ appeal[p].decision = "APPROVED"
    /\ appeal[p].recommendation = "REVISE"
    /\ payment[p] \in {"PAID", "WAIVED"}

Revised(p, s, i) == i \in 1 .. Len(revisions[s]) /\ revisions[s][i] = p

\* An appeal that has left the desk was paid for, one that awaits its revision was approved,
\* and one that is completed has its revision, and no earlier certificate is left active.
AppealInOrder(p) ==
    appeal[p] # None =>
        /\ appeal[p].status # "SUBMITTED" => payment[p] \in {"PAID", "WAIVED"}
        /\ appeal[p].status = "APPROVED_PENDING_SCORE_UPDATE" =>
              appeal[p].decision = "APPROVED" /\ appeal[p].recommendation = "REVISE"
        /\ appeal[p].status = "COMPLETED" =>
              /\ appeal[p].decision = "APPROVED" /\ appeal[p].recommendation = "REVISE" =>
                    \E i \in Nat : Revised(p, appeal[p].sheet, i)
              /\ \A i \in Nat : Revised(p, appeal[p].sheet, i) =>
                    Clean(certificates, appeal[p].sheet, i + 1)

\* The revisions of a sheet are by approved appeals, each against the version before.
RevisionInOrder(s, i) ==
    \A p \in Appeals : Revised(p, s, i) => Revisable(p, s) /\ appeal[p].version = i

ActiveFor(p, s) == appeal[p] # None /\ appeal[p].sheet = s /\ appeal[p].status # "COMPLETED"

CallInOrder(k) ==
    /\ At(k, "submit") => appeal[work[k].appeal] = None
    /\ At(k, "revise") \/ At(k, "supersede") \/ At(k, "complete") =>
          Revisable(work[k].appeal, work[k].sheet)
    /\ At(k, "revise") => work[k].version = appeal[work[k].appeal].version
    /\ At(k, "supersede") \/ At(k, "complete") =>
          \E i \in Nat : Revised(work[k].appeal, work[k].sheet, i) /\ work[k].version = i + 1
    /\ At(k, "complete") => Clean(certificates, work[k].sheet, work[k].version)
    /\ At(k, "count") \/ At(k, "insert") => work[k].version \in 1 .. Current(work[k].sheet)
    /\ At(k, "insert") => work[k].prior = 0 \/ HasNumber(certificates, work[k].sheet, work[k].prior)

SubmissionsApart ==
    \A j, k \in Calls :
        At(j, "submit") /\ At(k, "submit") /\ work[j].appeal = work[k].appeal => j = k

IInv ==
    /\ TypeOK
    /\ InOrder(certificates)
    /\ \A p \in Appeals : AppealInOrder(p)
    /\ \A s \in Sheets, i \in Nat : RevisionInOrder(s, i)
    /\ \A s \in Sheets, p, q \in Appeals : ActiveFor(p, s) /\ ActiveFor(q, s) => p = q
    /\ \A k \in Calls : CallInOrder(k)
    /\ SubmissionsApart

-----------------------------------------------------------------------------
(* Sets of certificates.                                                   *)

\* D has the certificates of C, some with another status, and none that is active again.
Relabelled(C, D) ==
    /\ IsFiniteSet(D)
    /\ D \subseteq CertificateRow
    /\ \A d \in D : \E c \in C :
          /\ c.sheet = d.sheet /\ c.version = d.version /\ c.number = d.number /\ c.late = d.late
          /\ d.status = "ACTIVE" => c.status = "ACTIVE"
    /\ \A c \in C : \E d \in D : c.sheet = d.sheet /\ c.number = d.number
    /\ \A d, e \in D : d.sheet = e.sheet /\ d.version = e.version => d = e

\* Labels do not disturb the numbers.
LEMMA RelabelledIsInOrder ==
    ASSUME NEW C, NEW D, InOrder(C), Relabelled(C, D)
    PROVE  /\ InOrder(D)
           /\ \A s, m : HasNumber(C, s, m) <=> HasNumber(D, s, m)
           /\ \A s, v : Clean(C, s, v) => Clean(D, s, v)
  <1>1. \A s, m : HasNumber(C, s, m) <=> HasNumber(D, s, m)
    BY DEF Relabelled, HasNumber
  <1>2. \A s, v : Clean(C, s, v) => Clean(D, s, v)
    BY DEF Relabelled, Clean
  <1>3. ASSUME NEW s \in Sheets PROVE Numbered(D, s)
    <2>1. \E n \in Nat : \A m \in Nat : HasNumber(D, s, m) <=> m \in 1 .. n
      BY <1>1 DEF InOrder, Numbered
    <2>2. ASSUME NEW c \in D, NEW d \in D, c.sheet = s, d.sheet = s,
                 c.number = d.number \/ c.version = d.version
          PROVE  c = d
      <3>1. PICK x \in C : x.sheet = s /\ x.version = c.version /\ x.number = c.number
        BY <2>2 DEF Relabelled
      <3>2. PICK y \in C : y.sheet = s /\ y.version = d.version /\ y.number = d.number
        BY <2>2 DEF Relabelled
      <3>3. x = y
        BY <2>2, <3>1, <3>2 DEF InOrder, Numbered
      <3> QED
        BY <2>2, <3>1, <3>2, <3>3 DEF Relabelled
    <2> QED
      BY <2>1, <2>2 DEF Numbered
  <1> QED
    BY <1>1, <1>2, <1>3 DEF InOrder, Relabelled

\* Certificates of one version are one.
LEMMA OneOfAVersion ==
    ASSUME NEW C, InOrder(C), NEW c \in C, NEW d \in C, c.sheet = d.sheet, c.version = d.version
    PROVE  c = d
  BY DEF InOrder, Numbered, CertificateRow

\* A supersession labels certificates.
LEMMA SupersededIsRelabelled ==
    ASSUME InOrder(certificates), NEW s, NEW v
    PROVE  /\ Relabelled(certificates, Superseded(s, v))
           /\ Clean(Superseded(s, v), s, v)
  <1> DEFINE C == certificates
             L(c) == IF c.sheet = s /\ c.status = "ACTIVE" /\ c.version < v
                     THEN [c EXCEPT !.status = "SUPERSEDED"] ELSE c
             D == Superseded(s, v)
  <1>1. D = {L(c) : c \in C}
    BY DEF Superseded
  <1>2. ASSUME NEW c \in C
        PROVE  /\ L(c) \in CertificateRow
               /\ L(c).sheet = c.sheet /\ L(c).version = c.version
               /\ L(c).number = c.number /\ L(c).late = c.late
               /\ L(c).status = "ACTIVE" => c.status = "ACTIVE" /\ ~(c.sheet = s /\ c.version < v)
    <2>1. c \in CertificateRow
      BY DEF InOrder
    <2> QED
      BY <2>1 DEF CertificateRow
  <1>3. IsFiniteSet(D)
    <2> DEFINE f == [c \in C |-> L(c)]
    <2>1. f \in Surjection(C, D)
      BY <1>1 DEF Surjection
    <2> QED
      BY <2>1, FS_Surjection DEF InOrder
  <1> HIDE DEF L, D
  <1>4. \A d \in D : \E c \in C : d = L(c)
    BY <1>1
  <1>5. ASSUME NEW d \in D, NEW e \in D, d.sheet = e.sheet, d.version = e.version PROVE d = e
    <2>1. PICK x \in C : d = L(x)
      BY <1>4
    <2>2. PICK y \in C : e = L(y)
      BY <1>4
    <2>3. x = y
      BY <1>2, <1>5, <2>1, <2>2, OneOfAVersion
    <2> QED
      BY <2>1, <2>2, <2>3
  <1>6. \A c \in C : L(c) \in D
    BY <1>1
  <1>7. Relabelled(C, D)
    BY <1>2, <1>3, <1>4, <1>5, <1>6 DEF Relabelled
  <1>8. Clean(D, s, v)
    BY <1>2, <1>4 DEF Clean
  <1> QED
    BY <1>7, <1>8 DEF D

\* So does a revocation.
LEMMA RevokedIsRelabelled ==
    ASSUME InOrder(certificates), NEW c \in certificates,
           NEW D, D = (certificates \ {c}) \cup {[c EXCEPT !.status = "REVOKED"]}
    PROVE  Relabelled(certificates, D)
  <1> DEFINE r == [c EXCEPT !.status = "REVOKED"]
  <1>1. c \in CertificateRow
    BY DEF InOrder
  <1>2. /\ r \in CertificateRow /\ r.sheet = c.sheet /\ r.version = c.version
        /\ r.number = c.number /\ r.late = c.late /\ r.status = "REVOKED"
    BY <1>1 DEF CertificateRow
  <1> HIDE DEF r
  <1>3. D = (certificates \ {c}) \cup {r}
    BY DEF r
  <1>4. IsFiniteSet(D)
    <2>1. IsFiniteSet(certificates \ {c})
      BY FS_RemoveElement DEF InOrder
    <2> QED
      BY <1>3, <2>1, FS_AddElement
  <1>5. \A d, e \in D : d.sheet = e.sheet /\ d.version = e.version => d = e
    BY <1>2, <1>3, OneOfAVersion
  <1>6. D \subseteq CertificateRow
    BY <1>2, <1>3 DEF InOrder
  <1> QED
    BY <1>2, <1>3, <1>4, <1>5, <1>6 DEF Relabelled

\* A certificate that is numbered one more than some have been counted, and that the unique
\* keys let in, has the next number.
LEMMA InsertedIsInOrder ==
    ASSUME NEW C, InOrder(C), NEW s \in Sheets, NEW r \in CertificateRow, r.sheet = s,
           NEW prior \in Nat, r.number = prior + 1, prior = 0 \/ HasNumber(C, s, prior),
           \A c \in C : c.sheet = s => c.version # r.version /\ c.number # r.number
    PROVE  InOrder(C \cup {r})
  <1> DEFINE D == C \cup {r}
  <1>1. IsFiniteSet(D) /\ D \subseteq CertificateRow
    BY FS_AddElement DEF InOrder
  <1>2. ASSUME NEW t \in Sheets PROVE Numbered(D, t)
    <2>1. \A c, d \in D :
            c.sheet = t /\ d.sheet = t /\ (c.number = d.number \/ c.version = d.version) => c = d
      BY DEF InOrder, Numbered
    <2>2. PICK n \in Nat : \A m \in Nat : HasNumber(C, t, m) <=> m \in 1 .. n
      BY DEF InOrder, Numbered
    <2>3. CASE t # s
      <3>1. \A m : HasNumber(D, t, m) <=> HasNumber(C, t, m)
        BY <2>3 DEF HasNumber
      <3> QED
        BY <2>1, <2>2, <3>1 DEF Numbered
    <2>4. CASE t = s
      <3>1. ~HasNumber(C, s, prior + 1)
        BY DEF HasNumber
      <3>2. prior = n
        BY <2>2, <2>4, <3>1
      <3>3. \A m : HasNumber(D, s, m) <=> HasNumber(C, s, m) \/ m = prior + 1
        BY DEF HasNumber
      <3>4. \A m \in Nat : HasNumber(D, s, m) <=> m \in 1 .. (n + 1)
        BY <2>2, <2>4, <3>2, <3>3
      <3> QED
        BY <2>1, <2>4, <3>4 DEF Numbered
    <2> QED
      BY <2>3, <2>4
  <1> QED
    BY <1>1, <1>2 DEF InOrder

\* Where numbers run from 1 without a gap, counting gives the last one.
LEMMA NumbersCount ==
    ASSUME InOrder(certificates), NEW s \in Sheets
    PROVE  /\ Cardinality(CertificatesOf(s)) \in Nat
           /\ {c.number : c \in CertificatesOf(s)} = 1 .. Cardinality(CertificatesOf(s))
           /\ Cardinality({c.version : c \in CertificatesOf(s)}) = Cardinality(CertificatesOf(s))
  <1> DEFINE S == CertificatesOf(s)
             N == {c.number : c \in S}
             V == {c.version : c \in S}
  <1>1. IsFiniteSet(S) /\ Cardinality(S) \in Nat
    <2>1. S \in SUBSET certificates
      BY DEF CertificatesOf
    <2> QED
      BY <2>1, FS_Subset, FS_CardinalityType DEF InOrder
  <1>2. \A c, d \in S : c.number = d.number \/ c.version = d.version => c = d
    BY DEF InOrder, Numbered, CertificatesOf
  <1>3. Cardinality(N) = Cardinality(S)
    <2> DEFINE f == [c \in S |-> c.number]
    <2>1. f \in Surjection(S, N)
      BY DEF Surjection
    <2>2. f \in Injection(S, N)
      BY <1>2, <2>1 DEF Injection, IsInjective, Surjection
    <2> QED
      BY <1>1, <2>1, <2>2, FS_Surjection
  <1>4. Cardinality(V) = Cardinality(S)
    <2> DEFINE f == [c \in S |-> c.version]
    <2>1. f \in Surjection(S, V)
      BY DEF Surjection
    <2>2. f \in Injection(S, V)
      BY <1>2, <2>1 DEF Injection, IsInjective, Surjection
    <2> QED
      BY <1>1, <2>1, <2>2, FS_Surjection
  <1>5. PICK n \in Nat : \A m \in Nat : HasNumber(certificates, s, m) <=> m \in 1 .. n
    BY DEF InOrder, Numbered
  <1>6. \A c \in S : c.number \in Nat
    BY DEF InOrder, CertificatesOf, CertificateRow
  <1>7. N = 1 .. n
    <2>1. ASSUME NEW c \in S PROVE c.number \in 1 .. n
      BY <1>5, <1>6 DEF HasNumber, CertificatesOf
    <2>2. ASSUME NEW m \in 1 .. n PROVE \E c \in S : c.number = m
      BY <1>5 DEF HasNumber, CertificatesOf
    <2> QED
      BY <2>1, <2>2
  <1>8. Cardinality(1 .. n) = n
    BY FS_Interval
  <1> HIDE DEF N, V, S
  <1>9. /\ Cardinality(S) \in Nat /\ N = 1 .. Cardinality(S)
        /\ Cardinality(V) = Cardinality(S)
    BY <1>1, <1>3, <1>4, <1>7, <1>8
  <1> QED
    BY <1>9 DEF N, V, S

-----------------------------------------------------------------------------
(* What steps never take back.                                             *)

Forward ==
    /\ \A s \in Sheets, p \in Appeals, i \in Nat : Revised(p, s, i) => Revised(p, s, i)'
    /\ \A s \in Sheets : Len(revisions[s]) <= Len(revisions'[s])
    /\ \A p \in Appeals, s \in Sheets :
          Revisable(p, s) => Revisable(p, s)' /\ appeal'[p].version = appeal[p].version
    /\ \A s \in Sheets : \A v \in 1 .. Current(s) :
          Clean(certificates, s, v) => Clean(certificates', s, v)
    /\ \A s \in Sheets, m \in Nat :
          HasNumber(certificates, s, m) => HasNumber(certificates', s, m)

\* A call that the step is not about stays in order, unless the step opens its appeal.
LEMMA CallStays ==
    ASSUME IInv, Forward, NEW k \in Calls, work'[k] = work[k],
           At(k, "submit") => appeal'[work[k].appeal] = None
    PROVE  CallInOrder(k)'
  <1>1. CallInOrder(k) /\ work[k] \in IssueWork \cup AppealWork \cup {Idle}
    BY DEF IInv, TypeOK
  <1>2. \A step : At(k, step)' <=> At(k, step)
    BY DEF At
  <1>3. CASE At(k, "submit")
    BY <1>2, <1>3 DEF At, CallInOrder
  <1>4. CASE At(k, "revise") \/ At(k, "supersede") \/ At(k, "complete")
    <2>1. PICK p \in Appeals, s \in Sheets : p = work[k].appeal /\ s = work[k].sheet
      BY <1>1, <1>4 DEF At, AppealWork, IssueWork
    <2>2. Revisable(p, s) /\ Revisable(p, s)' /\ appeal'[p].version = appeal[p].version
      BY <1>1, <1>4, <2>1 DEF CallInOrder, Forward
    <2>3. ASSUME At(k, "supersede") \/ At(k, "complete")
          PROVE  \E i \in Nat : Revised(p, s, i)' /\ work[k].version = i + 1
      BY <1>1, <2>1, <2>3 DEF CallInOrder, Forward
    <2>4. ASSUME At(k, "complete") PROVE Clean(certificates', s, work[k].version)
      <3>1. work[k].version \in 1 .. Current(s)
        BY <1>1, <2>1, <2>4 DEF CallInOrder, Revised, Current, IInv, TypeOK, CertificatesTypeOK
      <3> QED
        BY <1>1, <2>1, <2>4, <3>1 DEF CallInOrder, Forward
    <2> QED
      BY <1>1, <1>4, <2>1, <2>2, <2>3, <2>4 DEF At, CallInOrder
  <1>5. CASE At(k, "count") \/ At(k, "insert")
    <2>1. PICK s \in Sheets : s = work[k].sheet
      BY <1>1, <1>5 DEF At, AppealWork, IssueWork
    <2>2. work[k].version \in 1 .. Current(s)'
      BY <1>1, <1>5, <2>1
         DEF CallInOrder, Forward, Current, IInv, TypeOK, CertificatesTypeOK
    <2>3. ASSUME At(k, "insert")
          PROVE  work[k].prior = 0 \/ HasNumber(certificates', s, work[k].prior)
      BY <1>1, <2>1, <2>3 DEF CallInOrder, Forward, At, IssueWork, AppealWork
    <2> QED
      BY <1>5, <2>1, <2>2, <2>3 DEF At, CallInOrder
  <1> QED
    BY <1>2, <1>3, <1>4, <1>5 DEF CallInOrder

Works == IssueWork \cup AppealWork \cup {Idle}

\* No step but a submission adds one.
LEMMA NoNewSubmission ==
    ASSUME IInv, \A k \in Calls : work'[k] = work[k] \/ ~At(k, "submit")'
    PROVE  SubmissionsApart'
  BY DEF IInv, SubmissionsApart, At

\* What the conjuncts of the invariant need of a step.
LEMMA StepFrame ==
    ASSUME IInv, Forward, TypeOK', InOrder(certificates'),
           \A p \in Appeals : AppealInOrder(p)',
           \A s \in Sheets, i \in Nat : RevisionInOrder(s, i)',
           \A s \in Sheets, p, q \in Appeals : ActiveFor(p, s)' /\ ActiveFor(q, s)' => p = q,
           SubmissionsApart',
           \A k \in Calls :
              \/ work'[k] = work[k] /\ (At(k, "submit") => appeal'[work[k].appeal] = None)
              \/ CallInOrder(k)'
    PROVE  IInv'
  BY CallStays DEF IInv

\* Steps that leave the appeals and the scores alone.
LEMMA CertificateFrame ==
    ASSUME IInv, UNCHANGED <<revisions, appealVars>>, InOrder(certificates'),
           \A c \in certificates' : c.version \in 1 .. Current(c.sheet),
           \A s \in Sheets : \A v \in 1 .. Current(s) :
              Clean(certificates, s, v) => Clean(certificates', s, v),
           \A s \in Sheets, m \in Nat :
              HasNumber(certificates, s, m) => HasNumber(certificates', s, m),
           work' \in [Calls -> Works], SubmissionsApart',
           \A k \in Calls : work'[k] = work[k] \/ CallInOrder(k)'
    PROVE  IInv'
  <1>1. /\ revisions' = revisions /\ appeal' = appeal
        /\ payment' = payment /\ waiveFees' = waiveFees
    BY DEF appealVars
  <1>2. TypeOK'
    BY <1>1 DEF IInv, TypeOK, CertificatesTypeOK, InOrder, Current, Works
  <1>3. Forward
    BY <1>1 DEF Forward, Revised, Revisable
  <1>4. ASSUME NEW p \in Appeals PROVE AppealInOrder(p)'
    <2>1. appeal[p] # None => appeal[p].sheet \in Sheets
      BY DEF IInv, TypeOK, AppealRow
    <2>2. \A s \in Sheets, i \in Nat : Revised(p, s, i) => i + 1 \in 1 .. Current(s)
      BY DEF Revised, Current, IInv, TypeOK, CertificatesTypeOK
    <2> QED
      BY <1>1, <2>1, <2>2 DEF AppealInOrder, Revised, IInv
  <1>5. \A s \in Sheets, i \in Nat : RevisionInOrder(s, i)'
    BY <1>1 DEF RevisionInOrder, Revised, Revisable, IInv
  <1>6. \A s \in Sheets, p, q \in Appeals : ActiveFor(p, s)' /\ ActiveFor(q, s)' => p = q
    BY <1>1 DEF ActiveFor, IInv
  <1>7. \A k \in Calls : At(k, "submit") => appeal'[work[k].appeal] = None
    BY <1>1 DEF IInv, CallInOrder
  <1> QED
    BY <1>2, <1>3, <1>4, <1>5, <1>6, <1>7, StepFrame

\* Steps of a call that only change how far it has come.
LEMMA WorkFrame ==
    ASSUME IInv, UNCHANGED <<certificateVars, appealVars>>,
           NEW k \in Calls, NEW w \in Works, work' = [work EXCEPT ![k] = w],
           CallInOrder(k)', SubmissionsApart'
    PROVE  IInv'
  <1>1. /\ revisions' = revisions /\ certificates' = certificates
    BY DEF certificateVars
  <1>2. work' \in [Calls -> Works] /\ \A j \in Calls \ {k} : work'[j] = work[j]
    BY DEF IInv, TypeOK, Works
  <1>3. InOrder(certificates')
    BY <1>1 DEF IInv
  <1>4. \A c \in certificates' : c.version \in 1 .. Current(c.sheet)
    BY <1>1 DEF IInv, TypeOK, CertificatesTypeOK
  <1> QED
    BY <1>1, <1>2, <1>3, <1>4, CertificateFrame

\* Steps that leave the certificates and the scores alone.
LEMMA AppealFrame ==
    ASSUME IInv, UNCHANGED certificateVars,
           appeal' \in [Appeals -> AppealRow \cup {None}],
           payment' \in [Appeals -> {"NONE", "INITIATED", "PAID", "WAIVED"}],
           waiveFees' \in BOOLEAN, work' \in [Calls -> Works],
           \A p \in Appeals : AppealInOrder(p)',
           \A p \in Appeals, s \in Sheets :
              Revisable(p, s) => Revisable(p, s)' /\ appeal'[p].version = appeal[p].version,
           \A s \in Sheets, p, q \in Appeals : ActiveFor(p, s)' /\ ActiveFor(q, s)' => p = q,
           SubmissionsApart',
           \A k \in Calls :
              \/ work'[k] = work[k] /\ (At(k, "submit") => appeal'[work[k].appeal] = None)
              \/ work'[k] = Idle
    PROVE  IInv'
  <1>1. /\ revisions' = revisions /\ certificates' = certificates
    BY DEF certificateVars
  <1>2. TypeOK'
    BY <1>1 DEF IInv, TypeOK, CertificatesTypeOK, Current, Works
  <1>3. Forward
    BY <1>1 DEF Forward, Revised
  <1>4. \A s \in Sheets, i \in Nat : RevisionInOrder(s, i)'
    BY <1>1 DEF RevisionInOrder, Revised, IInv
  <1>5. \A k \in Calls : work'[k] = Idle => CallInOrder(k)'
    BY DEF CallInOrder, At
  <1>6. InOrder(certificates')
    BY <1>1 DEF IInv
  <1> QED
    BY <1>2, <1>3, <1>4, <1>5, <1>6, StepFrame

-----------------------------------------------------------------------------
(* The steps.                                                              *)

\* A call at a step is a record of a known kind.
LEMMA WorksAreTyped ==
    ASSUME IInv, NEW k \in Calls
    PROVE  /\ work[k] \in Works /\ CallInOrder(k)
           /\ At(k, "count") => work[k] \in [step : {"count"}, sheet : Sheets, version : Nat]
           /\ At(k, "insert") =>
                 work[k] \in [step : {"insert"}, sheet : Sheets, version : Nat, prior : Nat]
           /\ At(k, "submit") \/ At(k, "revise") \/ At(k, "supersede") \/ At(k, "complete") =>
                 /\ work[k] \in AppealWork
                 /\ work[k].appeal \in Appeals /\ work[k].sheet \in Sheets
                 /\ work[k].version \in Nat
  BY DEF IInv, TypeOK, Works, IssueWork, AppealWork, At

\* So is the row of an appeal.
LEMMA RowsAreTyped ==
    ASSUME IInv, NEW p \in Appeals
    PROVE  /\ appeal[p] \in AppealRow \cup {None} /\ AppealInOrder(p)
           /\ appeal[p] # None => appeal[p] \in AppealRow /\ appeal[p].sheet \in Sheets
  BY DEF IInv, TypeOK, AppealRow

\* No appeal is the absence of one.
LEMMA NoneIsNoRow == None \notin AppealRow
  <1> SUFFICES ASSUME None \in AppealRow PROVE FALSE
    OBVIOUS
  <1>1. DOMAIN None = {"appeal"}
    BY DEF None
  <1>2. DOMAIN None = {"sheet", "version", "status", "changes", "recommendation", "decision"}
    BY DEF AppealRow
  <1> QED
    BY <1>1, <1>2

\* A call ends.
LEMMA FailuresKeep ==
    ASSUME IInv, NEW k \in Calls, CallFails(k)
    PROVE  IInv'
  <1>1. work' = [work EXCEPT ![k] = Idle] /\ work'[k] = Idle
    BY DEF CallFails, IInv, TypeOK
  <1>2. CallInOrder(k)'
    BY <1>1 DEF CallInOrder, At
  <1>3. SubmissionsApart'
    BY <1>1, NoNewSubmission DEF At
  <1> QED
    BY <1>1, <1>2, <1>3, WorkFrame DEF CallFails, Works

\* The version of a submission is the current one, and its appeal is not open yet.
LEMMA SubmissionsBegin ==
    ASSUME IInv, NEW k \in Calls, NEW p \in Appeals, NEW s \in Sheets, BeginSubmit(k, p, s)
    PROVE  IInv'
  <1> DEFINE w == [step |-> "submit", appeal |-> p, sheet |-> s, version |-> Current(s)]
  <1>1. /\ work' = [work EXCEPT ![k] = w]
        /\ revisions' = revisions /\ certificates' = certificates
        /\ appeal' = appeal /\ payment' = payment
    BY DEF BeginSubmit, certificateVars, appealVars
  <1>2. Current(s) \in Nat
    BY DEF Current, IInv, TypeOK, CertificatesTypeOK
  <1>3. w \in Works /\ w.step = "submit" /\ w.appeal = p
    BY <1>2 DEF Works, AppealWork
  <1> HIDE DEF w
  <1>4. work'[k] = w /\ \A j \in Calls \ {k} : work'[j] = work[j]
    BY <1>1 DEF IInv, TypeOK
  <1>5. CallInOrder(k)'
    BY <1>1, <1>3, <1>4 DEF CallInOrder, At, BeginSubmit
  <1>6. SubmissionsApart'
    BY <1>3, <1>4 DEF SubmissionsApart, At, BeginSubmit, IInv
  <1> QED
    BY <1>1, <1>3, <1>5, <1>6, WorkFrame DEF BeginSubmit

\* A revision begins for an approved appeal.
LEMMA RevisionsBegin ==
    ASSUME IInv, NEW k \in Calls, NEW p \in Appeals, BeginRevision(k, p)
    PROVE  IInv'
  <1> DEFINE w == [step |-> "revise", appeal |-> p, sheet |-> appeal[p].sheet,
                   version |-> appeal[p].version]
  <1>1. /\ work' = [work EXCEPT ![k] = w]
        /\ revisions' = revisions /\ certificates' = certificates
        /\ appeal' = appeal /\ payment' = payment
    BY DEF BeginRevision, certificateVars, appealVars
  <1>2. appeal[p] \in AppealRow /\ AppealInOrder(p)
        /\ appeal[p].status = "APPROVED_PENDING_SCORE_UPDATE" /\ appeal[p] # None
    BY RowsAreTyped DEF BeginRevision, ReadyForRevision, Status
  <1>3. Revisable(p, appeal[p].sheet)
    BY <1>2 DEF AppealInOrder, Revisable
  <1>4. /\ w \in Works /\ w.step = "revise" /\ w.appeal = p /\ w.sheet = appeal[p].sheet
        /\ w.version = appeal[p].version
    BY <1>2 DEF Works, AppealWork, AppealRow
  <1> HIDE DEF w
  <1>5. work'[k] = w /\ \A j \in Calls \ {k} : work'[j] = work[j]
    BY <1>1 DEF IInv, TypeOK
  <1>6. CallInOrder(k)'
    BY <1>1, <1>3, <1>4, <1>5 DEF CallInOrder, At, Revisable
  <1>7. SubmissionsApart'
    BY <1>4, <1>5, NoNewSubmission DEF At
  <1> QED
    BY <1>1, <1>4, <1>6, <1>7, WorkFrame DEF BeginRevision

\* A certificate is issued for a version that exists.
LEMMA IssuesBegin ==
    ASSUME IInv, NEW k \in Calls, NEW s \in Sheets, NEW v \in 1 .. Current(s), BeginIssue(k, s, v),
           UNCHANGED appealVars
    PROVE  IInv'
  <1> DEFINE w == [step |-> "count", sheet |-> s, version |-> v]
  <1>1. /\ work' = [work EXCEPT ![k] = w]
        /\ revisions' = revisions /\ certificates' = certificates
        /\ appeal' = appeal /\ payment' = payment
    BY DEF BeginIssue, certificateVars, appealVars
  <1>2. v \in Nat
    BY DEF Current, IInv, TypeOK, CertificatesTypeOK
  <1>3. w \in Works /\ w.step = "count" /\ w.sheet = s /\ w.version = v
    BY <1>2 DEF Works, IssueWork
  <1> HIDE DEF w
  <1>4. work'[k] = w /\ \A j \in Calls \ {k} : work'[j] = work[j]
    BY <1>1 DEF IInv, TypeOK
  <1>5. CallInOrder(k)'
    BY <1>1, <1>3, <1>4 DEF CallInOrder, At, Current
  <1>6. SubmissionsApart'
    BY <1>3, <1>4, NoNewSubmission DEF At
  <1> QED
    BY <1>1, <1>3, <1>5, <1>6, WorkFrame DEF BeginIssue

\* The count is that of the last number.
LEMMA CountsKeep ==
    ASSUME IInv, NEW k \in Calls, CountPrior(k), UNCHANGED appealVars
    PROVE  IInv'
  <1>1. /\ At(k, "count") /\ CallInOrder(k)
        /\ work[k] \in [step : {"count"}, sheet : Sheets, version : Nat]
    BY WorksAreTyped DEF CountPrior
  <1> PICK s \in Sheets : s = work[k].sheet
    BY <1>1
  <1> DEFINE n == Cardinality(CertificatesOf(s))
             w == [step |-> "insert", sheet |-> s, version |-> work[k].version, prior |-> n]
  <1>2. /\ n \in Nat /\ {c.number : c \in CertificatesOf(s)} = 1 .. n
    BY NumbersCount DEF IInv
  <1>3. n = 0 \/ HasNumber(certificates, s, n)
    <2> HIDE DEF n
    <2>1. n # 0 => n \in {c.number : c \in CertificatesOf(s)}
      BY <1>2
    <2> QED
      BY <2>1 DEF HasNumber, CertificatesOf
  <1>4. /\ work' = [work EXCEPT ![k] = w]
        /\ revisions' = revisions /\ certificates' = certificates
        /\ appeal' = appeal /\ payment' = payment
    <2>1. work' = [work EXCEPT ![k] = [step |-> "insert", sheet |-> @.sheet,
    version |-> @.version,
                                       prior |-> Cardinality(CertificatesOf(@.sheet))]]
      BY Zenon DEF CountPrior
    <2>2. work' = [work EXCEPT ![k] = [step |-> "insert", sheet |-> work[k].sheet,
                                       version |-> work[k].version,
                                       prior |-> Cardinality(CertificatesOf(work[k].sheet))]]
      BY <2>1 DEF IInv, TypeOK
    <2> QED
      BY <2>2 DEF CountPrior, certificateVars, appealVars
  <1>5. /\ w \in Works /\ w.step = "insert" /\ w.sheet = s /\ w.version = work[k].version
        /\ w.prior = n
    BY <1>1, <1>2 DEF Works, IssueWork
  <1>6. w.version \in 1 .. Current(s)
    BY <1>1, <1>5 DEF CallInOrder
  <1> HIDE DEF w, n
  <1>7. work'[k] = w /\ \A j \in Calls \ {k} : work'[j] = work[j]
    BY <1>4 DEF IInv, TypeOK
  <1>8. CallInOrder(k)'
    BY <1>3, <1>4, <1>5, <1>6, <1>7 DEF CallInOrder, At, Current
  <1>9. SubmissionsApart'
    BY <1>5, <1>7, NoNewSubmission DEF At
  <1> QED
    BY <1>4, <1>5, <1>8, <1>9, WorkFrame DEF CountPrior

\* Certificates of versions that are not current are inserted as late ones.
LEMMA InsertionsKeep ==
    ASSUME IInv, NEW k \in Calls, Insert(k), UNCHANGED appealVars
    PROVE  IInv'
  <1>1. /\ At(k, "insert") /\ CallInOrder(k)
        /\ work[k] \in [step : {"insert"}, sheet : Sheets, version : Nat, prior : Nat]
    BY WorksAreTyped DEF Insert
  <1> PICK s \in Sheets : s = work[k].sheet
    BY <1>1
  <1> PICK v \in Nat : v = work[k].version
    BY <1>1
  <1> PICK prior \in Nat : prior = work[k].prior
    BY <1>1
  <1> DEFINE D == Superseded(s, v)
             r == [sheet |-> s, version |-> v, number |-> prior + 1,
                   status |-> "ACTIVE", late |-> v < Current(s)]
  <1>2. /\ certificates' = D \cup {r} /\ work' = [work EXCEPT ![k] = Idle]
        /\ revisions' = revisions /\ Unique(s, v, prior + 1)
    BY DEF Insert
  <1>3. /\ Relabelled(certificates, D) /\ InOrder(D)
        /\ \A t, m : HasNumber(certificates, t, m) <=> HasNumber(D, t, m)
        /\ \A t, u : Clean(certificates, t, u) => Clean(D, t, u)
    BY SupersededIsRelabelled, RelabelledIsInOrder DEF IInv
  <1>4. /\ r \in CertificateRow /\ r.sheet = s /\ r.version = v /\ r.number = prior + 1
        /\ r.late = (v < Current(s))
    BY DEF CertificateRow
  <1>5. v \in 1 .. Current(s) /\ (prior = 0 \/ HasNumber(certificates, s, prior))
    BY <1>1 DEF CallInOrder
  <1> HIDE DEF D, r
  <1>6. \A d \in D : d.sheet = s => d.version # v /\ d.number # prior + 1
    BY <1>2, <1>3 DEF Relabelled, Unique, Issued, CertificatesOf
  <1>7. InOrder(certificates')
    BY <1>2, <1>3, <1>4, <1>5, <1>6, InsertedIsInOrder
  <1>8. \A c \in certificates' : c.version \in 1 .. Current(c.sheet)
    BY <1>2, <1>3, <1>4, <1>5 DEF Relabelled, IInv, TypeOK, CertificatesTypeOK
  <1>9. \A t \in Sheets : \A u \in 1 .. Current(t) :
           Clean(certificates, t, u) => Clean(certificates', t, u)
    <2> SUFFICES ASSUME NEW t \in Sheets, NEW u \in 1 .. Current(t), Clean(D, t, u)
                 PROVE  Clean(D \cup {r}, t, u)
      BY <1>2, <1>3
    <2>1. Current(t) \in Nat
      BY DEF Current, IInv, TypeOK, CertificatesTypeOK
    <2>2. t = s /\ v < u => v < Current(s)
      BY <2>1
    <2> QED
      BY <1>4, <2>2 DEF Clean
  <1>10. \A t \in Sheets, m \in Nat :
            HasNumber(certificates, t, m) => HasNumber(certificates', t, m)
    <2>1. \A t, m : HasNumber(D, t, m) => HasNumber(D \cup {r}, t, m)
      BY DEF HasNumber
    <2> QED
      BY <1>2, <1>3, <2>1
  <1>11. /\ work' \in [Calls -> Works] /\ work'[k] = Idle
         /\ \A j \in Calls \ {k} : work'[j] = work[j]
    BY <1>2 DEF IInv, TypeOK, Works
  <1>12. CallInOrder(k)' /\ SubmissionsApart'
    BY <1>11, NoNewSubmission DEF CallInOrder, At
  <1> QED
    BY <1>2, <1>7, <1>8, <1>9, <1>10, <1>11, <1>12, CertificateFrame

\* A revocation labels a certificate.
LEMMA RevocationsKeep ==
    ASSUME IInv, NEW c \in certificates, Revoke(c), UNCHANGED appealVars
    PROVE  IInv'
  <1>1. /\ certificates' = (certificates \ {c}) \cup {[c EXCEPT !.status = "REVOKED"]}
        /\ revisions' = revisions /\ work' = work
    BY DEF Revoke
  <1>2. Relabelled(certificates, certificates')
    BY <1>1, RevokedIsRelabelled DEF IInv
  <1>3. /\ InOrder(certificates')
        /\ \A s, m : HasNumber(certificates, s, m) <=> HasNumber(certificates', s, m)
        /\ \A s, v : Clean(certificates, s, v) => Clean(certificates', s, v)
    BY <1>2, RelabelledIsInOrder DEF IInv
  <1>4. \A d \in certificates' : d.version \in 1 .. Current(d.sheet)
    BY <1>2 DEF Relabelled, IInv, TypeOK, CertificatesTypeOK
  <1>5. work' \in [Calls -> Works] /\ SubmissionsApart'
    BY <1>1, NoNewSubmission DEF IInv, TypeOK, Works
  <1> QED
    BY <1>1, <1>3, <1>4, <1>5, CertificateFrame

\* A revision leaves no active certificate of an older version.
LEMMA SupersessionsKeep ==
    ASSUME IInv, NEW k \in Calls, SupersedeCertificates(k)
    PROVE  IInv'
  <1>1. At(k, "supersede") /\ CallInOrder(k) /\ work[k] \in AppealWork
    BY WorksAreTyped DEF SupersedeCertificates
  <1> PICK s \in Sheets : s = work[k].sheet
    BY <1>1 DEF AppealWork
  <1> PICK v \in Nat : v = work[k].version
    BY <1>1 DEF AppealWork
  <1> DEFINE D == Superseded(s, v)
             w == [work[k] EXCEPT !.step = "complete"]
  <1>2. /\ certificates' = D /\ revisions' = revisions
        /\ appeal' = appeal /\ payment' = payment /\ waiveFees' = waiveFees
    BY DEF SupersedeCertificates, appealVars
  <1>3. work' = [work EXCEPT ![k] = w]
    BY DEF SupersedeCertificates, IInv, TypeOK
  <1>4. /\ w \in AppealWork /\ w.step = "complete" /\ w.sheet = s /\ w.version = v
        /\ w.appeal = work[k].appeal
    BY <1>1 DEF AppealWork
  <1>5. /\ Relabelled(certificates, D) /\ InOrder(D) /\ Clean(D, s, v)
        /\ \A t, m : HasNumber(certificates, t, m) <=> HasNumber(D, t, m)
        /\ \A t, u : Clean(certificates, t, u) => Clean(D, t, u)
    BY SupersededIsRelabelled, RelabelledIsInOrder DEF IInv
  <1> HIDE DEF D, w
  <1>6. \A d \in D : d.version \in 1 .. Current(d.sheet)
    BY <1>5 DEF Relabelled, IInv, TypeOK, CertificatesTypeOK
  <1>7. /\ work' \in [Calls -> Works] /\ work'[k] = w
        /\ \A j \in Calls \ {k} : work'[j] = work[j]
    BY <1>3, <1>4 DEF IInv, TypeOK, Works
  <1>8. PICK p \in Appeals : p = work[k].appeal
    BY <1>1 DEF AppealWork
  <1>9. Revisable(p, s) /\ \E i \in Nat : Revised(p, s, i) /\ v = i + 1
    BY <1>1, <1>8 DEF CallInOrder
  <1>10. CallInOrder(k)'
    BY <1>2, <1>4, <1>5, <1>7, <1>8, <1>9 DEF CallInOrder, At, Revisable, Revised
  <1>11. SubmissionsApart'
    BY <1>4, <1>7, NoNewSubmission DEF At
  <1> QED
    BY <1>2, <1>5, <1>6, <1>7, <1>10, <1>11, CertificateFrame DEF SupersedeCertificates

\* A revision that is added is the first of its appeal, and against the current version.
LEMMA RevisionsKeep ==
    ASSUME IInv, NEW k \in Calls, ReviseScore(k)
    PROVE  IInv'
  <1>1. At(k, "revise") /\ CallInOrder(k) /\ work[k] \in AppealWork
    BY WorksAreTyped DEF ReviseScore
  <1> PICK s \in Sheets : s = work[k].sheet
    BY <1>1 DEF AppealWork
  <1> PICK p \in Appeals : p = work[k].appeal
    BY <1>1 DEF AppealWork
  <1> DEFINE old == revisions[s]
  <1>2. /\ certificates' = certificates /\ appeal' = appeal
        /\ payment' = payment /\ waiveFees' = waiveFees
    BY DEF ReviseScore, appealVars
  <1>3. old \in Seq(Appeals) /\ Len(old) \in Nat
    BY DEF IInv, TypeOK, CertificatesTypeOK
  <1>4. PICK new \in Seq(Appeals) :
          /\ revisions' = [revisions EXCEPT ![s] = new]
          /\ \/ new = old
             \/ /\ new = Append(old, p) /\ Applicable(p, work[k].version)
                /\ ~Contains(old, p)
    <2>1. Append(old, p) \in Seq(Appeals)
      BY <1>3
    <2> QED
      BY <1>3, <2>1 DEF ReviseScore, IInv, TypeOK, CertificatesTypeOK
  <1>5. /\ revisions' \in [Sheets -> Seq(Appeals)] /\ revisions'[s] = new
        /\ \A t \in Sheets \ {s} : revisions'[t] = revisions[t]
    BY <1>4 DEF IInv, TypeOK, CertificatesTypeOK
  <1>6. /\ Revisable(p, s) /\ Revisable(p, s)' /\ work[k].version = appeal[p].version
    BY <1>1, <1>2 DEF CallInOrder, Revisable
  <1>7. /\ Len(old) <= Len(new) /\ Len(new) \in Nat
        /\ \A i \in 1 .. Len(old) : new[i] = old[i]
        /\ \A i \in 1 .. Len(new) : i \in 1 .. Len(old) \/
              (i = Len(old) + 1 /\ new[i] = p /\ Applicable(p, work[k].version)
                /\ ~Contains(old, p))
    BY <1>3, <1>4
  <1>8. PICK i \in Nat : /\ i \in 1 .. Len(new) /\ new[i] = p
                         /\ work' = [work EXCEPT ![k].step = "supersede", ![k].version = i + 1]
    <2>1. PICK i \in DOMAIN revisions'[s] :
            /\ revisions'[s][i] = p
            /\ work' = [work EXCEPT ![k].step = "supersede", ![k].version = i + 1]
      BY Zenon DEF ReviseScore
    <2>2. i \in 1 .. Len(new) /\ i \in Nat /\ new[i] = p
      BY <1>5, <1>7, <2>1
    <2> QED
      BY <2>1, <2>2
  <1> DEFINE w1 == [work[k] EXCEPT !.step = "supersede"]
             w == [w1 EXCEPT !.version = i + 1]
  <1>9. work' = [work EXCEPT ![k] = w]
    <2>1. work' = [work EXCEPT ![k] = [work[k] EXCEPT !.step = "supersede", !.version = i + 1]]
      BY <1>8 DEF IInv, TypeOK
    <2> QED
      BY <1>1, <2>1 DEF AppealWork
  <1>10. /\ w \in AppealWork /\ w.step = "supersede" /\ w.sheet = s /\ w.version = i + 1
         /\ w.appeal = p
    <2>1. w1 \in AppealWork /\ w1.step = "supersede" /\ w1.sheet = s /\ w1.appeal = p
      BY <1>1 DEF AppealWork
    <2> HIDE DEF w1
    <2> QED
      BY <2>1 DEF AppealWork
  <1> HIDE DEF w
  <1>11. /\ work' \in [Calls -> Works] /\ work'[k] = w
         /\ \A j \in Calls \ {k} : work'[j] = work[j]
    BY <1>9, <1>10 DEF IInv, TypeOK, Works
  <1>12. \A q \in Appeals, t \in Sheets, n \in Nat : Revised(q, t, n) => Revised(q, t, n)'
    BY <1>3, <1>5, <1>7 DEF Revised
  <1>13. \A t \in Sheets : Len(revisions[t]) <= Len(revisions'[t])
    <2>1. \A t \in Sheets : Len(revisions[t]) \in Nat
      BY DEF IInv, TypeOK, CertificatesTypeOK
    <2> QED
      BY <1>5, <1>7, <2>1
  <1>14. Forward
    BY <1>2, <1>12, <1>13 DEF Forward, Revisable
  <1>15. TypeOK'
    <2>1. \A c \in certificates : c.version \in 1 .. Current(c.sheet)'
      <3>1. ASSUME NEW c \in certificates PROVE c.version \in 1 .. Current(c.sheet)'
        <4>1. c.sheet \in Sheets /\ c.version \in 1 .. Current(c.sheet)
          BY DEF IInv, TypeOK, CertificatesTypeOK, CertificateRow
        <4>2. Len(revisions[c.sheet]) \in Nat /\ Len(revisions'[c.sheet]) \in Nat
          BY <1>5, <4>1 DEF IInv, TypeOK, CertificatesTypeOK
        <4> QED
          BY <1>13, <4>1, <4>2 DEF Current
      <3> QED
        BY <3>1
    <2> QED
      BY <1>2, <1>5, <1>11, <2>1 DEF IInv, TypeOK, CertificatesTypeOK, Works
  <1>16. ASSUME NEW q \in Appeals, NEW t \in Sheets, NEW n \in Nat, Revised(q, t, n)',
  ~Revised(q, t, n)
         PROVE  /\ q = p /\ t = s /\ n = appeal[p].version
                /\ \A m \in Nat : ~Revised(p, s, m)
    <2>1. t = s /\ n = Len(old) + 1 /\ q = p /\ Applicable(p,
    work[k].version) /\ ~Contains(old, p)
      BY <1>3, <1>5, <1>7, <1>16 DEF Revised
    <2>2. n = appeal[p].version
      BY <1>3, <1>6, <2>1 DEF Applicable, Current, Revisable
    <2> QED
      BY <2>1, <2>2 DEF Contains, Revised
  <1>17. ASSUME NEW q \in Appeals PROVE AppealInOrder(q)'
    <2>1. CASE appeal[q] = None
      BY <1>2, <2>1 DEF AppealInOrder
    <2>2. CASE appeal[q] # None
      <3> PICK t \in Sheets : t = appeal[q].sheet
        BY <2>2, RowsAreTyped
      <3>1. AppealInOrder(q)
        BY RowsAreTyped
      <3>2. ASSUME appeal[q].status = "COMPLETED", NEW n \in Nat, Revised(q, t, n)'
            PROVE  Revised(q, t, n)
        <4> SUFFICES ASSUME ~Revised(q, t, n) PROVE FALSE
          OBVIOUS
        <4>1. q = p /\ t = s /\ \A m \in Nat : ~Revised(p, s, m)
          BY <1>16, <3>2
        <4> QED
          BY <1>6, <2>2, <3>1, <3>2, <4>1 DEF AppealInOrder, Revisable
      <3> QED
        BY <1>2, <1>12, <2>2, <3>1, <3>2 DEF AppealInOrder
    <2> QED
      BY <2>1, <2>2
  <1>18. ASSUME NEW t \in Sheets, NEW n \in Nat PROVE RevisionInOrder(t, n)'
    <2> SUFFICES ASSUME NEW q \in Appeals, Revised(q, t, n)'
                 PROVE  Revisable(q, t)' /\ appeal'[q].version = n
      BY DEF RevisionInOrder
    <2>1. CASE Revised(q, t, n)
      BY <1>2, <2>1 DEF IInv, RevisionInOrder, Revisable
    <2>2. CASE ~Revised(q, t, n)
      BY <1>2, <1>6, <1>16, <2>2
    <2> QED
      BY <2>1, <2>2
  <1>19. \A t \in Sheets, q, r \in Appeals : ActiveFor(q, t)' /\ ActiveFor(r, t)' => q = r
    BY <1>2 DEF ActiveFor, IInv
  <1>20. CallInOrder(k)'
    <2>1. Revised(p, s, i)'
      BY <1>5, <1>8 DEF Revised
    <2> QED
      BY <1>6, <1>10, <1>11, <2>1 DEF CallInOrder, At
  <1>21. SubmissionsApart'
    BY <1>10, <1>11, NoNewSubmission DEF At
  <1>22. InOrder(certificates') /\ \A j \in Calls : At(j,
  "submit") => appeal'[work[j].appeal] = None
    BY <1>2 DEF IInv, CallInOrder
  <1> QED
    BY <1>11, <1>14, <1>15, <1>17, <1>18, <1>19, <1>20, <1>21, <1>22, StepFrame

\* Appeals that await their payment are released by it.
LEMMA ReleasesKeep ==
    ASSUME IInv, NEW P,
           P \subseteq {p \in Appeals : Status(p, "SUBMITTED") /\ payment[p] = "INITIATED"},
           NEW status \in {"PAID", "WAIVED"}, Release(P, status),
           waiveFees' \in BOOLEAN, UNCHANGED <<certificateVars, work>>
    PROVE  IInv'
  <1>1. ASSUME NEW p \in P
        PROVE  /\ p \in Appeals /\ appeal[p] \in AppealRow /\ appeal[p].status = "SUBMITTED"
               /\ appeal[p] # None
    BY RowsAreTyped DEF Status
  <1>2. ASSUME NEW p \in P
        PROVE  /\ Released(appeal[p]) \in AppealRow
               /\ Released(appeal[p]).status = "PENDING_COMMITTEE"
               /\ Released(appeal[p]).sheet = appeal[p].sheet
               /\ Released(appeal[p]).version = appeal[p].version
    BY <1>1 DEF Released, AppealRow, Statuses
  <1>3. ASSUME NEW p \in Appeals
        PROVE  \/ /\ p \in P /\ appeal'[p] = Released(appeal[p]) /\ payment'[p] = status
               \/ /\ p \notin P /\ appeal'[p] = appeal[p] /\ payment'[p] = payment[p]
    BY DEF Release
  <1>4. appeal' \in [Appeals -> AppealRow \cup {None}]
    <2>1. appeal' = [p \in Appeals |-> IF p \in P THEN Released(appeal[p]) ELSE appeal[p]]
      BY DEF Release
    <2> QED
      BY <1>2, <2>1 DEF IInv, TypeOK
  <1>5. payment' \in [Appeals -> {"NONE", "INITIATED", "PAID", "WAIVED"}]
    BY DEF Release, IInv, TypeOK
  <1>6. revisions' = revisions /\ certificates' = certificates /\ work' = work
    BY DEF certificateVars
  <1>7. ASSUME NEW p \in Appeals PROVE AppealInOrder(p)'
    <2>1. CASE p \in P
      BY <1>2, <1>3, <2>1 DEF AppealInOrder
    <2>2. CASE p \notin P
      <3>1. appeal'[p] = appeal[p] /\ payment'[p] = payment[p] /\ AppealInOrder(p)
        BY <1>3, <2>2, RowsAreTyped
      <3> QED
        BY <1>6, <3>1 DEF AppealInOrder, Revised
    <2> QED
      BY <2>1, <2>2
  <1>8. \A p \in Appeals, s \in Sheets :
           Revisable(p, s) => Revisable(p, s)' /\ appeal'[p].version = appeal[p].version
    BY <1>1, <1>3 DEF Revisable
  <1>9. \A s \in Sheets, p, q \in Appeals : ActiveFor(p, s)' /\ ActiveFor(q, s)' => p = q
    <2>1. \A s \in Sheets, p \in Appeals : ActiveFor(p, s)' => ActiveFor(p, s)
      BY <1>1, <1>2, <1>3 DEF ActiveFor
    <2> QED
      BY <2>1 DEF IInv
  <1>10. \A k \in Calls : At(k, "submit") => appeal'[work[k].appeal] = None
    BY <1>1, <1>3, WorksAreTyped DEF CallInOrder
  <1>11. work' \in [Calls -> Works] /\ SubmissionsApart'
    BY <1>6, NoNewSubmission DEF IInv, TypeOK, Works
  <1> QED
    BY <1>4, <1>5, <1>6, <1>7, <1>8, <1>9, <1>10, <1>11, AppealFrame

\* A submission opens an appeal on a sheet that has no other under way.
LEMMA SubmissionsKeep ==
    ASSUME IInv, NEW k \in Calls, Submit(k)
    PROVE  IInv'
  <1>1. At(k, "submit") /\ CallInOrder(k) /\ work[k] \in AppealWork
    BY WorksAreTyped DEF Submit
  <1> PICK p \in Appeals : p = work[k].appeal
    BY <1>1 DEF AppealWork
  <1> PICK s \in Sheets : s = work[k].sheet
    BY <1>1 DEF AppealWork
  <1> DEFINE r == [sheet |-> s, version |-> work[k].version,
                   status |-> IF waiveFees THEN "PENDING_COMMITTEE" ELSE "SUBMITTED",
                   changes |-> FALSE, recommendation |-> "NONE", decision |-> "NONE"]
  <1>2. /\ appeal' = [appeal EXCEPT ![p] = r]
        /\ payment' = [payment EXCEPT ![p] = IF waiveFees THEN "WAIVED" ELSE "INITIATED"]
        /\ work' = [work EXCEPT ![k] = Idle] /\ waiveFees' = waiveFees
        /\ ActiveOn(s) = {} /\ appeal[p] = None
    BY <1>1 DEF Submit, MaySubmit, CallInOrder
  <1>3. /\ r \in AppealRow /\ r.sheet = s /\ r.status # "COMPLETED"
        /\ r.status # "APPROVED_PENDING_SCORE_UPDATE" /\ (r.status # "SUBMITTED" => waiveFees)
    BY <1>1 DEF AppealRow, AppealWork, Statuses
  <1> HIDE DEF r
  <1>4. /\ appeal' \in [Appeals -> AppealRow \cup {None}] /\ appeal'[p] = r
        /\ \A q \in Appeals \ {p} : appeal'[q] = appeal[q]
    BY <1>2, <1>3 DEF IInv, TypeOK
  <1>5. /\ payment' \in [Appeals -> {"NONE", "INITIATED", "PAID", "WAIVED"}]
        /\ waiveFees => payment'[p] = "WAIVED"
        /\ \A q \in Appeals \ {p} : payment'[q] = payment[q]
    BY <1>2 DEF IInv, TypeOK
  <1>6. /\ work' \in [Calls -> Works] /\ work'[k] = Idle
        /\ \A j \in Calls \ {k} : work'[j] = work[j]
    BY <1>2 DEF IInv, TypeOK, Works
  <1>7. revisions' = revisions /\ certificates' = certificates /\ waiveFees' \in BOOLEAN
    BY <1>2 DEF Submit, certificateVars, IInv, TypeOK
  <1>8. ASSUME NEW q \in Appeals PROVE AppealInOrder(q)'
    <2>1. CASE q = p
      BY <1>3, <1>4, <1>5, <2>1 DEF AppealInOrder
    <2>2. CASE q # p
      <3>1. appeal'[q] = appeal[q] /\ payment'[q] = payment[q] /\ AppealInOrder(q)
        BY <1>4, <1>5, <2>2, RowsAreTyped
      <3> QED
        BY <1>7, <3>1 DEF AppealInOrder, Revised
    <2> QED
      BY <2>1, <2>2
  <1>9. \A q \in Appeals, t \in Sheets :
           Revisable(q, t) => Revisable(q, t)' /\ appeal'[q].version = appeal[q].version
    BY <1>2, <1>4, <1>5 DEF Revisable
  <1>10. \A t \in Sheets, q, u \in Appeals : ActiveFor(q, t)' /\ ActiveFor(u, t)' => q = u
    <2>1. \A t \in Sheets, q \in Appeals :
             ActiveFor(q, t)' => (q = p /\ t = s) \/ (q # p /\ ActiveFor(q, t))
      BY <1>3, <1>4 DEF ActiveFor
    <2>2. \A q \in Appeals : ~ActiveFor(q, s)
      BY <1>2 DEF ActiveOn, ActiveFor
    <2> QED
      BY <2>1, <2>2 DEF IInv
  <1>11. \A j \in Calls \ {k} : At(j, "submit") => appeal'[work[j].appeal] = None
    <2> SUFFICES ASSUME NEW j \in Calls \ {k}, At(j, "submit")
                 PROVE  appeal'[work[j].appeal] = None
      OBVIOUS
    <2>1. work[j].appeal \in Appeals /\ appeal[work[j].appeal] = None
      BY WorksAreTyped DEF CallInOrder
    <2>2. work[j].appeal # p
      BY <1>1 DEF IInv, SubmissionsApart
    <2> QED
      BY <1>4, <2>1, <2>2
  <1>12. SubmissionsApart'
    BY <1>6, NoNewSubmission DEF At
  <1> QED
    BY <1>4, <1>5, <1>6, <1>7, <1>8, <1>9, <1>10, <1>11, <1>12, AppealFrame DEF certificateVars

\* Steps that change the row of one appeal without opening it again.
LEMMA RowFrame ==
    ASSUME IInv, NEW p \in Appeals, NEW r \in AppealRow, appeal' = [appeal EXCEPT ![p] = r],
           appeal[p] # None, r.sheet = appeal[p].sheet, r.version = appeal[p].version,
           r.status # "COMPLETED" => appeal[p].status # "COMPLETED",
           \A s \in Sheets : Revisable(p, s) =>
              /\ r.status = "COMPLETED" /\ r.decision = appeal[p].decision
              /\ r.recommendation = appeal[p].recommendation,
           AppealInOrder(p)',
           UNCHANGED <<certificateVars, payment, waiveFees>>,
           work' \in [Calls -> Works],
           \A k \in Calls : work'[k] = work[k] \/ work'[k] = Idle
    PROVE  IInv'
  <1>1. /\ appeal' \in [Appeals -> AppealRow \cup {None}] /\ appeal'[p] = r
        /\ \A q \in Appeals \ {p} : appeal'[q] = appeal[q]
    BY DEF IInv, TypeOK
  <1>2. /\ revisions' = revisions /\ certificates' = certificates
        /\ payment' = payment /\ waiveFees' = waiveFees
    BY DEF certificateVars
  <1>3. \A q \in Appeals : AppealInOrder(q)'
    <2> SUFFICES ASSUME NEW q \in Appeals \ {p} PROVE AppealInOrder(q)'
      OBVIOUS
    <2>1. appeal'[q] = appeal[q] /\ AppealInOrder(q)
      BY <1>1, RowsAreTyped
    <2> QED
      BY <1>2, <2>1 DEF AppealInOrder, Revised
  <1>4. \A q \in Appeals, s \in Sheets :
           Revisable(q, s) => Revisable(q, s)' /\ appeal'[q].version = appeal[q].version
    BY <1>1, <1>2, NoneIsNoRow DEF Revisable
  <1>5. \A s \in Sheets, q, u \in Appeals : ActiveFor(q, s)' /\ ActiveFor(u, s)' => q = u
    <2>1. \A s \in Sheets, q \in Appeals : ActiveFor(q, s)' => ActiveFor(q, s)
      BY <1>1 DEF ActiveFor
    <2> QED
      BY <2>1 DEF IInv
  <1>6. \A k \in Calls : At(k, "submit") => appeal'[work[k].appeal] = None
    BY <1>1, WorksAreTyped DEF CallInOrder
  <1>7. SubmissionsApart'
    BY NoNewSubmission DEF At
  <1>8. /\ payment' \in [Appeals -> {"NONE", "INITIATED", "PAID", "WAIVED"}]
        /\ waiveFees' \in BOOLEAN
    BY <1>2 DEF IInv, TypeOK
  <1> QED
    BY <1>1, <1>2, <1>3, <1>4, <1>5, <1>6, <1>7, <1>8, AppealFrame

\* The committee recommends.
LEMMA ReviewsKeep ==
    ASSUME IInv, NEW p \in Appeals, NEW recommendation \in {"NO_CHANGE", "REVISE"},
           CommitteeReview(p, recommendation)
    PROVE  IInv'
  <1> DEFINE r1 == [appeal[p] EXCEPT !.status = "PENDING_CHIEF_APPROVAL"]
             r == [r1 EXCEPT !.recommendation = recommendation]
  <1>1. /\ appeal[p] \in AppealRow /\ AppealInOrder(p) /\ appeal[p].status = "PENDING_COMMITTEE"
        /\ appeal[p] # None
    BY RowsAreTyped DEF CommitteeReview, Status
  <1>2. appeal' = [appeal EXCEPT ![p] = r]
    <2>1. appeal' = [appeal EXCEPT ![p] = [appeal[p] EXCEPT !.status = "PENDING_CHIEF_APPROVAL",
                                                         !.recommendation = recommendation]]
      BY DEF CommitteeReview, IInv, TypeOK
    <2> QED
      BY <1>1, <2>1 DEF AppealRow
  <1>3. /\ r \in AppealRow /\ r.status = "PENDING_CHIEF_APPROVAL"
        /\ r.sheet = appeal[p].sheet /\ r.version = appeal[p].version
    <2>1. /\ r1 \in AppealRow /\ r1.status = "PENDING_CHIEF_APPROVAL"
          /\ r1.sheet = appeal[p].sheet /\ r1.version = appeal[p].version
      BY <1>1 DEF AppealRow, Statuses
    <2> HIDE DEF r1
    <2> QED
      BY <2>1 DEF AppealRow
  <1> HIDE DEF r
  <1>4. /\ appeal'[p] = r /\ payment' = payment /\ work' = work
    BY <1>2 DEF IInv, TypeOK, CommitteeReview
  <1>5. AppealInOrder(p)'
    BY <1>1, <1>3, <1>4 DEF AppealInOrder
  <1>6. \A s \in Sheets : ~Revisable(p, s)
    BY <1>1 DEF Revisable
  <1>7. work' \in [Calls -> Works] /\ \A k \in Calls : work'[k] = work[k]
    BY <1>4 DEF IInv, TypeOK, Works
  <1> QED
    BY <1>1, <1>2, <1>3, <1>5, <1>6, <1>7, RowFrame DEF CommitteeReview

\* The Chief decides on an appeal that no revision is made for yet.
LEMMA DecisionsKeep ==
    ASSUME IInv, NEW p \in Appeals, NEW decision \in {"APPROVED", "REJECTED"},
           NEW changes \in BOOLEAN, Decide(p, decision, changes)
    PROVE  IInv'
  <1> DEFINE to == StatusOnceDecided(p, decision)
             r1 == [appeal[p] EXCEPT !.decision = decision]
             r2 == [r1 EXCEPT !.changes = changes]
             r == [r2 EXCEPT !.status = to]
  <1>1. /\ appeal[p] \in AppealRow /\ AppealInOrder(p)
        /\ appeal[p].status = "PENDING_CHIEF_APPROVAL"
        /\ appeal[p] # None /\ appeal[p].sheet \in Sheets
    BY RowsAreTyped DEF Decide, Status
  <1>2. /\ to \in Statuses
        /\ decision = "APPROVED" /\ appeal[p].recommendation = "REVISE"
              => to = "APPROVED_PENDING_SCORE_UPDATE"
        /\ ~(decision = "APPROVED" /\ appeal[p].recommendation = "REVISE") => to = "COMPLETED"
    BY DEF StatusOnceDecided, Statuses
  <1>3. appeal' = [appeal EXCEPT ![p] = r]
    <2>1. appeal' = [appeal EXCEPT ![p].decision = decision, ![p].changes = changes,
                                   ![p].status = to]
      BY Zenon DEF Decide
    <2> HIDE DEF to
    <2>2. appeal' = [appeal EXCEPT ![p] = [appeal[p] EXCEPT !.decision = decision,
                                              !.changes = changes, !.status = to]]
      BY <2>1 DEF IInv, TypeOK
    <2> QED
      BY <1>1, <2>2 DEF AppealRow
  <1> HIDE DEF to
  <1>4. /\ r \in AppealRow /\ r.status = to /\ r.decision = decision
        /\ r.recommendation = appeal[p].recommendation
        /\ r.sheet = appeal[p].sheet /\ r.version = appeal[p].version
    <2>1. /\ r1 \in AppealRow /\ r1.decision = decision
          /\ r1.recommendation = appeal[p].recommendation
          /\ r1.sheet = appeal[p].sheet /\ r1.version = appeal[p].version
      BY <1>1 DEF AppealRow
    <2> HIDE DEF r1
    <2>2. /\ r2 \in AppealRow /\ r2.decision = decision
          /\ r2.recommendation = appeal[p].recommendation
          /\ r2.sheet = appeal[p].sheet /\ r2.version = appeal[p].version
      BY <2>1 DEF AppealRow
    <2> HIDE DEF r2
    <2> QED
      BY <1>2, <2>2 DEF AppealRow
  <1> HIDE DEF r
  <1>5. /\ appeal'[p] = r /\ payment' = payment /\ work' = work
        /\ revisions' = revisions /\ certificates' = certificates
    BY <1>3 DEF IInv, TypeOK, Decide, certificateVars
  <1>6. \A s \in Sheets : ~Revisable(p, s)
    BY <1>1 DEF Revisable
  <1>7. \A i \in Nat : ~Revised(p, appeal[p].sheet, i)
    BY <1>1, <1>6 DEF IInv, RevisionInOrder
  <1>8. AppealInOrder(p)'
    BY <1>1, <1>2, <1>4, <1>5, <1>7 DEF AppealInOrder, Revised
  <1>9. work' \in [Calls -> Works] /\ \A k \in Calls : work'[k] = work[k]
    BY <1>5 DEF IInv, TypeOK, Works
  <1> QED
    BY <1>1, <1>3, <1>4, <1>6, <1>8, <1>9, RowFrame DEF Decide

\* A revision completes once it is made and the older certificates are superseded.
LEMMA CompletionsKeep ==
    ASSUME IInv, NEW k \in Calls, Complete(k)
    PROVE  IInv'
  <1>1. At(k, "complete") /\ CallInOrder(k) /\ work[k] \in AppealWork
    BY WorksAreTyped DEF Complete
  <1> PICK p \in Appeals : p = work[k].appeal
    BY <1>1 DEF AppealWork
  <1> PICK s \in Sheets : s = work[k].sheet
    BY <1>1 DEF AppealWork
  <1> DEFINE r == [appeal[p] EXCEPT !.status = "COMPLETED"]
  <1>2. Revisable(p, s) /\ Clean(certificates, s, work[k].version)
    BY <1>1 DEF CallInOrder
  <1>3. PICK i \in Nat : Revised(p, s, i) /\ work[k].version = i + 1
    BY <1>1 DEF CallInOrder
  <1>4. /\ appeal[p] # None /\ appeal[p] \in AppealRow /\ appeal[p].sheet = s
        /\ AppealInOrder(p)
    BY <1>2, RowsAreTyped DEF Revisable
  <1>5. appeal' = [appeal EXCEPT ![p] = r]
    BY DEF Complete, IInv, TypeOK
  <1>6. /\ r \in AppealRow /\ r.status = "COMPLETED" /\ r.decision = appeal[p].decision
        /\ r.recommendation = appeal[p].recommendation
        /\ r.sheet = s /\ r.version = appeal[p].version
    BY <1>4 DEF AppealRow, Statuses
  <1> HIDE DEF r
  <1>7. /\ appeal'[p] = r /\ payment' = payment /\ work' = [work EXCEPT ![k] = Idle]
        /\ revisions' = revisions /\ certificates' = certificates
    BY <1>5 DEF IInv, TypeOK, Complete, certificateVars
  <1>8. \A n \in Nat : Revised(p, s, n) => n = i
    BY <1>3 DEF IInv, RevisionInOrder
  <1>9. AppealInOrder(p)'
    <2>1. payment[p] \in {"PAID", "WAIVED"}
      BY <1>2 DEF Revisable
    <2> QED
      BY <1>2, <1>3, <1>6, <1>7, <1>8, <2>1 DEF AppealInOrder, Revised
  <1>10. /\ work' \in [Calls -> Works]
         /\ \A j \in Calls : work'[j] = work[j] \/ work'[j] = Idle
    BY <1>7 DEF IInv, TypeOK, Works
  <1>11. UNCHANGED <<certificateVars, payment, waiveFees>>
    BY DEF Complete
  <1>12. /\ r.sheet = appeal[p].sheet /\ appeal[p] # None
         /\ r.status # "COMPLETED" => appeal[p].status # "COMPLETED"
    BY <1>4, <1>6
  <1>13. \A t \in Sheets : Revisable(p, t) =>
            /\ r.status = "COMPLETED" /\ r.decision = appeal[p].decision
            /\ r.recommendation = appeal[p].recommendation
    BY <1>6
  <1> QED
    BY <1>5, <1>6, <1>9, <1>10, <1>11, <1>12, <1>13, RowFrame, Zenon

-----------------------------------------------------------------------------
(* The theorems.                                                           *)

\* At first nothing is appealed against, issued or under way.
LEMMA InitIInv == Init => IInv
  <1> SUFFICES ASSUME Init PROVE IInv
    OBVIOUS
  <1>1. /\ revisions = [s \in Sheets |-> <<>>] /\ certificates = {}
        /\ work = [k \in Calls |-> Idle] /\ appeal = [p \in Appeals |-> None]
    BY DEF Init, CertificatesInit
  <1>2. TypeOK
    BY <1>1 DEF Init, TypeOK, CertificatesTypeOK
  <1>3. InOrder({})
    <2>1. \A s, m : ~HasNumber({}, s, m)
      BY DEF HasNumber
    <2>2. \A s : Numbered({}, s)
      <3>1. \A m \in Nat : m \notin 1 .. 0
        OBVIOUS
      <3> QED
        BY <2>1, <3>1 DEF Numbered
    <2> QED
      BY <2>2, FS_EmptySet DEF InOrder
  <1>4. \A p \in Appeals : appeal[p] = None
    BY <1>1
  <1>5. \A s \in Sheets, p \in Appeals, i \in Nat : ~Revised(p, s, i)
    BY <1>1 DEF Revised
  <1>6. \A k \in Calls : \A step : ~At(k, step)
    BY <1>1 DEF At
  <1> QED
    BY <1>1, <1>2, <1>3, <1>4, <1>5, <1>6
       DEF IInv, AppealInOrder, RevisionInOrder, ActiveFor, CallInOrder, SubmissionsApart

\* Every step keeps the invariant.
LEMMA StepIInv == IInv /\ [Next]_vars => IInv'
  <1> SUFFICES ASSUME IInv, [Next]_vars PROVE IInv'
    OBVIOUS
  <1>1. CASE AppealStep
    <2>1. ASSUME NEW waive \in BOOLEAN, SetFeeWaiver(waive) PROVE IInv'
      BY <2>1, ReleasesKeep DEF SetFeeWaiver
    <2>2. ASSUME NEW p \in Appeals, ConfirmPayment(p) PROVE IInv'
      BY <2>2, ReleasesKeep DEF ConfirmPayment, IInv, TypeOK
    <2> QED
      BY <1>1, <2>1, <2>2, SubmissionsBegin, ReviewsKeep, DecisionsKeep, RevisionsBegin,
         SubmissionsKeep, RevisionsKeep, SupersessionsKeep, CompletionsKeep, FailuresKeep
         DEF AppealStep
  <1>2. CASE CertificateStep
    BY <1>2, IssuesBegin, CountsKeep, InsertionsKeep, RevocationsKeep DEF CertificateStep
  <1>3. CASE UNCHANGED vars
    <2>1. /\ revisions' = revisions /\ certificates' = certificates /\ work' = work
          /\ appeal' = appeal /\ payment' = payment /\ waiveFees' = waiveFees
      BY <1>3 DEF vars, certificateVars, appealVars
    <2> QED
      BY <2>1 DEF IInv, TypeOK, CertificatesTypeOK, Current, AppealInOrder, RevisionInOrder,
                  Revised, Revisable, ActiveFor, CallInOrder, At, SubmissionsApart
  <1> QED
    BY <1>1, <1>2, <1>3 DEF Next

\* The invariant holds throughout.
LEMMA AlwaysIInv == Spec => []IInv
  BY InitIInv, StepIInv, PTL DEF Spec

\* Every variable stays in its type.
THEOREM TypeCorrect == Spec => []TypeOK
  <1>1. IInv => TypeOK
    BY DEF IInv
  <1> QED
    BY <1>1, AlwaysIInv, PTL

\* Calls that issue certificates at the same time neither share a number nor leave one out.
THEOREM NumbersHaveNoGap == Spec => []CertificatesAreNumbered
  <1>1. IInv => CertificatesAreNumbered
    BY NumbersCount DEF IInv, CertificatesAreNumbered
  <1> QED
    BY <1>1, AlwaysIInv, PTL

\* No overlap of submissions opens a second appeal on a result.
THEOREM AppealsAreOneAtATime == Spec => []OneActiveAppeal
  <1>1. IInv => OneActiveAppeal
    <2> SUFFICES ASSUME IInv, NEW s \in Sheets PROVE Cardinality(ActiveOn(s)) <= 1
      BY DEF OneActiveAppeal
    <2>1. \A p, q \in ActiveOn(s) : p = q
      BY DEF IInv, ActiveOn, ActiveFor
    <2>2. CASE ActiveOn(s) = {}
      BY <2>2, FS_EmptySet
    <2>3. CASE ActiveOn(s) # {}
      <3>1. PICK p : ActiveOn(s) = {p}
        BY <2>1, <2>3
      <3>2. Cardinality({p}) = 1
        BY FS_Singleton
      <3> QED
        BY <3>1, <3>2
    <2> QED
      BY <2>2, <2>3
  <1> QED
    BY <1>1, AlwaysIInv, PTL

\* Every version of a score after the first is one approved appeal's.
THEOREM RevisionsAreApproved == Spec => []EachRevisionWasApproved
  <1>1. IInv => EachRevisionWasApproved
    <2> SUFFICES ASSUME IInv, NEW s \in Sheets, NEW i \in DOMAIN revisions[s]
                 PROVE  LET p == revisions[s][i] IN
                        /\ appeal[p] # None /\ appeal[p].sheet = s /\ appeal[p].version = i
                        /\ appeal[p].decision = "APPROVED" /\ appeal[p].recommendation = "REVISE"
                        /\ payment[p] \in {"PAID", "WAIVED"}
                        /\ \A j \in DOMAIN revisions[s] : revisions[s][j] = p => j = i
      BY DEF EachRevisionWasApproved
    <2>1. revisions[s] \in Seq(Appeals)
      BY DEF IInv, TypeOK, CertificatesTypeOK
    <2>2. PICK p \in Appeals : p = revisions[s][i]
      BY <2>1
    <2>3. \A j \in DOMAIN revisions[s] : j \in Nat /\ (revisions[s][j] = p => Revised(p, s, j))
      BY <2>1 DEF Revised
    <2>4. \A j \in Nat : Revised(p, s, j) => Revisable(p, s) /\ appeal[p].version = j
      BY DEF IInv, RevisionInOrder
    <2> QED
      BY <2>2, <2>3, <2>4 DEF Revisable
  <1> QED
    BY <1>1, AlwaysIInv, PTL

\* No failure between the services completes an approved appeal without its revision.
THEOREM CompletionsAreApplied == Spec => []CompletedRevisionsAreApplied
  <1>1. IInv => CompletedRevisionsAreApplied
    BY DEF IInv, CompletedRevisionsAreApplied, AppealInOrder, Status, Revised, Contains
  <1> QED
    BY <1>1, AlwaysIInv, PTL

\* Once an appeal has completed, what is active for an older version was inserted late.
THEOREM StaleCertificatesAreLate == Spec => []OnlyLateCertificatesAreStale
  <1>1. IInv => OnlyLateCertificatesAreStale
    <2> SUFFICES ASSUME IInv, NEW p \in Appeals, Status(p, "COMPLETED"), NEW c \in certificates,
                        c.sheet = appeal[p].sheet, c.status = "ACTIVE",
                        NEW i \in DOMAIN revisions[c.sheet], revisions[c.sheet][i] = p,
                        c.version <= i
                 PROVE  c.late
      BY DEF OnlyLateCertificatesAreStale
    <2>1. c \in CertificateRow /\ revisions[c.sheet] \in Seq(Appeals)
      BY DEF IInv, InOrder, TypeOK, CertificatesTypeOK, CertificateRow
    <2>2. i \in Nat /\ Revised(p, c.sheet, i) /\ c.version < i + 1
      BY <2>1 DEF Revised, CertificateRow
    <2>3. Clean(certificates, c.sheet, i + 1)
      BY <2>2, RowsAreTyped DEF AppealInOrder, Status
    <2> QED
      BY <2>2, <2>3 DEF Clean
  <1> QED
    BY <1>1, AlwaysIInv, PTL

-----------------------------------------------------------------------------
(* The log of versions.                                                    *)

\* The log that the revisions stand for.
Logged == [s \in Sheets |-> <<"ORIGINAL">> \o revisions[s]]

\* Its entries after the first are the appeals that revised the sheet.
LEMMA LoggedRevisions ==
    ASSUME CertificatesTypeOK, NEW s \in Sheets
    PROVE  /\ Logged[s] # <<>>
           /\ \A n \in 2 .. Len(Logged[s]) :
                 n - 1 \in DOMAIN revisions[s] /\ Logged[s][n] = revisions[s][n - 1]
  <1>1. revisions[s] \in Seq(Appeals) /\ Logged[s] = <<"ORIGINAL">> \o revisions[s]
    BY DEF CertificatesTypeOK, Logged
  <1>2. /\ Len(Logged[s]) = 1 + Len(revisions[s]) /\ Len(revisions[s]) \in Nat
        /\ \A n \in 1 .. Len(Logged[s]) :
              Logged[s][n] = IF n = 1 THEN "ORIGINAL" ELSE revisions[s][n - 1]
    BY <1>1
  <1> QED
    BY <1>1, <1>2

\* A revision writes to the log what VersionLog allows, any other step nothing.
LEMMA StepRefinesLog == IInv /\ [Next]_vars => [Log!Next]_(Log!logVars)
  <1> SUFFICES ASSUME IInv, [Next]_vars
               PROVE  \/ Logged' = Logged
                      \/ \E s \in Sheets, p \in Appeals :
                            /\ Logged[s] # <<>>
                            /\ ~\E t \in Sheets : \E n \in 2 .. Len(Logged[t]) :
                                   Logged[t][n] = p
                            /\ Logged' = [Logged EXCEPT ![s] = Append(@, p)]
    BY DEF Log!Next, Log!Revise, Log!Applied, Log!logVars, Logged
  <1>1. CertificatesTypeOK
    BY DEF IInv, TypeOK
  <1>2. CASE UNCHANGED revisions
    BY <1>2 DEF Logged
  <1>3. ASSUME NEW k \in Calls, ReviseScore(k), ~UNCHANGED revisions
        PROVE  \E s \in Sheets, p \in Appeals :
                  /\ Logged[s] # <<>>
                  /\ ~\E t \in Sheets : \E n \in 2 .. Len(Logged[t]) : Logged[t][n] = p
                  /\ Logged' = [Logged EXCEPT ![s] = Append(@, p)]
    <2>1. At(k, "revise") /\ CallInOrder(k) /\ work[k] \in AppealWork
      BY <1>3, WorksAreTyped DEF ReviseScore
    <2>2. PICK s \in Sheets, p \in Appeals : s = work[k].sheet /\ p = work[k].appeal
      BY <2>1 DEF AppealWork
    <2>3. revisions[s] \in Seq(Appeals) /\ revisions \in [Sheets -> Seq(Appeals)]
      BY <1>1 DEF CertificatesTypeOK
    <2>4. /\ ~Contains(revisions[s], p)
          /\ revisions' = [revisions EXCEPT ![s] = Append(@, p)]
      BY <1>3, <2>2, <2>3 DEF ReviseScore
    <2>5. <<"ORIGINAL">> \o Append(revisions[s], p) = Append(<<"ORIGINAL">> \o revisions[s], p)
      BY <2>3
    <2>6. Logged' = [Logged EXCEPT ![s] = Append(@, p)]
      BY <2>3, <2>4, <2>5 DEF Logged
    <2>7. ASSUME NEW t \in Sheets, NEW n \in 2 .. Len(Logged[t]), Logged[t][n] = p
          PROVE  FALSE
      <3>1. n - 1 \in DOMAIN revisions[t] /\ revisions[t][n - 1] = p
        BY <1>1, <2>7, LoggedRevisions
      <3>2. revisions[t] \in Seq(Appeals)
        BY <2>3
      <3>3. n - 1 \in Nat /\ Revised(p, t, n - 1)
        BY <3>1, <3>2 DEF Revised
      <3>4. Revisable(p, t)
        BY <3>3 DEF IInv, RevisionInOrder
      <3>5. t = s
        BY <2>1, <2>2, <3>4 DEF CallInOrder, Revisable
      <3> QED
        BY <2>4, <3>1, <3>5 DEF Contains
    <2>8. Logged[s] # <<>>
      BY <1>1, LoggedRevisions
    <2> QED
      BY <2>6, <2>7, <2>8, Zenon
  <1>4. UNCHANGED revisions \/ \E k \in Calls : ReviseScore(k)
    <2>1. ASSUME AppealStep
          PROVE  UNCHANGED revisions \/ \E k \in Calls : ReviseScore(k)
      <3>1. ASSUME NEW k, NEW p, NEW s, NEW w,
                   BeginSubmit(k, p, s) \/ BeginRevision(k, p) \/ SetFeeWaiver(w)
            PROVE  UNCHANGED revisions
        BY <3>1 DEF certificateVars, BeginSubmit, SetFeeWaiver, BeginRevision
      <3>2. ASSUME NEW p, NEW r, NEW d, NEW c,
                   ConfirmPayment(p) \/ CommitteeReview(p, r) \/ Decide(p, d, c)
            PROVE  UNCHANGED revisions
        BY <3>2 DEF certificateVars, ConfirmPayment, CommitteeReview, Decide
      <3>3. ASSUME NEW k, Submit(k) \/ SupersedeCertificates(k) \/ Complete(k) \/ CallFails(k)
            PROVE  UNCHANGED revisions
        BY <3>3 DEF certificateVars, Submit, SupersedeCertificates, Complete, CallFails
      <3> QED
        BY <2>1, <3>1, <3>2, <3>3 DEF AppealStep
    <2>2. CertificateStep => UNCHANGED revisions
      BY DEF CertificateStep, certificateVars, BeginIssue, CountPrior, Insert, Revoke
    <2> QED
      BY <2>1, <2>2 DEF Next, vars, certificateVars
  <1> QED
    BY <1>2, <1>3, <1>4

\* However often the calls between the services are repeated, what they make of the versions
\* is the log of VersionLog, as what the result service makes of them is.
THEOREM RevisionsAreLogged == Spec => ImplementsVersionLog
  <1>1. Init => Log!Init
    <2> SUFFICES ASSUME Init
                 PROVE  Logged \in [Sheets -> {<<>>, <<"ORIGINAL">>}]
      BY DEF Log!Init, Logged
    <2>1. <<"ORIGINAL">> \o <<>> = <<"ORIGINAL">>
      OBVIOUS
    <2> QED
      BY <2>1 DEF Init, CertificatesInit, Logged
  <1> QED
    BY <1>1, StepRefinesLog, AlwaysIInv, PTL DEF Spec, ImplementsVersionLog, Log!Spec
-----------------------------------------------------------------------------
(* The desk that collects the fees.                                        *)

\* Where an appeal is, and the fees that are settled.
Place == [p \in Appeals |-> IF appeal[p] = None THEN "NO_ROW"
                            ELSE IF appeal[p].status = "SUBMITTED" THEN "SUBMITTED"
                            ELSE "RELEASED"]
Settled == {p \in Appeals : payment[p] \in {"PAID", "WAIVED"}}

\* Nothing is paid for an appeal before it is submitted.
NothingIsPrepaid == \A p \in Appeals : appeal[p] = None => payment[p] = "NONE"

\* The row of one appeal that has left the desk changes, and it is not called back.
LEMMA RowsStayReleased ==
    ASSUME IInv, NothingIsPrepaid, NEW p \in Appeals, NEW r \in AppealRow,
           appeal' = [appeal EXCEPT ![p] = r], payment' = payment,
           appeal[p] # None, appeal[p].status # "SUBMITTED", r.status # "SUBMITTED"
    PROVE  Place' = Place /\ Settled' = Settled /\ NothingIsPrepaid'
  <1>1. /\ appeal'[p] = r /\ r # None
        /\ \A q \in Appeals \ {p} : appeal'[q] = appeal[q]
    BY NoneIsNoRow DEF IInv, TypeOK
  <1>2. ASSUME NEW q \in Appeals
        PROVE  /\ appeal'[q] = None <=> appeal[q] = None
               /\ Status(q, "SUBMITTED")' <=> Status(q, "SUBMITTED")
    BY <1>1 DEF Status
  <1>3. Place' = Place
    BY <1>2 DEF Place, Status
  <1>4. \A q \in Appeals : appeal'[q] = None => payment'[q] = "NONE"
    BY <1>2 DEF NothingIsPrepaid
  <1> QED
    BY <1>3, <1>4 DEF Settled, NothingIsPrepaid

\* What a step does at the desk.
LEMMA AtTheDesk ==
    ASSUME IInv, NothingIsPrepaid, [Next]_vars
    PROVE  /\ NothingIsPrepaid'
           /\ \/ Place' = Place /\ Settled' = Settled
              \/ \E p \in Appeals :
                    /\ Place[p] = "NO_ROW"
                    /\ \/ Place' = [Place EXCEPT ![p] = "SUBMITTED"] /\ Settled' = Settled
                       \/ /\ Place' = [Place EXCEPT ![p] = "RELEASED"]
                          /\ Settled' = Settled \cup {p}
              \/ \E P \in SUBSET Appeals :
                    /\ \A p \in P : Place[p] = "SUBMITTED"
                    /\ Place' = [p \in Appeals |-> IF p \in P THEN "RELEASED" ELSE Place[p]]
                    /\ Settled' = Settled \cup P
  <1> DEFINE Goal == /\ NothingIsPrepaid'
                     /\ \/ Place' = Place /\ Settled' = Settled
                        \/ \E p \in Appeals :
                              /\ Place[p] = "NO_ROW"
                              /\ \/ Place' = [Place EXCEPT ![p] = "SUBMITTED"] /\ Settled' = Settled
                                 \/ /\ Place' = [Place EXCEPT ![p] = "RELEASED"]
                                    /\ Settled' = Settled \cup {p}
                        \/ \E P \in SUBSET Appeals :
                              /\ \A p \in P : Place[p] = "SUBMITTED"
                              /\ Place' = [p \in Appeals |-> IF p \in P THEN "RELEASED"
                                                             ELSE Place[p]]
                              /\ Settled' = Settled \cup P
  <1>1. appeal \in [Appeals -> AppealRow \cup {None}] /\ DOMAIN payment = Appeals
    BY DEF IInv, TypeOK
  <1>2. CASE UNCHANGED <<appeal, payment>>
    BY <1>2 DEF Place, Settled, NothingIsPrepaid, Status
  <1>3. ASSUME NEW k \in Calls, Submit(k)
        PROVE  Goal
    <2>1. At(k, "submit") /\ CallInOrder(k) /\ work[k] \in AppealWork
      BY <1>3, WorksAreTyped DEF Submit
    <2>2. PICK p \in Appeals : p = work[k].appeal
      BY <2>1 DEF AppealWork
    <2> DEFINE r == [sheet |-> work[k].sheet, version |-> work[k].version,
                     status |-> IF waiveFees THEN "PENDING_COMMITTEE" ELSE "SUBMITTED",
                     changes |-> FALSE, recommendation |-> "NONE", decision |-> "NONE"]
    <2>3. appeal[p] = None /\ payment[p] = "NONE"
      BY <2>1, <2>2 DEF CallInOrder, NothingIsPrepaid
    <2>4. /\ appeal' = [appeal EXCEPT ![p] = r]
          /\ payment' = [payment EXCEPT ![p] = IF waiveFees THEN "WAIVED" ELSE "INITIATED"]
      BY <1>3, <2>2 DEF Submit
    <2>5. /\ r \in AppealRow
          /\ r.status = IF waiveFees THEN "PENDING_COMMITTEE" ELSE "SUBMITTED"
      BY <2>1 DEF AppealRow, AppealWork, Statuses
    <2> HIDE DEF r
    <2>6. /\ appeal'[p] = r /\ r # None
          /\ payment'[p] = IF waiveFees THEN "WAIVED" ELSE "INITIATED"
          /\ \A q \in Appeals \ {p} : appeal'[q] = appeal[q] /\ payment'[q] = payment[q]
      BY <1>1, <2>4, <2>5, NoneIsNoRow
    <2>7. NothingIsPrepaid'
      BY <2>6 DEF NothingIsPrepaid
    <2>8. Place[p] = "NO_ROW"
      BY <2>3 DEF Place
    <2>9. /\ Place' = [Place EXCEPT ![p] = IF waiveFees THEN "RELEASED" ELSE "SUBMITTED"]
          /\ Settled' = IF waiveFees THEN Settled \cup {p} ELSE Settled
      <3>1. \A q \in Appeals \ {p} :
               /\ Status(q, "SUBMITTED")' <=> Status(q, "SUBMITTED")
               /\ appeal'[q] = None <=> appeal[q] = None
        BY <2>6 DEF Status
      <3>2. Status(p, "SUBMITTED")' <=> ~waiveFees
        BY <2>5, <2>6 DEF Status
      <3>3. Place' = [Place EXCEPT ![p] = IF waiveFees THEN "RELEASED" ELSE "SUBMITTED"]
        BY <2>6, <3>1, <3>2 DEF Place, Status
      <3>4. Settled' = IF waiveFees THEN Settled \cup {p} ELSE Settled
        <4>1. p \notin Settled
          BY <2>3 DEF Settled
        <4>2. \A q \in Appeals : q # p => (q \in Settled' <=> q \in Settled)
          BY <2>6 DEF Settled
        <4>3. p \in Settled' <=> waiveFees
          BY <2>6 DEF Settled
        <4>4. Settled \subseteq Appeals /\ Settled' \subseteq Appeals
          BY DEF Settled
        <4> HIDE DEF Settled
        <4> QED
          BY <4>1, <4>2, <4>3, <4>4
      <3> QED
        BY <3>3, <3>4
    <2> QED
      BY <2>7, <2>8, <2>9
  <1>4. ASSUME NEW P \in SUBSET Appeals, NEW by \in {"PAID", "WAIVED"}, Release(P, by),
               \A p \in P : Status(p, "SUBMITTED")
        PROVE  Goal
    <2>1. \A p \in P : /\ appeal[p] # None /\ appeal[p] \in AppealRow
                       /\ appeal'[p] = Released(appeal[p]) /\ payment'[p] = by
      BY <1>1, <1>4 DEF Release, Status
    <2>2. \A p \in Appeals \ P : appeal'[p] = appeal[p] /\ payment'[p] = payment[p]
      BY <1>4 DEF Release
    <2>3. \A r \in AppealRow : Released(r) \in AppealRow /\ Released(r).status # "SUBMITTED"
      BY DEF Released, AppealRow, Statuses
    <2>4. \A p \in P : appeal'[p] # None /\ ~Status(p, "SUBMITTED")'
      BY <2>1, <2>3, NoneIsNoRow DEF Status
    <2>5. \A p \in P : Place[p] = "SUBMITTED"
      BY <1>4, <2>1 DEF Place, Status
    <2>6. Place' = [p \in Appeals |-> IF p \in P THEN "RELEASED" ELSE Place[p]]
      <3>1. \A p \in Appeals \ P :
               /\ Status(p, "SUBMITTED")' <=> Status(p, "SUBMITTED")
               /\ appeal'[p] = None <=> appeal[p] = None
        BY <2>2 DEF Status
      <3> QED
        BY <2>4, <3>1 DEF Place, Status
    <2>7. Settled' = Settled \cup P
      BY <2>1, <2>2 DEF Settled
    <2>8. NothingIsPrepaid'
      BY <2>2, <2>4 DEF NothingIsPrepaid
    <2> QED
      BY <2>5, <2>6, <2>7, <2>8
  <1>5. ASSUME NEW p \in Appeals, ConfirmPayment(p)
        PROVE  Goal
    BY <1>4, <1>5 DEF ConfirmPayment
  <1>6. ASSUME NEW waive \in BOOLEAN, SetFeeWaiver(waive)
        PROVE  Goal
    BY <1>4, <1>6 DEF SetFeeWaiver
  <1>7. ASSUME NEW p \in Appeals, NEW recommendation \in {"NO_CHANGE", "REVISE"},
               CommitteeReview(p, recommendation)
        PROVE  Goal
    <2> DEFINE r == [appeal[p] EXCEPT !.status = "PENDING_CHIEF_APPROVAL",
                                      !.recommendation = recommendation]
    <2>1. appeal[p] # None /\ appeal[p] \in AppealRow /\ appeal[p].status # "SUBMITTED"
      BY <1>1, <1>7 DEF CommitteeReview, Status
    <2>2. r \in AppealRow /\ r.status # "SUBMITTED"
      BY <2>1 DEF AppealRow, Statuses
    <2>3. appeal' = [appeal EXCEPT ![p] = r] /\ payment' = payment
      BY <1>7, Zenon DEF CommitteeReview
    <2> QED
      BY <2>1, <2>2, <2>3, RowsStayReleased
  <1>8. ASSUME NEW p \in Appeals, NEW decision \in {"APPROVED", "REJECTED"},
               NEW changes \in BOOLEAN, Decide(p, decision, changes)
        PROVE  Goal
    <2> DEFINE r == [appeal[p] EXCEPT !.decision = decision, !.changes = changes,
                                      !.status = StatusOnceDecided(p, decision)]
    <2>1. appeal[p] # None /\ appeal[p] \in AppealRow /\ appeal[p].status # "SUBMITTED"
      BY <1>1, <1>8 DEF Decide, Status
    <2>2. StatusOnceDecided(p, decision) \in Statuses \ {"SUBMITTED"}
      BY DEF StatusOnceDecided, Statuses
    <2>3. r \in AppealRow /\ r.status # "SUBMITTED"
      BY <2>1, <2>2 DEF AppealRow
    <2>4. appeal' = [appeal EXCEPT ![p] = r] /\ payment' = payment
      BY <1>8, Zenon DEF Decide
    <2> QED
      BY <2>1, <2>3, <2>4, RowsStayReleased
  <1>9. ASSUME NEW k \in Calls, Complete(k)
        PROVE  Goal
    <2>1. PICK p \in Appeals : p = work[k].appeal
      BY <1>9, WorksAreTyped DEF Complete, AppealWork
    <2> DEFINE r == [appeal[p] EXCEPT !.status = "COMPLETED"]
    <2>2. appeal[p] # None /\ appeal[p] \in AppealRow /\ appeal[p].status # "SUBMITTED"
      BY <1>1, <1>9, <2>1 DEF Complete, ReadyForRevision, Status
    <2>3. r \in AppealRow /\ r.status # "SUBMITTED"
      BY <2>2 DEF AppealRow, Statuses
    <2>4. appeal' = [appeal EXCEPT ![p] = r] /\ payment' = payment
      BY <1>9, <2>1, Zenon DEF Complete
    <2> QED
      BY <2>2, <2>3, <2>4, RowsStayReleased
  <1>10. CASE AppealStep
    <2>1. \/ UNCHANGED <<appeal, payment>>
          \/ \E k \in Calls : Submit(k) \/ Complete(k)
          \/ \E waive \in BOOLEAN : SetFeeWaiver(waive)
          \/ \E p \in Appeals :
                \/ ConfirmPayment(p)
                \/ \E recommendation \in {"NO_CHANGE", "REVISE"} :
                      CommitteeReview(p, recommendation)
                \/ \E decision \in {"APPROVED", "REJECTED"}, changes \in BOOLEAN :
                      Decide(p, decision, changes)
      BY <1>10 DEF AppealStep, BeginSubmit, BeginRevision, ReviseScore, SupersedeCertificates,
                   CallFails, appealVars
    <2> QED
      BY <1>2, <1>3, <1>5, <1>6, <1>7, <1>8, <1>9, <2>1
  <1>11. CertificateStep \/ UNCHANGED vars => UNCHANGED <<appeal, payment>>
    BY DEF CertificateStep, vars, appealVars
  <1> QED
    BY <1>2, <1>10, <1>11 DEF Next

\* Submission, confirmation, waiver, review and completion implement the desk of FeeDesk: an
\* appeal waits there until its fee is settled, goes on once, and is not called back.
THEOREM FeesAreTakenAtTheDesk == Spec => ImplementsFeeDesk
  <1> DEFINE Inv == IInv /\ NothingIsPrepaid
  <1>1. Init => NothingIsPrepaid /\ Desk!Init
    <2> SUFFICES ASSUME Init
                 PROVE  NothingIsPrepaid /\ Desk!Init
      OBVIOUS
    <2>1. \A p \in Appeals : appeal[p] = None /\ payment[p] = "NONE"
      BY DEF Init
    <2>2. Place = [p \in Appeals |-> "NO_ROW"] /\ Settled = {}
      BY <2>1 DEF Place, Settled
    <2> QED
      BY <2>1, <2>2, Zenon DEF Desk!Init, NothingIsPrepaid, Place, Settled
  <1>2. Inv /\ [Next]_vars => NothingIsPrepaid' /\ [Desk!Next]_(Desk!deskVars)
    <2> SUFFICES ASSUME Inv, [Next]_vars
                 PROVE  NothingIsPrepaid' /\ [Desk!Next]_(Desk!deskVars)
      OBVIOUS
    <2>1. NothingIsPrepaid'
      BY AtTheDesk
    <2>2. CASE Place' = Place /\ Settled' = Settled
      BY <2>1, <2>2, Zenon DEF Desk!deskVars, Place, Settled
    <2>3. ASSUME NEW p \in Appeals, Place[p] = "NO_ROW",
                 Place' = [Place EXCEPT ![p] = "SUBMITTED"], Settled' = Settled
          PROVE  Desk!Submit(p)
      BY <2>3, Zenon DEF Desk!Submit, Place, Settled
    <2>4. ASSUME NEW p \in Appeals, Place[p] = "NO_ROW",
                 Place' = [Place EXCEPT ![p] = "RELEASED"], Settled' = Settled \cup {p}
          PROVE  Desk!SubmitWaived(p)
      BY <2>4, Zenon DEF Desk!SubmitWaived, Place, Settled
    <2>5. ASSUME NEW P \in SUBSET Appeals, \A p \in P : Place[p] = "SUBMITTED",
                 Place' = [p \in Appeals |-> IF p \in P THEN "RELEASED" ELSE Place[p]],
                 Settled' = Settled \cup P
          PROVE  Desk!Release(P)
      <3>1. P \subseteq Settled' /\ Settled' \in {Settled, Settled \cup P}
        BY <2>5
      <3> QED
        BY <2>5, <3>1, Zenon DEF Desk!Release, Place, Settled
    <2> QED
      BY <2>1, <2>2, <2>3, <2>4, <2>5, AtTheDesk DEF Desk!Next
  <1> QED
    BY <1>1, <1>2, AlwaysIInv, PTL DEF Spec, ImplementsFeeDesk, Desk!Spec
=============================================================================
