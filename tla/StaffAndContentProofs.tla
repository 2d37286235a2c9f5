------------------------ MODULE StaffAndContentProofs ------------------------
(***************************************************************************)
(* Theorems about StaffHandover, for any users, roles, services, jobs,     *)
(* workers and calls in flight, and about Assessment, for any papers,      *)
(* examinations and skills.  They share nothing but this module.           *)
(***************************************************************************)
EXTENDS StaffHandover, Assessment, TLAPS

-----------------------------------------------------------------------------
(* The inductive invariant.                                                *)

\* A handover that has begun goes to another user; an attempt knows what it does.
Attempted(u) ==
    /\ handover[u].status # "NONE" => handover[u].target \in Users \ {u}
    /\ attempt[u].stage = "plan" =>
         handover[u].status = "NONE" /\ attempt[u].target \in Users \ {u}
    /\ attempt[u].stage \in {"move", "look", "complete"} => handover[u].status = "PENDING"
    /\ attempt[u].next <= Len(Services)

\* What a call that read a row may save: it leaves alone what a handover wrote.
RowKept(old, new) ==
    /\ new.status # "NONE" /\ new.pending = old.pending /\ new.deleted = old.deleted
    /\ old.pending \/ old.deleted => new.roles = old.roles
    /\ old.pending /\ old.status = "DISABLED" => new.status = "DISABLED"

CallKept(c) == call[c] # NoCall => call[c].user \in Users /\ RowKept(call[c].read, call[c].row)

AccountsExist == \A u \in Users : account[u].status = "NONE" => account[u] = NoAccount

Orderly ==
    /\ \A u \in Users : Attempted(u)
    /\ \A c \in Calls : CallKept(c)
    /\ AccountsExist

\* A pending handover reserves its two users.
Reserves(u, x) == handover[u].status = "PENDING" /\ x \in {u, handover[u].target}

\* An account whose row nobody overwrote is reserved once, and looks like it.
Reserved ==
    \A x \in Users \ stale :
        /\ \A u \in Users : Reserves(u, x) => account[x].pending
        /\ \A u, w \in Users : Reserves(u, x) /\ Reserves(w, x) => u = w
        /\ handover[x].status = "PENDING" => account[x].status = "DISABLED"
        /\ handover[x].status = "COMPLETED" => account[x].deleted /\ account[x].roles = {}

\* A report that is being generated belongs to whom it was claimed for, and to one worker.
Working(w) ==
    work[w] # Reports!NoWork =>
        /\ work[w].job \in Jobs
        /\ work[w].owner \in Users
        /\ job[work[w].job] = [owner |-> work[w].owner, status |-> "RUNNING"]
        /\ \A x \in Workers \ {w} :
              work[x] # Reports!NoWork => work[x].job # work[w].job

\* A job that exists has an owner; one that was moved exists and has another.
Owned(j) ==
    /\ job[j] = Reports!NoJob \/ job[j].owner \in Users
    /\ \A u \in Users : <<u, j>> \in moved => job[j] # Reports!NoJob /\ job[j].owner # u

JobsInOrder ==
    /\ \A w \in Workers : Working(w)
    /\ \A j \in Jobs : Owned(j)

\* What the source holds in a service was given to it late.
HeldLate(s, u) == Holds(s, u) => <<u, s>> \in late

\* So it is for the services that were looked into.
Looked(u) ==
    /\ attempt[u].stage = "look" =>
         \A i \in 1 .. attempt[u].next - 1 : HeldLate(Services[i], u)
    /\ attempt[u].stage = "complete" \/ handover[u].status = "COMPLETED" =>
         \A s \in ServiceNames : HeldLate(s, u)

IInv ==
    /\ TypeOK /\ Orderly /\ Reserved /\ JobsInOrder
    /\ \A u \in Users : Looked(u)

-----------------------------------------------------------------------------
(* Types of rows.                                                          *)

\* A row without an account, and rows that are like a typed one but for a field.
LEMMA RowsAreTyped ==
    ASSUME NEW r \in AccountRows, NEW status \in Statuses, NEW roles \in SUBSET Roles
    PROVE  /\ [r EXCEPT !.status = status] \in AccountRows
           /\ [r EXCEPT !.roles = roles] \in AccountRows
           /\ Unlocked(r) \in AccountRows
           /\ NoAccount \in AccountRows
  <1>1. /\ [r EXCEPT !.status = status] \in AccountRows
        /\ [r EXCEPT !.roles = roles] \in AccountRows
    BY DEF AccountRows
  <1>2. Unlocked(r) \in AccountRows
    <2>1. CASE r.status = "LOCKED"
      <3>1. Unlocked(r) = [r EXCEPT !.status = "ACTIVE"]
        BY <2>1 DEF Unlocked, AccountRows
      <3> QED
        BY <3>1 DEF AccountRows, Statuses
    <2>2. CASE r.status # "LOCKED"
      <3>1. Unlocked(r) = r
        BY <2>2 DEF Unlocked, AccountRows
      <3> QED
        BY <3>1
    <2> QED
      BY <2>1, <2>2
  <1>3. NoAccount \in AccountRows
    BY DEF NoAccount, AccountRows, Statuses
  <1> QED
    BY <1>1, <1>2, <1>3

\* A call that reads a typed row and goes on with one is typed.
LEMMA ReadIsTyped ==
    ASSUME AccountsTypeOK, NEW c \in Calls, NEW u \in Users, NEW r \in AccountRows, Read(c, u, r)
    PROVE  AccountsTypeOK'
  <1>1. call' \in [Calls -> [user : Users \cup {None}, row : AccountRows, read : AccountRows]]
    BY DEF AccountsTypeOK, Read
  <1> QED
    BY <1>1 DEF AccountsTypeOK, Read

\* A login, or a call of an administrator or of the user, goes on with a row that leaves
\* alone what a handover wrote.
LEMMA ReadsKeepRows ==
    ASSUME AccountsTypeOK, AccountsExist, NEW c \in Calls, NEW u \in Users,
           \/ LogIn(c, u) \/ FailLogIn(c, u) \/ UnlockUser(c, u) \/ SaveProfile(c, u)
           \/ \E status \in {"ACTIVE", "DISABLED"} : SetStatus(c, u, status)
           \/ \E roles \in SUBSET Roles : SetRoles(c, u, roles) \/ CreateUser(c, u, roles)
    PROVE  \E row \in AccountRows : Read(c, u, row) /\ RowKept(account[u], row)
  <1> DEFINE a == account[u]
             Kept(row) == row \in AccountRows /\ RowKept(a, row)
  <1>1. a \in AccountRows /\ a = account[u]
    BY DEF AccountsTypeOK
  <1>2. /\ "ACTIVE" \in Statuses /\ "DISABLED" \in Statuses /\ "LOCKED" \in Statuses
    BY DEF Statuses
  <1> HIDE DEF a
  <1>3. ASSUME a.status # "NONE"
        PROVE  Kept(a)
    BY <1>1, <1>3 DEF RowKept
  <1>4. ASSUME a.status # "NONE", NEW status \in {"ACTIVE", "DISABLED", "LOCKED"},
               a.pending => a.status # "DISABLED"
        PROVE  Kept([a EXCEPT !.status = status])
    BY <1>1, <1>2, <1>4 DEF RowKept, AccountRows
  <1>5. ASSUME a.status # "NONE"
        PROVE  Kept(Unlocked(a))
    <2>1. CASE a.status = "LOCKED"
      <3>1. Unlocked(a) = [a EXCEPT !.status = "ACTIVE"]
        BY <1>1, <2>1 DEF Unlocked, AccountRows
      <3> QED
        BY <1>4, <2>1, <3>1
    <2>2. CASE a.status # "LOCKED"
      <3>1. Unlocked(a) = a
        BY <1>1, <2>2 DEF Unlocked, AccountRows
      <3> QED
        BY <1>3, <1>5, <3>1
    <2> QED
      BY <2>1, <2>2
  <1>6. ASSUME ~a.pending, ~a.deleted, a.status # "NONE", NEW roles \in SUBSET Roles
        PROVE  Kept([a EXCEPT !.roles = roles])
    BY <1>1, <1>6 DEF RowKept, AccountRows
  <1>7. ASSUME a.status = "NONE", NEW roles \in SUBSET Roles
        PROVE  Kept([NoAccount EXCEPT !.status = "ACTIVE", !.roles = roles])
    <2>1. a = NoAccount
      BY <1>1, <1>7 DEF AccountsExist
    <2> QED
      BY <1>2, <2>1 DEF RowKept, NoAccount, AccountRows
  <1>8. CASE LogIn(c, u)
    BY <1>1, <1>5, <1>8 DEF LogIn, MayLogIn, Exists
  <1>9. CASE FailLogIn(c, u)
    <2>1. a.status # "NONE" /\ a.status # "DISABLED"
      BY <1>1, <1>9 DEF FailLogIn, MayLogIn, Exists
    <2>2. Kept(Unlocked(a)) /\ Kept([a EXCEPT !.status = "LOCKED"])
      BY <1>4, <1>5, <2>1
    <2> QED
      BY <1>1, <1>9, <2>2 DEF FailLogIn
  <1>10. CASE UnlockUser(c, u)
    BY <1>1, <1>5, <1>10 DEF UnlockUser, Administrable, Exists
  <1>11. CASE SaveProfile(c, u)
    BY <1>1, <1>3, <1>11 DEF SaveProfile, Exists
  <1>12. ASSUME NEW status \in {"ACTIVE", "DISABLED"}, SetStatus(c, u, status)
         PROVE  \E row \in AccountRows : Read(c, u, row) /\ RowKept(account[u], row)
    <2>1. a.status # "NONE" /\ ~a.pending
      BY <1>1, <1>12 DEF SetStatus, Administrable, Exists
    <2>2. Kept([a EXCEPT !.status = status])
      BY <1>4, <2>1
    <2> QED
      BY <1>1, <1>12, <2>2 DEF SetStatus
  <1>13. ASSUME NEW roles \in SUBSET Roles, SetRoles(c, u, roles)
         PROVE  \E row \in AccountRows : Read(c, u, row) /\ RowKept(account[u], row)
    <2>1. a.status # "NONE" /\ ~a.pending /\ ~a.deleted
      BY <1>1, <1>13 DEF SetRoles, Administrable, Exists
    <2>2. Kept([a EXCEPT !.roles = roles])
      BY <1>6, <2>1
    <2> QED
      BY <1>1, <1>13, <2>2 DEF SetRoles
  <1>14. ASSUME NEW roles \in SUBSET Roles, CreateUser(c, u, roles)
         PROVE  \E row \in AccountRows : Read(c, u, row) /\ RowKept(account[u], row)
    <2>1. a.status = "NONE"
      BY <1>1, <1>14 DEF CreateUser, Exists
    <2>2. Kept([NoAccount EXCEPT !.status = "ACTIVE", !.roles = roles])
      BY <1>7, <2>1
    <2> QED
      BY <1>1, <1>14, <2>2 DEF CreateUser
  <1> QED
    BY <1>8, <1>9, <1>10, <1>11, <1>12, <1>13, <1>14

-----------------------------------------------------------------------------
(* The kinds of steps.                                                     *)

\* A call reads a row and keeps what a handover wrote, or saves its row.
CallStep ==
    /\ \/ \E c \in Calls, u \in Users, row \in AccountRows :
             Read(c, u, row) /\ RowKept(account[u], row)
       \/ \E c \in Calls : Save(c)
    /\ UNCHANGED <<job, work, duty, handover, attempt, moved, late>>

\* A worker claims a report, finishes it or stops.
WorkerStep ==
    /\ \E w \in Workers :
          (\E j \in Jobs : Reports!Claim(w, j)) \/ Reports!Finish(w) \/ Reports!StopWorking(w)
    /\ UNCHANGED <<account, call, stale, duty, handover, attempt, moved, late>>

\* A responsibility or a report is given to a user.
GiftStep ==
    \E u \in Users :
        (\E s \in Assigning : Assign(s, u)) \/ (\E j \in Jobs : RequestReport(j, u))

\* What an attempt does.
AttemptStep ==
    \E u \in Users :
        \/ \E v \in Users : Begin(u, v)
        \/ GiveUp(u) \/ Freeze(u) \/ Look(u) \/ Complete(u)
        \/ Move(u) \/ \E s \in ServiceNames : MoveBelatedly(u, s)

Step == CallStep \/ WorkerStep \/ GiftStep \/ AttemptStep

\* Every step is of one of these kinds.
LEMMA Steps ==
    ASSUME AccountsTypeOK, AccountsExist, Next
    PROVE  Step
  <1>0. ASSUME NEW c \in Calls, NEW u \in Users, UNCHANGED <<jobVars, handoverVars>>,
               \/ LogIn(c, u) \/ FailLogIn(c, u) \/ UnlockUser(c, u) \/ SaveProfile(c, u)
               \/ \E status \in {"ACTIVE", "DISABLED"} : SetStatus(c, u, status)
               \/ \E roles \in SUBSET Roles : SetRoles(c, u, roles) \/ CreateUser(c, u, roles)
        PROVE  Step
    <2>1. \E row \in AccountRows : Read(c, u, row) /\ RowKept(account[u], row)
      BY <1>0, ReadsKeepRows
    <2> QED
      BY <1>0, <2>1 DEF Step, CallStep, jobVars, handoverVars
  <1>1. ASSUME \E c \in Calls, u \in Users : LogIn(c, u) /\ UNCHANGED <<jobVars, handoverVars>>
        PROVE  Step
    BY <1>1, <1>0
  <1>2. ASSUME \E c \in Calls, u \in Users : FailLogIn(c, u) /\ UNCHANGED <<jobVars,
  handoverVars>>
        PROVE  Step
    BY <1>2, <1>0
  <1>3. ASSUME \E c \in Calls, u \in Users : UnlockUser(c, u) /\ UNCHANGED <<jobVars,
  handoverVars>>
        PROVE  Step
    BY <1>3, <1>0
  <1>4. ASSUME \E c \in Calls, u \in Users, status \in {"ACTIVE", "DISABLED"} :
                  SetStatus(c, u, status) /\ UNCHANGED <<jobVars, handoverVars>>
        PROVE  Step
    BY <1>4, <1>0
  <1>5. ASSUME \E c \in Calls, u \in Users, roles \in SUBSET Roles :
                  SetRoles(c, u, roles) /\ UNCHANGED <<jobVars, handoverVars>>
        PROVE  Step
    BY <1>5, <1>0
  <1>6. ASSUME \E c \in Calls, u \in Users, roles \in SUBSET Roles :
                  CreateUser(c, u, roles) /\ UNCHANGED <<jobVars, handoverVars>>
        PROVE  Step
    BY <1>6, <1>0
  <1>7. ASSUME \E c \in Calls, u \in Users : SaveProfile(c, u) /\ UNCHANGED <<jobVars,
  handoverVars>>
        PROVE  Step
    BY <1>7, <1>0
  <1>8. ASSUME \E c \in Calls : Save(c) /\ UNCHANGED <<jobVars, handoverVars>>
        PROVE  Step
    BY <1>8 DEF Step, CallStep, jobVars, handoverVars
  <1>9. ASSUME \E j \in Jobs, u \in Users : RequestReport(j, u)
        PROVE  Step
    BY <1>9 DEF Step, GiftStep
  <1>10. ASSUME \E w \in Workers, j \in Jobs :
                   Reports!Claim(w, j) /\ UNCHANGED <<accountVars, handoverVars>>
         PROVE  Step
    BY <1>10 DEF Step, WorkerStep, accountVars, handoverVars
  <1>11. ASSUME \E w \in Workers : Reports!Finish(w) /\ UNCHANGED <<accountVars, handoverVars>>
         PROVE  Step
    BY <1>11 DEF Step, WorkerStep, accountVars, handoverVars
  <1>12. ASSUME \E w \in Workers : Reports!StopWorking(w) /\ UNCHANGED <<accountVars,
  handoverVars>>
         PROVE  Step
    BY <1>12 DEF Step, WorkerStep, accountVars, handoverVars
  <1>13. ASSUME \E s \in Assigning, u \in Users : Assign(s, u)
         PROVE  Step
    BY <1>13 DEF Step, GiftStep
  <1>14. ASSUME \E u, v \in Users : Begin(u, v)
         PROVE  Step
    BY <1>14 DEF Step, AttemptStep
  <1>15. ASSUME \E u \in Users : GiveUp(u)
         PROVE  Step
    BY <1>15 DEF Step, AttemptStep
  <1>16. ASSUME \E u \in Users : Freeze(u)
         PROVE  Step
    BY <1>16 DEF Step, AttemptStep
  <1>17. ASSUME \E u \in Users : Move(u)
         PROVE  Step
    BY <1>17 DEF Step, AttemptStep
  <1>18. ASSUME \E u \in Users, s \in ServiceNames : MoveBelatedly(u, s)
         PROVE  Step
    BY <1>18 DEF Step, AttemptStep
  <1>19. ASSUME \E u \in Users : Look(u)
         PROVE  Step
    BY <1>19 DEF Step, AttemptStep
  <1>20. ASSUME \E u \in Users : Complete(u)
         PROVE  Step
    BY <1>20 DEF Step, AttemptStep
  <1> QED
    BY <1>1, <1>2, <1>3, <1>4, <1>5, <1>6, <1>7, <1>8, <1>9, <1>10, <1>11, <1>12, <1>13, <1>14,
       <1>15, <1>16, <1>17, <1>18, <1>19, <1>20 DEF Next

-----------------------------------------------------------------------------
(* What a handover does to the accounts.                                   *)

\* The transaction that freezes the account.
LEMMA FreezeChanges ==
    ASSUME AccountsTypeOK, AccountsExist, NEW u \in Users, Attempted(u), Freeze(u)
    PROVE  LET v == attempt[u].target IN
           /\ v \in Users \ {u}
           /\ account' \in [Users -> AccountRows]
           /\ account'[u].status = "DISABLED" /\ account'[u].pending
           /\ account'[v].pending /\ account'[v].status # "NONE"
           /\ \A w \in Users \ {u, v} : account'[w] = account[w]
           /\ ~account[u].pending /\ ~account[u].deleted
           /\ ~account[v].pending /\ ~account[v].deleted
  <1> DEFINE v == attempt[u].target
             b == [account EXCEPT ![v] = Successor(v)]
             r == [account[u] EXCEPT !.status = "DISABLED", !.pending = TRUE]
  <1>1. v \in Users \ {u}
    BY DEF Attempted, Freeze
  <1>2. account[u] \in AccountRows /\ account[v] \in AccountRows
    BY <1>1 DEF AccountsTypeOK
  <1>3. Successor(v) \in AccountRows /\ Successor(v).pending /\ Successor(v).status # "NONE"
    <2>1. CASE Exists(v)
      BY <1>2, <2>1 DEF Successor, Exists, AccountRows
    <2>2. CASE ~Exists(v)
      BY <2>2 DEF Successor, NoAccount, AccountRows, Statuses
    <2> QED
      BY <2>1, <2>2
  <1>4. r \in AccountRows /\ r.status = "DISABLED" /\ r.pending
    BY <1>2 DEF AccountRows, Statuses
  <1>5. b \in [Users -> AccountRows] /\ b[u] = account[u] /\ b[v] = Successor(v)
    BY <1>1, <1>3 DEF AccountsTypeOK
  <1>6. account' = [b EXCEPT ![u].status = "DISABLED", ![u].pending = TRUE]
    BY Zenon DEF Freeze
  <1>7. account' = [b EXCEPT ![u] = [b[u] EXCEPT !.status = "DISABLED", !.pending = TRUE]]
    BY <1>6, Zenon
  <1>8. account' = [b EXCEPT ![u] = r]
    BY <1>5, <1>7
  <1>9. /\ account' \in [Users -> AccountRows] /\ account'[u] = r /\ account'[v] = Successor(v)
        /\ \A w \in Users \ {u, v} : account'[w] = account[w]
    <2>1. \A w \in Users \ {u, v} : b[w] = account[w]
      BY <1>1 DEF AccountsTypeOK
    <2> HIDE DEF r, b
    <2> QED
      BY <1>1, <1>4, <1>5, <1>8, <2>1
  <1>10. ~account[u].pending /\ ~account[u].deleted
    BY DEF Freeze, MayStart
  <1>11. ~account[v].pending /\ ~account[v].deleted
    <2>1. CASE Exists(v)
      BY <2>1 DEF Freeze, MaySucceed
    <2>2. CASE ~Exists(v)
      BY <1>1, <2>2 DEF Exists, AccountsExist, NoAccount
    <2> QED
      BY <2>1, <2>2
  <1> HIDE DEF r, b
  <1> QED
    BY <1>1, <1>3, <1>4, <1>9, <1>10, <1>11

\* The transaction that archives the account.
LEMMA CompleteChanges ==
    ASSUME AccountsTypeOK, NEW u \in Users, Attempted(u), Complete(u),
           handover[u].roles \in SUBSET Roles
    PROVE  LET v == handover[u].target IN
           /\ v \in Users \ {u}
           /\ account' \in [Users -> AccountRows]
           /\ account'[u].deleted /\ account'[u].roles = {} /\ account'[u].status # "NONE"
           /\ account'[v].status # "NONE" /\ ~account[v].deleted
           /\ \A w \in Users \ {u, v} : account'[w] = account[w]
  <1> DEFINE v == handover[u].target
             roles == account[v].roles \cup handover[u].roles
             p == [account[v] EXCEPT !.roles = roles, !.status = "ACTIVE", !.pending = FALSE]
             r == [account[u] EXCEPT !.roles = {}, !.status = "DISABLED", !.pending = FALSE,
                                     !.deleted = TRUE]
             b == [account EXCEPT ![v] = p]
  <1>1. v \in Users \ {u}
    BY DEF Attempted, Complete
  <1>2. account[u] \in AccountRows /\ account[v] \in AccountRows
    BY <1>1 DEF AccountsTypeOK
  <1>3. p \in AccountRows /\ p.status = "ACTIVE"
    BY <1>2 DEF AccountRows, Statuses
  <1>4. r \in AccountRows /\ r.deleted /\ r.roles = {} /\ r.status = "DISABLED"
    BY <1>2 DEF AccountRows, Statuses
  <1>5. b \in [Users -> AccountRows] /\ b[u] = account[u] /\ b[v] = p
    <2> HIDE DEF p
    <2> QED
      BY <1>1, <1>3 DEF AccountsTypeOK
  <1>6. account' = [b EXCEPT ![u] = [b[u] EXCEPT !.roles = {}, !.status = "DISABLED",
                                                 !.pending = FALSE, !.deleted = TRUE]]
    BY Zenon DEF Complete
  <1>7. account' = [b EXCEPT ![u] = r]
    BY <1>5, <1>6, Zenon
  <1>8. /\ account' \in [Users -> AccountRows] /\ account'[u] = r /\ account'[v] = p
        /\ \A w \in Users \ {u, v} : account'[w] = account[w]
    <2>1. \A w \in Users \ {u, v} : b[w] = account[w]
      <3> HIDE DEF p
      <3> QED
        BY <1>1 DEF AccountsTypeOK
    <2> HIDE DEF r, b, p
    <2> QED
      BY <1>1, <1>4, <1>5, <1>7, <2>1
  <1>9. ~account[v].deleted
    BY DEF Complete, StillSucceeds
  <1> HIDE DEF r, b, p
  <1> QED
    BY <1>1, <1>3, <1>4, <1>8, <1>9

-----------------------------------------------------------------------------
(* What the services keep.                                                 *)

DutyTypes ==
    /\ Reports!JobsTypeOK
    /\ duty \in [Assigning -> SUBSET Users]
    /\ moved \subseteq Users \X Jobs
    /\ late \subseteq Users \X ServiceNames

\* What a user whose handover has begun holds late, it goes on holding late.
Remains ==
    \A x \in Users, t \in ServiceNames :
        handover[x].status # "NONE" /\ HeldLate(t, x) => HeldLate(t, x)'

\* A worker leaves every report with its owner.
LEMMA WorkersKeep ==
    ASSUME DutyTypes, JobsInOrder, WorkerStep
    PROVE  DutyTypes' /\ JobsInOrder' /\ Remains
  <1> DEFINE Goal == /\ Reports!JobsTypeOK' /\ JobsInOrder'
                     /\ \A j \in Jobs : job'[j].owner = job[j].owner
  <1> USE DEF DutyTypes, JobsInOrder, Reports!JobsTypeOK, Reports!JobStatuses
  <1>0. moved' = moved /\ None \notin Users
    BY NoneAssumption DEF WorkerStep
  <1>1. ASSUME NEW w \in Workers, NEW j \in Jobs, Reports!Claim(w, j)
        PROVE  Goal
    <2>1. /\ job'[j] = [owner |-> job[j].owner, status |-> "RUNNING"]
          /\ \A k \in Jobs \ {j} : job'[k] = job[k]
          /\ job' \in [Jobs -> [owner : Users \cup {None}, status : Reports!JobStatuses]]
      BY <1>1 DEF Reports!Claim
    <2>2. /\ work'[w] = [job |-> j, owner |-> job[j].owner]
          /\ \A x \in Workers \ {w} : work'[x] = work[x]
          /\ work' \in [Workers -> [job : Jobs \cup {None}, owner : Users \cup {None}]]
      BY <1>1 DEF Reports!Claim
    <2>3. job[j].status = "QUEUED" /\ job[j] # Reports!NoJob /\ job[j].owner \in Users
      BY <1>1 DEF Reports!Claim, Owned, Reports!NoJob
    <2>4. \A x \in Workers : work[x] # Reports!NoWork => work[x].job # j
      <3>1. ASSUME NEW x \in Workers, work[x] # Reports!NoWork
            PROVE  job[work[x].job].status = "RUNNING"
        <4>1. job[work[x].job] = [owner |-> work[x].owner, status |-> "RUNNING"]
          BY <3>1 DEF Working
        <4> QED
          BY <4>1
      <3> QED
        BY <2>3, <3>1
    <2>5. ASSUME NEW x \in Workers
          PROVE  Working(x)'
      <3>1. CASE x = w
        BY <2>1, <2>2, <2>3, <2>4, <3>1 DEF Working
      <3>2. CASE x # w
        <4>1. work'[x] = work[x] /\ Working(x)
          BY <2>2, <3>2
        <4> QED
          BY <2>1, <2>2, <2>4, <4>1 DEF Working
      <3> QED
        BY <3>1, <3>2
    <2>6. \A k \in Jobs : Owned(k)'
      BY <1>0, <2>1, <2>3 DEF Owned, Reports!NoJob
    <2> QED
      BY <2>1, <2>2, <2>5, <2>6
  <1>2. ASSUME NEW w \in Workers, Reports!Finish(w)
        PROVE  Goal
    <2> DEFINE j == work[w].job
    <2>1. /\ j \in Jobs /\ work[w].owner \in Users
          /\ job[j] = [owner |-> work[w].owner, status |-> "RUNNING"]
          /\ \A x \in Workers \ {w} : work[x] # Reports!NoWork => work[x].job # j
      BY <1>2 DEF Reports!Finish, Working
    <2>2. /\ job'[j] = [owner |-> work[w].owner, status |-> "DONE"]
          /\ \A k \in Jobs \ {j} : job'[k] = job[k]
          /\ job' \in [Jobs -> [owner : Users \cup {None}, status : Reports!JobStatuses]]
      BY <1>2, <2>1 DEF Reports!Finish
    <2>3. /\ work'[w] = Reports!NoWork
          /\ \A x \in Workers \ {w} : work'[x] = work[x]
          /\ work' \in [Workers -> [job : Jobs \cup {None}, owner : Users \cup {None}]]
      BY <1>2 DEF Reports!Finish, Reports!NoWork
    <2> HIDE DEF j
    <2>4. \A x \in Workers : Working(x)'
      BY <2>1, <2>2, <2>3 DEF Working
    <2>5. \A k \in Jobs : Owned(k)'
      BY <1>0, <2>1, <2>2 DEF Owned, Reports!NoJob
    <2>6. \A k \in Jobs : job'[k].owner = job[k].owner
      BY <2>1, <2>2
    <2> QED
      BY <2>2, <2>3, <2>4, <2>5, <2>6
  <1>3. ASSUME NEW w \in Workers, Reports!StopWorking(w)
        PROVE  Goal
    <2>1. /\ work'[w] = Reports!NoWork
          /\ \A x \in Workers \ {w} : work'[x] = work[x]
          /\ work' \in [Workers -> [job : Jobs \cup {None}, owner : Users \cup {None}]]
          /\ job' = job
      BY <1>3 DEF Reports!StopWorking, Reports!NoWork
    <2>2. \A x \in Workers : Working(x)'
      BY <2>1 DEF Working
    <2>3. \A k \in Jobs : Owned(k)'
      BY <1>0, <2>1 DEF Owned
    <2> QED
      BY <2>1, <2>2, <2>3
  <1>4. Goal
    BY <1>1, <1>2, <1>3 DEF WorkerStep
  <1>5. \A x \in Users : Reports!OwnedBy(x)' = Reports!OwnedBy(x)
    BY <1>4 DEF Reports!OwnedBy
  <1>6. Remains
    BY <1>5 DEF Remains, HeldLate, Holds, WorkerStep
  <1>7. duty' = duty /\ late' = late
    BY DEF WorkerStep
  <1> QED
    BY <1>0, <1>4, <1>6, <1>7

\* What a user is given after its handover has begun is recorded as late.
LEMMA GiftsKeep ==
    ASSUME DutyTypes, JobsInOrder, GiftStep
    PROVE  DutyTypes' /\ JobsInOrder' /\ Remains
  <1> USE DEF DutyTypes, JobsInOrder, Reports!JobsTypeOK, Reports!JobStatuses
  <1>0. None \notin Users
    BY NoneAssumption
  <1>1. ASSUME NEW u \in Users, NEW s \in Assigning, Assign(s, u)
        PROVE  DutyTypes' /\ JobsInOrder' /\ Remains
    <2>1. /\ duty' \in [Assigning -> SUBSET Users]
          /\ duty'[s] = duty[s] \cup {u}
          /\ \A t \in Assigning \ {s} : duty'[t] = duty[t]
      BY <1>1 DEF Assign
    <2>2. /\ late' \subseteq Users \X ServiceNames /\ late \subseteq late'
          /\ handover[u].status # "NONE" => <<u, s>> \in late'
      BY <1>1 DEF Assign, Late, Assigning
    <2>3. job' = job /\ work' = work /\ moved' = moved
      BY <1>1 DEF Assign, jobVars
    <2>4. \A x \in Users : Reports!OwnedBy(x)' = Reports!OwnedBy(x)
      BY <2>3 DEF Reports!OwnedBy
    <2>5. Remains
      BY <2>1, <2>2, <2>4 DEF Remains, HeldLate, Holds, Assigning
    <2>6. JobsInOrder'
      BY <2>3 DEF Working, Owned
    <2> QED
      BY <2>1, <2>2, <2>3, <2>5, <2>6
  <1>2. ASSUME NEW u \in Users, NEW j \in Jobs, RequestReport(j, u)
        PROVE  DutyTypes' /\ JobsInOrder' /\ Remains
    <2>1. /\ job[j] = Reports!NoJob
          /\ job'[j] = [owner |-> u, status |-> "QUEUED"]
          /\ \A k \in Jobs \ {j} : job'[k] = job[k]
          /\ job' \in [Jobs -> [owner : Users \cup {None}, status : Reports!JobStatuses]]
      BY <1>2 DEF RequestReport, Reports!CreateJob
    <2>2. /\ late' \subseteq Users \X ServiceNames /\ late \subseteq late'
          /\ handover[u].status # "NONE" => <<u, "reporting">> \in late'
      BY <1>2, ServicesAssumption DEF RequestReport, Late, ServiceNames
    <2>3. work' = work /\ moved' = moved /\ duty' = duty
      BY <1>2 DEF RequestReport, Reports!CreateJob
    <2>4. ASSUME NEW x \in Users \ {u}
          PROVE  Reports!OwnedBy(x)' = Reports!OwnedBy(x)
      <3>1. job[j].owner # x /\ job'[j].owner # x
        BY <1>0, <2>1 DEF Reports!NoJob
      <3>2. \A k \in Jobs : job'[k].owner = x <=> job[k].owner = x
        BY <2>1, <3>1
      <3> QED
        BY <3>2 DEF Reports!OwnedBy
    <2>5. Remains
      <3>1. \A x \in Users \ {u}, t \in ServiceNames : Holds(t, x)' <=> Holds(t, x)
        BY <2>3, <2>4 DEF Holds
      <3>2. \A x \in Users, t \in ServiceNames \ {"reporting"} : Holds(t, x)' <=> Holds(t, x)
        BY <2>3 DEF Holds
      <3> QED
        BY <2>2, <3>1, <3>2 DEF Remains, HeldLate
    <2>6. \A w \in Workers : Working(w)'
      BY <2>1, <2>3 DEF Working, Reports!NoJob
    <2>7. \A k \in Jobs : Owned(k)'
      BY <1>0, <2>1, <2>3 DEF Owned, Reports!NoJob
    <2> QED
      BY <2>1, <2>2, <2>3, <2>5, <2>6, <2>7
  <1> QED
    BY <1>1, <1>2 DEF GiftStep

\* A service moves what the source holds to the other user, and no report that is
\* being generated.
LEMMA MovesKeep ==
    ASSUME DutyTypes, JobsInOrder, NEW u \in Users, NEW s \in ServiceNames,
           handover[u].target \in Users \ {u}, MoveHoldings(s, u)
    PROVE  DutyTypes' /\ JobsInOrder' /\ Remains
  <1> USE DEF DutyTypes, JobsInOrder, Reports!JobsTypeOK, Reports!JobStatuses
  <1>0. None \notin Users
    BY NoneAssumption
  <1>a. PICK v \in Users \ {u} : v = handover[u].target
    OBVIOUS
  <1>1. work' = work /\ handover' = handover
    BY DEF MoveHoldings
  <1>2. /\ late' \subseteq Users \X ServiceNames /\ late \subseteq late'
        /\ Holds(s, u) /\ handover[v].status # "NONE" => <<v, s>> \in late'
    BY <1>a DEF MoveHoldings, Late
  <1>3. CASE s = "reporting"
    <2>1. /\ \A j \in Jobs : job[j].owner = u =>
                job'[j].owner = v /\ job'[j].status = job[j].status
          /\ \A j \in Jobs : job[j].owner # u => job'[j] = job[j]
          /\ job' \in [Jobs -> [owner : Users \cup {None}, status : Reports!JobStatuses]]
      BY <1>0, <1>a, <1>3 DEF MoveHoldings, Reports!MoveJobs
    <2>2. /\ duty' = duty
          /\ moved' = (moved \ ({v} \X Reports!OwnedBy(u))) \cup ({u} \X Reports!OwnedBy(u))
      BY <1>3, <1>a DEF MoveHoldings
    <2>3. moved' \subseteq Users \X Jobs
      BY <2>2 DEF Reports!OwnedBy
    <2>4. \A w \in Workers : Working(w)'
      <3>1. ASSUME NEW w \in Workers, work[w] # Reports!NoWork
            PROVE  job[work[w].job].owner # u /\ work[w].job \in Jobs
        <4>1. job[work[w].job] = [owner |-> work[w].owner, status |-> "RUNNING"]
          BY <3>1 DEF Working
        <4>2. work[w].job \in Jobs
          BY <3>1 DEF Working
        <4>3. ~Reports!RunningFor(u)
          BY <1>3 DEF MoveHoldings, MayMove
        <4> QED
          BY <4>1, <4>2, <4>3 DEF Reports!RunningFor
      <3>2. \A w \in Workers : work[w] # Reports!NoWork => job'[work[w].job] = job[work[w].job]
        BY <2>1, <3>1
      <3> QED
        BY <1>1, <3>2 DEF Working
    <2>5. \A j \in Jobs : Owned(j)'
      <3>1. ASSUME NEW j \in Jobs, job[j].owner = u
            PROVE  Owned(j)'
        <4>1. job'[j].owner = v /\ v \in Users /\ v # u
          BY <1>0, <1>a, <2>1, <3>1
        <4>2. \A x \in Users : <<x, j>> \in moved' => x # v
          BY <2>2, <3>1, <4>1 DEF Reports!OwnedBy
        <4> QED
          BY <1>0, <1>a, <4>1, <4>2 DEF Owned, Reports!NoJob
      <3>2. ASSUME NEW j \in Jobs, job[j].owner # u
            PROVE  Owned(j)'
        <4>1. job'[j] = job[j]
          BY <2>1, <3>2
        <4>2. \A x \in Users : <<x, j>> \in moved' => <<x, j>> \in moved
          BY <2>2, <3>2 DEF Reports!OwnedBy
        <4> QED
          BY <4>1, <4>2 DEF Owned, Reports!NoJob
      <3> QED
        BY <3>1, <3>2
    <2>6. /\ Reports!OwnedBy(u)' = {}
          /\ \A x \in Users \ {u, v} : Reports!OwnedBy(x)' = Reports!OwnedBy(x)
          /\ Reports!OwnedBy(v)' \subseteq Reports!OwnedBy(v) \cup Reports!OwnedBy(u)
      <3>1. \A j \in Jobs : job'[j].owner = IF job[j].owner = u THEN v ELSE job[j].owner
        BY <2>1
      <3>2. u # v
        BY <1>0, <1>a
      <3>3. Reports!OwnedBy(u)' = {}
        BY <3>1, <3>2 DEF Reports!OwnedBy
      <3>4. \A x \in Users \ {u, v} : Reports!OwnedBy(x)' = Reports!OwnedBy(x)
        BY <3>1, <3>2 DEF Reports!OwnedBy
      <3>5. Reports!OwnedBy(v)' \subseteq Reports!OwnedBy(v) \cup Reports!OwnedBy(u)
        BY <3>1, <3>2 DEF Reports!OwnedBy
      <3> QED
        BY <3>3, <3>4, <3>5
    <2>7. Remains
      <3> SUFFICES ASSUME NEW x \in Users, NEW t \in ServiceNames, handover[x].status # "NONE",
                          HeldLate(t, x), Holds(t, x)'
                   PROVE  <<x, t>> \in late'
        BY DEF Remains, HeldLate
      <3>1. CASE t # s \/ x \notin {u, v}
        <4>1. Holds(t, x)
          BY <1>3, <2>2, <2>6, <3>1 DEF Holds
        <4> QED
          BY <1>2, <4>1 DEF HeldLate
      <3>2. CASE t = s /\ x = u
        BY <1>3, <2>6, <3>2 DEF Holds
      <3>3. CASE t = s /\ x = v
        <4>1. Holds(t, x) \/ Holds(s, u)
          <5>1. Reports!OwnedBy(v)' # {}
            BY <1>3, <3>3 DEF Holds
          <5>2. Reports!OwnedBy(v) # {} \/ Reports!OwnedBy(u) # {}
            BY <2>6, <5>1
          <5> QED
            BY <1>3, <3>3, <5>2 DEF Holds
        <4> QED
          BY <1>2, <3>3, <4>1 DEF HeldLate
      <3> QED
        BY <3>1, <3>2, <3>3
    <2> QED
      BY <1>1, <1>2, <2>1, <2>2, <2>3, <2>4, <2>5, <2>7
  <1>4. CASE s # "reporting"
    <2>1. s \in Assigning
      BY <1>4 DEF Assigning
    <2>2. job' = job /\ moved' = moved
      BY <1>4, <1>a DEF MoveHoldings
    <2>3. /\ duty' \in [Assigning -> SUBSET Users]
          /\ duty'[s] = IF u \in duty[s] THEN (duty[s] \ {u}) \cup {v} ELSE duty[s]
          /\ \A t \in Assigning \ {s} : duty'[t] = duty[t]
      <3>1. duty' = [duty EXCEPT ![s] = IF u \in duty[s] THEN (duty[s] \ {u}) \cup {v}
                                        ELSE duty[s]]
        BY <1>4, <1>a DEF MoveHoldings
      <3> QED
        BY <1>0, <1>a, <2>1, <3>1
    <2>4. JobsInOrder'
      BY <1>1, <2>2 DEF Working, Owned
    <2>5. \A x \in Users : Reports!OwnedBy(x)' = Reports!OwnedBy(x)
      BY <2>2 DEF Reports!OwnedBy
    <2>6. Remains
      BY <1>0, <1>a, <1>2, <1>4, <2>1, <2>3, <2>5 DEF Remains, HeldLate, Holds, Assigning
    <2> QED
      BY <1>1, <1>2, <2>2, <2>3, <2>4, <2>6
  <1> QED
    BY <1>3, <1>4

-----------------------------------------------------------------------------
(* What handovers and attempts are.                                        *)

HandoverTypes ==
    /\ handover \in [Users -> [target : Users \cup {None}, roles : SUBSET Roles,
                               status : {"NONE", "PENDING", "COMPLETED"}, created : BOOLEAN]]
    /\ attempt \in [Users -> [stage : Stages, target : Users \cup {None},
                              next : 1 .. Len(Services) + 1]]

\* The stage that follows a call.
LEMMA AfterIs ==
    ASSUME NEW a \in [stage : Stages, target : Users \cup {None}, next : 1 .. Len(Services) + 1],
           a.stage \in {"move", "look"}, a.next <= Len(Services)
    PROVE  /\ After(a) \in [stage : Stages, target : Users \cup {None},
                            next : 1 .. Len(Services) + 1]
           /\ After(a).next <= Len(Services)
           /\ \/ After(a).stage = a.stage /\ After(a).next = a.next + 1
              \/ /\ a.next = Len(Services) /\ After(a).next = 1
                 /\ After(a).stage = IF a.stage = "move" THEN "look" ELSE "complete"
  <1> DEFINE n == Len(Services)
  <1>1. n \in Nat
    BY ServicesAssumption
  <1>2. CASE a.next < n
    BY <1>1, <1>2 DEF After, Stages
  <1>3. CASE ~(a.next < n)
    <2>1. a.next = n
      BY <1>1, <1>3
    <2>2. CASE a.stage = "move"
      <3>1. After(a) = [a EXCEPT !.next = 1, !.stage = "look"]
        BY <1>3, <2>2 DEF After
      <3>2. 1 \in 1 .. n + 1 /\ 1 <= n /\ "look" \in Stages
        BY <1>1, <2>1 DEF Stages
      <3>3. /\ After(a).next = 1 /\ After(a).stage = "look"
            /\ After(a) \in [stage : Stages, target : Users \cup {None}, next : 1 .. n + 1]
        BY <3>1, <3>2
      <3> QED
        BY <2>1, <2>2, <3>2, <3>3
    <2>3. CASE a.stage = "look"
      <3>1. After(a) = [a EXCEPT !.next = 1, !.stage = "complete"]
        BY <1>3, <2>3 DEF After
      <3>2. 1 \in 1 .. n + 1 /\ 1 <= n /\ "complete" \in Stages
        BY <1>1, <2>1 DEF Stages
      <3>3. /\ After(a).next = 1 /\ After(a).stage = "complete"
            /\ After(a) \in [stage : Stages, target : Users \cup {None}, next : 1 .. n + 1]
        BY <3>1, <3>2
      <3> QED
        BY <2>1, <2>3, <3>2, <3>3
    <2> QED
      BY <2>2, <2>3
  <1> QED
    BY <1>2, <1>3

\* A handover that has begun goes to another user, and an attempt knows what it does.
LEMMA AttemptsKnow ==
    ASSUME HandoverTypes, AccountsTypeOK, \A u \in Users : Attempted(u), Step
    PROVE  HandoverTypes' /\ \A u \in Users : Attempted(u)'
  <1> USE DEF HandoverTypes
  <1> DEFINE n == Len(Services)
             Goal == HandoverTypes' /\ \A u \in Users : Attempted(u)'
  <1>0. n \in Nat \ {0}
    BY ServicesAssumption
  <1>1. ASSUME handover' = handover, attempt' = attempt
        PROVE  Goal
    BY <1>1 DEF Attempted
  <1>2. ASSUME NEW u \in Users, handover' = handover, NEW a,
  attempt' = [attempt EXCEPT ![u] = a],
               a \in [stage : Stages, target : Users \cup {None}, next : 1 .. n + 1],
               a.next <= n,
               a.stage = "plan" => handover[u].status = "NONE" /\ a.target \in Users \ {u},
               a.stage \in {"move", "look", "complete"} => handover[u].status = "PENDING"
        PROVE  Goal
    BY <1>2 DEF Attempted
  <1>3. ASSUME NEW u \in Users, NEW v \in Users, Begin(u, v)
        PROVE  Goal
    <2> DEFINE a == [stage |-> IF handover[u].status = "NONE" THEN "plan" ELSE "move",
                     target |-> v, next |-> 1]
    <2>1. attempt' = [attempt EXCEPT ![u] = a] /\ handover' = handover /\ u # v
      BY <1>3 DEF Begin
    <2>2. a \in [stage : Stages, target : Users \cup {None}, next : 1 .. n + 1] /\ a.next <= n
      BY <1>0 DEF Stages
    <2>3. /\ a.stage = "plan" => handover[u].status = "NONE" /\ a.target \in Users \ {u}
          /\ a.stage \in {"move", "look", "complete"} => handover[u].status = "PENDING"
      BY <1>3, <2>1 DEF Begin
    <2> HIDE DEF a
    <2> QED
      BY <1>2, <2>1, <2>2, <2>3
  <1>4. ASSUME NEW u \in Users, GiveUp(u)
        PROVE  Goal
    <2>1. attempt' = [attempt EXCEPT ![u] = NoAttempt] /\ handover' = handover
      BY <1>4 DEF GiveUp
    <2>2. /\ NoAttempt \in [stage : Stages, target : Users \cup {None}, next : 1 .. n + 1]
          /\ NoAttempt.next <= n /\ NoAttempt.stage = "none"
      BY <1>0 DEF NoAttempt, Stages
    <2> QED
      BY <1>2, <2>1, <2>2
  <1>5. ASSUME NEW u \in Users, attempt[u].stage \in {"move", "look"}, handover' = handover,
               attempt' = [attempt EXCEPT ![u] = After(attempt[u])]
        PROVE  Goal
    <2>1. attempt[u].next <= n /\ handover[u].status = "PENDING"
      BY <1>5 DEF Attempted
    <2>2. After(attempt[u]).stage \in {"move", "look", "complete"}
      BY <1>5, <2>1, AfterIs
    <2> QED
      BY <1>2, <1>5, <2>1, <2>2, AfterIs
  <1>6. ASSUME NEW u \in Users, Look(u) \/ Move(u)
        PROVE  Goal
    BY <1>5, <1>6 DEF Look, Move, MoveHoldings
  <1>7. ASSUME NEW u \in Users, NEW s \in ServiceNames, MoveBelatedly(u, s)
        PROVE  Goal
    BY <1>1, <1>7 DEF MoveBelatedly, MoveHoldings
  <1>8. ASSUME NEW u \in Users, Freeze(u)
        PROVE  Goal
    <2> DEFINE v == attempt[u].target
               h == [target |-> v, roles |-> account[u].roles, status |-> "PENDING",
                     created |-> ~Exists(v)]
    <2>1. v \in Users \ {u} /\ attempt[u].next <= n
      BY <1>8 DEF Freeze, Attempted
    <2>2. /\ h \in [target : Users \cup {None}, roles : SUBSET Roles,
                    status : {"NONE", "PENDING", "COMPLETED"}, created : BOOLEAN]
          /\ h.status = "PENDING" /\ h.target = v
      BY <2>1 DEF AccountsTypeOK, AccountRows, Exists
    <2>3. handover' = [handover EXCEPT ![u] = h]
      BY <1>8 DEF Freeze
    <2>4. /\ attempt'[u].stage = "move" /\ attempt'[u].next = attempt[u].next
          /\ \A w \in Users \ {u} : attempt'[w] = attempt[w]
          /\ attempt' \in [Users -> [stage : Stages, target : Users \cup {None},
                                     next : 1 .. n + 1]]
      BY <1>8 DEF Freeze, Stages
    <2> HIDE DEF h
    <2>5. handover'[u] = h /\ \A w \in Users \ {u} : handover'[w] = handover[w]
      BY <2>3
    <2>6. HandoverTypes'
      BY <2>2, <2>3, <2>4
    <2> QED
      BY <2>1, <2>2, <2>4, <2>5, <2>6 DEF Attempted
  <1>9. ASSUME NEW u \in Users, Complete(u)
        PROVE  Goal
    <2>1. /\ handover' = [handover EXCEPT ![u].status = "COMPLETED"]
          /\ attempt' = [attempt EXCEPT ![u] = NoAttempt]
          /\ handover[u].status = "PENDING"
      BY <1>9 DEF Complete, Attempted
    <2>2. /\ handover'[u].status = "COMPLETED" /\ handover'[u].target = handover[u].target
          /\ \A w \in Users \ {u} : handover'[w] = handover[w]
      BY <2>1
    <2>3. /\ attempt'[u] = NoAttempt /\ \A w \in Users \ {u} : attempt'[w] = attempt[w]
          /\ NoAttempt.stage = "none" /\ NoAttempt.next = 1
      BY <2>1 DEF NoAttempt
    <2>4. HandoverTypes'
      BY <1>0, <2>1 DEF NoAttempt, Stages
    <2> QED
      BY <1>0, <2>1, <2>2, <2>3, <2>4 DEF Attempted
  <1>10. CASE CallStep \/ WorkerStep
    BY <1>1, <1>10 DEF CallStep, WorkerStep
  <1>11. CASE GiftStep
    BY <1>1, <1>11 DEF GiftStep, Assign, RequestReport
  <1>12. CASE AttemptStep
    BY <1>3, <1>4, <1>6, <1>7, <1>8, <1>9, <1>12 DEF AttemptStep
  <1> QED
    BY <1>10, <1>11, <1>12 DEF Step

-----------------------------------------------------------------------------
(* Accounts.                                                               *)

\* Steps keep the types of accounts and of calls, and what calls may save.
LEMMA AccountsKeep ==
    ASSUME AccountsTypeOK, HandoverTypes, Orderly, Step
    PROVE  AccountsTypeOK' /\ AccountsExist' /\ \A c \in Calls : CallKept(c)'
  <1> USE DEF AccountsTypeOK, Orderly
  <1> DEFINE Goal == AccountsTypeOK' /\ AccountsExist' /\ \A c \in Calls : CallKept(c)'
  <1>1. ASSUME account' = account, call' = call, stale' = stale
        PROVE  Goal
    BY <1>1 DEF AccountsExist, CallKept
  <1>2. ASSUME NEW c \in Calls, NEW u \in Users, NEW row \in AccountRows,
               Read(c, u, row), RowKept(account[u], row)
        PROVE  Goal
    <2>1. AccountsTypeOK'
      BY <1>2, ReadIsTyped
    <2>2. account' = account
      BY <1>2 DEF Read
    <2>3. AccountsExist'
      BY <2>2 DEF AccountsExist
    <2>4. /\ call'[c] = [user |-> u, row |-> row, read |-> account[u]]
          /\ \A d \in Calls \ {c} : call'[d] = call[d]
      BY <1>2 DEF Read
    <2>5. \A d \in Calls : CallKept(d)'
      BY <1>2, <2>4 DEF CallKept
    <2> QED
      BY <2>1, <2>3, <2>5
  <1>3. ASSUME NEW c \in Calls, Save(c)
        PROVE  Goal
    <2> DEFINE u == call[c].user
    <2>1. u \in Users /\ call[c].row \in AccountRows /\ call[c].row.status # "NONE"
      BY <1>3 DEF Save, CallKept, RowKept
    <2>2. /\ call' \in [Calls -> [user : Users \cup {None}, row : AccountRows,
                              read : AccountRows]]
          /\ call'[c] = NoCall
          /\ \A d \in Calls \ {c} : call'[d] = call[d]
      <3>1. NoAccount \in AccountRows
        BY DEF NoAccount, AccountRows, Statuses
      <3>2. NoCall \in [user : Users \cup {None}, row : AccountRows, read : AccountRows]
        BY <3>1 DEF NoCall
      <3>3. call' = [call EXCEPT ![c] = NoCall]
        BY <1>3 DEF Save
      <3> QED
        BY <3>2, <3>3
    <2>3. \A d \in Calls : CallKept(d)'
      BY <2>2 DEF CallKept
    <2>4. CASE account' = account /\ stale' = stale
      BY <2>2, <2>3, <2>4 DEF AccountsExist
    <2>5. CASE account' = [account EXCEPT ![u] = call[c].row] /\ stale' \subseteq stale \cup {u}
      <3>1. /\ account' \in [Users -> AccountRows]
            /\ account'[u] = call[c].row
            /\ \A w \in Users \ {u} : account'[w] = account[w]
        BY <2>1, <2>5
      <3>2. stale' \subseteq Users
        BY <2>1, <2>5
      <3> HIDE DEF u
      <3>3. AccountsExist'
        BY <2>1, <3>1 DEF AccountsExist
      <3> QED
        BY <2>2, <2>3, <3>1, <3>2, <3>3
    <2> QED
      BY <1>3, <2>4, <2>5 DEF Save
  <1>4. ASSUME NEW u \in Users, Freeze(u)
        PROVE  Goal
    <2>1. call' = call /\ stale' = stale
      BY <1>4 DEF Freeze
    <2>2. /\ account' \in [Users -> AccountRows]
          /\ \A w \in Users : account'[w] = account[w] \/ account'[w].status # "NONE"
      BY <1>4, FreezeChanges
    <2> QED
      BY <2>1, <2>2 DEF AccountsExist, CallKept
  <1>5. ASSUME NEW u \in Users, Complete(u)
        PROVE  Goal
    <2>1. call' = call /\ stale' = stale
      BY <1>5 DEF Complete
    <2>2. handover[u].roles \in SUBSET Roles
      BY DEF HandoverTypes
    <2>3. /\ account' \in [Users -> AccountRows]
          /\ \A w \in Users : account'[w] = account[w] \/ account'[w].status # "NONE"
      BY <1>5, <2>2, CompleteChanges
    <2> QED
      BY <2>1, <2>3 DEF AccountsExist, CallKept
  <1>6. CASE CallStep
    BY <1>2, <1>3, <1>6 DEF CallStep
  <1>7. CASE WorkerStep
    BY <1>1, <1>7 DEF WorkerStep
  <1>8. CASE GiftStep
    BY <1>1, <1>8 DEF GiftStep, Assign, RequestReport, accountVars
  <1>9. CASE AttemptStep
    <2>1. ASSUME NEW u \in Users,
                 \/ \E v \in Users : Begin(u, v)
                 \/ GiveUp(u) \/ Look(u)
                 \/ Move(u) \/ \E s \in ServiceNames : MoveBelatedly(u, s)
          PROVE  Goal
      BY <1>1, <2>1 DEF Begin, GiveUp, Look, Move, MoveBelatedly, MoveHoldings, accountVars
    <2> QED
      BY <1>4, <1>5, <1>9, <2>1 DEF AttemptStep
  <1> QED
    BY <1>6, <1>7, <1>8, <1>9 DEF Step

\* An account whose row nobody overwrote stays reserved for one pending handover at most.
LEMMA ReservedKeeps ==
    ASSUME AccountsTypeOK, HandoverTypes, Orderly, Reserved, Step
    PROVE  Reserved'
  <1> USE DEF AccountsTypeOK, Orderly
  <1>1. ASSUME account' = account, stale' = stale, handover' = handover
        PROVE  Reserved'
    BY <1>1 DEF Reserved, Reserves
  <1>2. ASSUME NEW c \in Calls, Save(c), handover' = handover
        PROVE  Reserved'
    <2> DEFINE u == call[c].user
    <2>1. u \in Users /\ RowKept(call[c].read, call[c].row)
      BY <1>2 DEF Save, CallKept
    <2>2. CASE account' = account /\ stale' = stale
      BY <1>1, <1>2, <2>2
    <2>3. CASE /\ account' = [account EXCEPT ![u] = call[c].row]
               /\ stale' = IF account[u] # call[c].read THEN stale \cup {u} ELSE stale
      <3>1. /\ account'[u] = call[c].row
            /\ \A w \in Users \ {u} : account'[w] = account[w]
        BY <2>1, <2>3
      <3>2. u \notin stale' => RowKept(account[u], account'[u])
        BY <2>1, <2>3, <3>1
      <3>3. stale \subseteq stale'
        BY <2>3
      <3> HIDE DEF u
      <3>4. SUFFICES ASSUME NEW x \in Users \ stale'
                     PROVE  /\ \A w \in Users : Reserves(w, x)' => account'[x].pending
                            /\ \A w, y \in Users : Reserves(w, x)' /\ Reserves(y, x)' => w = y
                            /\ handover'[x].status = "PENDING" => account'[x].status = "DISABLED"
                            /\ handover'[x].status = "COMPLETED" =>
                                 account'[x].deleted /\ account'[x].roles = {}
        BY DEF Reserved
      <3>5. /\ \A w \in Users : Reserves(w, x) => account[x].pending
            /\ \A w, y \in Users : Reserves(w, x) /\ Reserves(y, x) => w = y
            /\ handover[x].status = "PENDING" => account[x].status = "DISABLED"
            /\ handover[x].status = "COMPLETED" => account[x].deleted /\ account[x].roles = {}
        BY <3>3 DEF Reserved
      <3>6. \A w \in Users : Reserves(w, x)' <=> Reserves(w, x)
        BY <1>2 DEF Reserves
      <3>7. account'[x] = account[x] \/ RowKept(account[x], account'[x])
        BY <3>1, <3>2
      <3>8. handover[x].status = "PENDING" => account[x].pending
        BY <3>5 DEF Reserves
      <3>9. CASE account'[x] = account[x]
        BY <1>2, <3>5, <3>6, <3>9
      <3>10. CASE RowKept(account[x], account'[x])
        BY <1>2, <3>5, <3>6, <3>8, <3>10 DEF RowKept
      <3> QED
        BY <3>7, <3>9, <3>10
    <2> QED
      BY <1>2, <2>2, <2>3 DEF Save
  <1>3. ASSUME NEW u \in Users, Freeze(u)
        PROVE  Reserved'
    <2>1. PICK v \in Users \ {u} : v = attempt[u].target
      BY <1>3 DEF Freeze, Attempted
    <2>2. /\ account'[u].status = "DISABLED" /\ account'[u].pending
          /\ account'[v].pending
          /\ \A w \in Users \ {u, v} : account'[w] = account[w]
          /\ ~account[u].pending /\ ~account[u].deleted
          /\ ~account[v].pending /\ ~account[v].deleted
      BY <1>3, <2>1, FreezeChanges
    <2>3. /\ handover'[u].status = "PENDING" /\ handover'[u].target = v
          /\ \A w \in Users \ {u} : handover'[w] = handover[w]
          /\ handover[u].status = "NONE" /\ stale' = stale
      BY <1>3, <2>1 DEF Freeze, HandoverTypes, Attempted
    <2>4. \A w, x \in Users : Reserves(w, x)' <=> Reserves(w, x) \/ (w = u /\ x \in {u, v})
      BY <2>3 DEF Reserves
    <2>5. \A x \in {u, v} \ stale, w \in Users : ~Reserves(w, x)
      BY <2>2 DEF Reserved
    <2>6. \A x \in Users \ stale : \A w \in Users : Reserves(w, x)' => account'[x].pending
      BY <2>2, <2>4 DEF Reserved
    <2>7. \A x \in Users \ stale :
            \A w, y \in Users : Reserves(w, x)' /\ Reserves(y, x)' => w = y
      BY <2>4, <2>5 DEF Reserved
    <2>8. v \notin stale => handover[v].status \notin {"PENDING", "COMPLETED"}
      BY <2>2, <2>5 DEF Reserved, Reserves
    <2>9. \A x \in Users \ stale :
            /\ handover'[x].status = "PENDING" => account'[x].status = "DISABLED"
            /\ handover'[x].status = "COMPLETED" => account'[x].deleted /\ account'[x].roles = {}
      BY <2>2, <2>3, <2>8 DEF Reserved
    <2> QED
      BY <2>3, <2>6, <2>7, <2>9 DEF Reserved
  <1>4. ASSUME NEW u \in Users, Complete(u)
        PROVE  Reserved'
    <2>0. handover[u].roles \in SUBSET Roles
      BY DEF HandoverTypes
    <2>1. PICK v \in Users \ {u} : v = handover[u].target
      BY <1>4 DEF Complete, Attempted
    <2>2. /\ account'[u].deleted /\ account'[u].roles = {} /\ ~account[v].deleted
          /\ \A w \in Users \ {u, v} : account'[w] = account[w]
      BY <1>4, <2>0, <2>1, CompleteChanges
    <2>3. /\ handover'[u].status = "COMPLETED" /\ handover[u].status = "PENDING"
          /\ \A w \in Users \ {u} : handover'[w] = handover[w]
          /\ stale' = stale
      <3>1. /\ handover' = [handover EXCEPT ![u].status = "COMPLETED"]
            /\ attempt[u].stage = "complete" /\ stale' = stale
        BY <1>4 DEF Complete
      <3>2. handover[u].status = "PENDING"
        BY <3>1 DEF Attempted
      <3> QED
        BY <3>1, <3>2 DEF HandoverTypes
    <2>4. \A w, x \in Users : Reserves(w, x)' <=> Reserves(w, x) /\ w # u
      BY <2>3 DEF Reserves
    <2>5. Reserves(u, u) /\ Reserves(u, v)
      BY <2>1, <2>3 DEF Reserves
    <2>6. \A x \in {u, v} \ stale, w \in Users : ~Reserves(w, x)'
      BY <2>4, <2>5 DEF Reserved
    <2>7. \A x \in Users \ stale : \A w \in Users : Reserves(w, x)' => account'[x].pending
      BY <2>2, <2>4, <2>6 DEF Reserved
    <2>8. \A x \in Users \ stale :
            \A w, y \in Users : Reserves(w, x)' /\ Reserves(y, x)' => w = y
      BY <2>4 DEF Reserved
    <2>9. v \notin stale => handover[v].status \notin {"PENDING", "COMPLETED"}
      BY <2>2, <2>5 DEF Reserved, Reserves
    <2>10. \A x \in Users \ stale :
             /\ handover'[x].status = "PENDING" => account'[x].status = "DISABLED"
             /\ handover'[x].status = "COMPLETED" => account'[x].deleted /\ account'[x].roles = {}
      BY <2>2, <2>3, <2>9 DEF Reserved
    <2> QED
      BY <2>3, <2>7, <2>8, <2>10 DEF Reserved
  <1>5. CASE CallStep
    BY <1>1, <1>2, <1>5 DEF CallStep, Read
  <1>6. CASE WorkerStep
    BY <1>1, <1>6 DEF WorkerStep
  <1>7. CASE GiftStep
    BY <1>1, <1>7 DEF GiftStep, Assign, RequestReport, accountVars
  <1>8. CASE AttemptStep
    <2>1. ASSUME NEW u \in Users,
                 \/ \E v \in Users : Begin(u, v)
                 \/ GiveUp(u) \/ Look(u)
                 \/ Move(u) \/ \E s \in ServiceNames : MoveBelatedly(u, s)
          PROVE  Reserved'
      BY <1>1, <2>1 DEF Begin, GiveUp, Look, Move, MoveBelatedly, MoveHoldings, accountVars
    <2> QED
      BY <1>3, <1>4, <1>8, <2>1 DEF AttemptStep
  <1> QED
    BY <1>5, <1>6, <1>7, <1>8 DEF Step

-----------------------------------------------------------------------------
(* What a look has found stays true.                                       *)

\* What is left in a service that was looked into was given out late.
LEMMA LookedKeeps ==
    ASSUME TypeOK, Orderly, Remains, \A u \in Users : Looked(u), Step
    PROVE  \A u \in Users : Looked(u)'
  <1> USE DEF TypeOK, Orderly
  <1> DEFINE n == Len(Services)
  <1>0. n \in Nat /\ ServiceNames = {Services[i] : i \in 1 .. n}
    BY ServicesAssumption DEF ServiceNames
  <1> SUFFICES ASSUME NEW u \in Users
               PROVE  Looked(u)'
    OBVIOUS
  <1>1. /\ attempt[u].stage \in {"move", "look", "complete"} => handover[u].status = "PENDING"
        /\ attempt[u].next \in 1 .. n + 1 /\ attempt[u].next <= n
    BY DEF Attempted
  <1>2. ASSUME attempt'[u] = attempt[u], handover'[u] = handover[u]
        PROVE  Looked(u)'
    <2>1. ASSUME attempt[u].stage = "look", NEW i \in 1 .. attempt[u].next - 1
          PROVE  HeldLate(Services[i], u)'
      <3>1. i \in 1 .. n
        BY <1>0, <1>1, <2>1
      <3>2. HeldLate(Services[i], u) /\ Services[i] \in ServiceNames
        BY <1>0, <2>1, <3>1 DEF Looked
      <3> QED
        BY <1>1, <2>1, <3>2 DEF Remains
    <2>2. ASSUME attempt[u].stage = "complete" \/ handover[u].status = "COMPLETED"
          PROVE  \A s \in ServiceNames : HeldLate(s, u)'
      BY <1>1, <2>2 DEF Remains, Looked
    <2> QED
      BY <1>2, <2>1, <2>2 DEF Looked
  <1>3. ASSUME attempt'[u].stage \in {"none", "plan", "move"}, handover'[u].status # "COMPLETED"
        PROVE  Looked(u)'
    BY <1>3 DEF Looked
  <1>4. ASSUME NEW v \in Users, Begin(u, v)
        PROVE  Looked(u)'
    <2>1. /\ attempt'[u].stage \in {"plan", "move"} /\ handover' = handover
          /\ handover[u].status # "COMPLETED"
      BY <1>4 DEF Begin
    <2> QED
      BY <1>3, <2>1
  <1>5. CASE GiveUp(u)
    <2>1. attempt'[u].stage = "none" /\ handover' = handover
      BY <1>5 DEF GiveUp, NoAttempt
    <2>2. handover[u].status = "COMPLETED" => \A s \in ServiceNames : HeldLate(s, u)'
      BY DEF Remains, Looked
    <2> QED
      BY <2>1, <2>2 DEF Looked
  <1>6. CASE Freeze(u)
    <2>1. attempt'[u].stage = "move" /\ handover'[u].status = "PENDING"
      BY <1>6 DEF Freeze
    <2> QED
      BY <1>3, <2>1
  <1>7. CASE Move(u)
    <2>1. attempt'[u] = After(attempt[u]) /\ handover' = handover /\ attempt[u].stage = "move"
      BY <1>7 DEF Move, MoveHoldings
    <2>2. handover[u].status = "PENDING"
      BY <1>1, <2>1
    <2>3. \/ After(attempt[u]).stage = "move"
          \/ After(attempt[u]).stage = "look" /\ After(attempt[u]).next = 1
      BY <1>1, <2>1, AfterIs
    <2> QED
      BY <2>1, <2>2, <2>3 DEF Looked
  <1>8. CASE Look(u)
    <2> DEFINE a == attempt[u]
    <2>0. PICK k \in 1 .. n : k = a.next
      BY <1>0, <1>1
    <2>1. /\ attempt'[u] = After(a) /\ handover' = handover /\ a.stage = "look"
          /\ handover[u].status = "PENDING"
      BY <1>1, <1>8 DEF Look
    <2>2. HeldLate(Services[k], u)'
      BY <1>8, <2>0 DEF Look, HeldLate, Holds, Reports!OwnedBy, jobVars
    <2>3. \A i \in 1 .. k : HeldLate(Services[i], u)'
      <3>1. ASSUME NEW i \in 1 .. k - 1
            PROVE  HeldLate(Services[i], u)'
        <4>1. i \in 1 .. n
          BY <1>0, <3>1
        <4>2. HeldLate(Services[i], u) /\ Services[i] \in ServiceNames
          BY <1>0, <2>0, <2>1, <3>1, <4>1 DEF Looked
        <4> QED
          BY <2>1, <4>2 DEF Remains
      <3>2. \A i \in 1 .. k : i = k \/ i \in 1 .. k - 1
        BY <1>0
      <3> QED
        BY <2>2, <3>1, <3>2
    <2>4. \/ After(a).stage = "look" /\ After(a).next = k + 1
          \/ After(a).stage = "complete" /\ k = n
      BY <1>1, <2>0, <2>1, AfterIs
    <2>5. k = n => \A s \in ServiceNames : HeldLate(s, u)'
      BY <1>0, <2>3
    <2>6. CASE After(a).stage = "look" /\ After(a).next = k + 1
      <3>1. After(a).next - 1 = k
        BY <1>0, <2>6
      <3> QED
        BY <2>1, <2>3, <2>6, <3>1 DEF Looked
    <2>7. CASE After(a).stage = "complete" /\ k = n
      BY <2>1, <2>5, <2>7 DEF Looked
    <2> QED
      BY <2>4, <2>6, <2>7
  <1>9. CASE Complete(u)
    <2>1. attempt'[u].stage = "none"
      BY <1>9 DEF Complete, NoAttempt
    <2>2. attempt[u].stage = "complete" /\ handover[u].status = "PENDING"
      BY <1>1, <1>9 DEF Complete
    <2>3. \A s \in ServiceNames : HeldLate(s, u)'
      BY <2>2 DEF Remains, Looked
    <2> QED
      BY <2>1, <2>3 DEF Looked
  <1>10. ASSUME NEW w \in Users \ {u},
                \/ \E v \in Users : Begin(w, v)
                \/ GiveUp(w) \/ Freeze(w) \/ Look(w) \/ Complete(w)
                \/ Move(w)
         PROVE  Looked(u)'
    <2>1. attempt'[u] = attempt[u] /\ handover'[u] = handover[u]
      BY <1>10 DEF Begin, GiveUp, Freeze, Look, Complete, Move, MoveHoldings
    <2> QED
      BY <1>2, <2>1
  <1>11. ASSUME NEW w \in Users, NEW s \in ServiceNames, MoveBelatedly(w, s)
         PROVE  Looked(u)'
    BY <1>2, <1>11 DEF MoveBelatedly, MoveHoldings
  <1>12. CASE CallStep \/ WorkerStep
    BY <1>2, <1>12 DEF CallStep, WorkerStep
  <1>13. CASE GiftStep
    BY <1>2, <1>13 DEF GiftStep, Assign, RequestReport
  <1>14. CASE AttemptStep
    BY <1>4, <1>5, <1>6, <1>7, <1>8, <1>9, <1>10, <1>11, <1>14 DEF AttemptStep
  <1> QED
    BY <1>12, <1>13, <1>14 DEF Step

\* An attempt moves responsibilities, or leaves them where they are.
LEMMA AttemptsKeep ==
    ASSUME TypeOK, Orderly, JobsInOrder, AttemptStep
    PROVE  DutyTypes' /\ JobsInOrder' /\ Remains
  <1> USE DEF TypeOK, Orderly
  <1> DEFINE Goal == DutyTypes' /\ JobsInOrder' /\ Remains
  <1>0. DutyTypes
    BY DEF DutyTypes
  <1>1. ASSUME job' = job, work' = work, duty' = duty, moved' = moved, late' = late
        PROVE  Goal
    BY <1>0, <1>1 DEF DutyTypes, Reports!JobsTypeOK, JobsInOrder, Working, Owned, Remains,
                      HeldLate, Holds, Reports!OwnedBy
  <1>2. ASSUME NEW u \in Users, NEW s \in ServiceNames, MoveHoldings(s, u),
               handover[u].status # "NONE"
        PROVE  Goal
    BY <1>0, <1>2, MovesKeep DEF Attempted
  <1>3. ASSUME NEW u \in Users, Move(u)
        PROVE  Goal
    <2>1. Services[attempt[u].next] \in ServiceNames /\ handover[u].status = "PENDING"
      BY <1>3, ServicesAssumption DEF Move, Attempted, ServiceNames
    <2> QED
      BY <1>2, <1>3, <2>1 DEF Move
  <1>4. ASSUME NEW u \in Users, Look(u)
        PROVE  Goal
    <2> DEFINE s == Services[attempt[u].next]
    <2>1. /\ job' = job /\ work' = work /\ duty' = duty /\ moved' = moved
          /\ late' = late \ {<<u, s>>}
          /\ ~Holds(s, u)
      BY <1>4 DEF Look, jobVars
    <2>2. \A x \in Users, t \in ServiceNames : Holds(t, x)' = Holds(t, x)
      BY <2>1 DEF Holds, Reports!OwnedBy
    <2>3. Remains
      BY <2>1, <2>2 DEF Remains, HeldLate
    <2>4. JobsInOrder'
      BY <2>1 DEF JobsInOrder, Working, Owned
    <2> QED
      BY <1>0, <2>1, <2>3, <2>4 DEF DutyTypes, Reports!JobsTypeOK
  <1>5. ASSUME NEW u \in Users,
               (\E v \in Users : Begin(u, v)) \/ GiveUp(u) \/ Freeze(u) \/ Complete(u)
        PROVE  Goal
    BY <1>1, <1>5 DEF Begin, GiveUp, Freeze, Complete, jobVars
  <1>6. ASSUME NEW u \in Users, NEW s \in ServiceNames, MoveBelatedly(u, s)
        PROVE  Goal
    BY <1>2, <1>6 DEF MoveBelatedly
  <1> QED
    BY <1>3, <1>4, <1>5, <1>6 DEF AttemptStep

\* A call touches no responsibility.
LEMMA CallsKeep ==
    ASSUME DutyTypes, JobsInOrder, CallStep
    PROVE  DutyTypes' /\ JobsInOrder' /\ Remains
  BY
     DEF CallStep, DutyTypes, Reports!JobsTypeOK, JobsInOrder, Working, Owned, Remains,
         HeldLate,
         Holds, Reports!OwnedBy

-----------------------------------------------------------------------------
(* The theorems.                                                           *)

\* TypeOK is the conjunction of the types above.
LEMMA TypesAre == TypeOK <=> AccountsTypeOK /\ DutyTypes /\ HandoverTypes
  BY DEF TypeOK, DutyTypes, HandoverTypes

\* The invariant holds at first.
LEMMA InitIInv == Init => IInv
  <1> SUFFICES ASSUME Init
               PROVE  IInv
    OBVIOUS
  <1>1. NoAccount \in AccountRows
    BY DEF NoAccount, AccountRows, Statuses
  <1>2. \A r \in SUBSET Roles : [NoAccount EXCEPT !.status = "ACTIVE",
  !.roles = r] \in AccountRows
    BY DEF NoAccount, AccountRows, Statuses
  <1>3. account \in [Users -> AccountRows]
    <2>1. {NoAccount} \cup {[NoAccount EXCEPT !.status = "ACTIVE",
    !.roles = r] : r \in SUBSET Roles}
            \subseteq AccountRows
      BY <1>1, <1>2
    <2>2. account \in [Users -> {NoAccount} \cup
                         {[NoAccount EXCEPT !.status = "ACTIVE", !.roles = r] : r \in SUBSET Roles}]
      BY DEF Init, AccountsInit
    <2> QED
      BY <2>1, <2>2
  <1>4. AccountsTypeOK /\ stale = {}
    BY <1>1, <1>3 DEF Init, AccountsInit, AccountsTypeOK, NoCall
  <1>5. AccountsExist
    <2>1. \A r \in SUBSET Roles :
            [NoAccount EXCEPT !.status = "ACTIVE", !.roles = r].status = "ACTIVE"
      BY DEF NoAccount
    <2>2. account \in [Users -> {NoAccount} \cup
                         {[NoAccount EXCEPT !.status = "ACTIVE", !.roles = r] : r \in SUBSET Roles}]
      BY DEF Init, AccountsInit
    <2>3. ASSUME NEW u \in Users, account[u] # NoAccount
          PROVE  account[u].status = "ACTIVE"
      <3>1. \E r \in SUBSET Roles : account[u] = [NoAccount EXCEPT !.status = "ACTIVE",
      !.roles = r]
        BY <2>2, <2>3
      <3> QED
        BY <2>1, <3>1
    <2> QED
      BY <2>3 DEF AccountsExist
  <1>6. DutyTypes
    BY DEF Init, Reports!JobsInit, DutyTypes, Reports!JobsTypeOK, Reports!JobStatuses,
           Reports!NoJob, Reports!NoWork
  <1>7. HandoverTypes
    BY ServicesAssumption DEF Init, HandoverTypes, NoHandover, NoAttempt, Stages
  <1>8. /\ \A u \in Users : Attempted(u) /\ Looked(u)
        /\ \A c \in Calls : CallKept(c)
    <2>1. \A u \in Users : Attempted(u)
      <3>1. Len(Services) >= 1
        BY ServicesAssumption
      <3>2. \A u \in Users : /\ handover[u].status = "NONE"
                            /\ attempt[u].stage = "none" /\ attempt[u].next = 1
        BY DEF Init, NoHandover, NoAttempt
      <3> QED
        BY <3>1, <3>2 DEF Attempted
    <2>2. \A u \in Users : Looked(u)
      BY DEF Init, Looked, NoHandover, NoAttempt
    <2>3. \A c \in Calls : CallKept(c)
      BY DEF Init, AccountsInit, CallKept
    <2> QED
      BY <2>1, <2>2, <2>3
  <1>9. Reserved
    BY DEF Init, Reserved, Reserves, NoHandover
  <1>10. JobsInOrder
    BY DEF Init, Reports!JobsInit, JobsInOrder, Working, Owned
  <1> QED
    BY <1>4, <1>5, <1>6, <1>7, <1>8, <1>9, <1>10, TypesAre DEF IInv, Orderly

\* Every step keeps it.
LEMMA StepIInv == IInv /\ [Next]_vars => IInv'
  <1>1. ASSUME IInv, Next
        PROVE  IInv'
    <2>1. AccountsTypeOK /\ DutyTypes /\ HandoverTypes /\ Orderly /\ Reserved /\ JobsInOrder
      BY <1>1, TypesAre DEF IInv
    <2>2. Step
      BY <1>1, <2>1, Steps DEF Orderly
    <2>3. DutyTypes' /\ JobsInOrder' /\ Remains
      BY <1>1, <2>1, <2>2, WorkersKeep, GiftsKeep, CallsKeep, AttemptsKeep DEF Step, IInv
    <2>4. HandoverTypes' /\ \A u \in Users : Attempted(u)'
      BY <2>1, <2>2, AttemptsKnow DEF Orderly
    <2>5. AccountsTypeOK' /\ AccountsExist' /\ \A c \in Calls : CallKept(c)'
      BY <2>1, <2>2, AccountsKeep
    <2>6. Reserved'
      BY <2>1, <2>2, ReservedKeeps
    <2>7. \A u \in Users : Looked(u)'
      BY <1>1, <2>2, <2>3, LookedKeeps DEF IInv
    <2>8. TypeOK'
      BY <2>3, <2>4, <2>5 DEF TypeOK, DutyTypes, HandoverTypes
    <2> QED
      BY <2>3, <2>4, <2>5, <2>6, <2>7, <2>8 DEF IInv, Orderly
  <1>2. ASSUME IInv, UNCHANGED vars
        PROVE  IInv'
    BY <1>2 DEF vars, accountVars, jobVars, handoverVars, IInv, TypeOK, AccountsTypeOK,
                Reports!JobsTypeOK, Orderly, Attempted, CallKept, AccountsExist, Reserved, Reserves,
                JobsInOrder, Working, Owned, Looked, HeldLate, Holds, Reports!OwnedBy
  <1> QED
    BY <1>1, <1>2

\* So it holds in every state.
LEMMA AlwaysIInv == Spec => []IInv
  BY InitIInv, StepIInv, PTL DEF Spec

\* Every variable has its type in every state.
THEOREM TypeCorrect == Spec => []TypeOK
  <1>1. IInv => TypeOK
    BY DEF IInv
  <1> QED
    BY <1>1, AlwaysIInv, PTL

\* While a handover is pending the account is frozen and its successor reserved, and after
\* it the account is archived without roles, but for rows that an older copy overwrote.
THEOREM AccountsAreKept == Spec => []HandoverKeepsAccounts
  <1>1. IInv => HandoverKeepsAccounts
    <2> SUFFICES ASSUME IInv, NEW u \in Users
                 PROVE  LET h == handover[u] IN
                        /\ h.status = "PENDING" /\ u \notin stale
                           => account[u].status = "DISABLED" /\ account[u].pending
                        /\ h.status = "PENDING" /\ h.target \notin stale
                           => account[h.target].pending
                        /\ h.status = "COMPLETED" /\ u \notin stale
                           => account[u].deleted /\ account[u].roles = {}
      BY DEF HandoverKeepsAccounts
    <2>1. handover[u].status = "PENDING" => handover[u].target \in Users
      BY DEF IInv, Orderly, Attempted
    <2>2. \A x \in Users : Reserves(u, x) /\ x \notin stale => account[x].pending
      BY DEF IInv, Reserved
    <2> QED
      BY <2>1, <2>2 DEF IInv, Reserved, Reserves
  <1> QED
    BY <1>1, AlwaysIInv, PTL

\* A report job that was moved away from a user does not fall back to it.
THEOREM MovedJobsStay == Spec => []JobsStayMoved
  <1>1. IInv => JobsStayMoved
    BY DEF IInv, JobsInOrder, Owned, JobsStayMoved
  <1> QED
    BY <1>1, AlwaysIInv, PTL

\* What an archived user still holds was given out after the last look.
THEOREM LeftoversAreLate == Spec => []OnlyLateAssignmentsRemain
  <1>1. IInv => OnlyLateAssignmentsRemain
    BY DEF IInv, Looked, HeldLate, OnlyLateAssignmentsRemain
  <1> QED
    BY <1>1, AlwaysIInv, PTL

-----------------------------------------------------------------------------
(* Assessment: what the storage holds for each upload.                     *)

\* Every document of an upload was put, and the storage has said so.
AllStored(p) == \A d \in Documents : put[p][d] = "stored"

\* An upload that nobody began has left nothing; one that prepares has stored what was put;
\* one that cleans up has everything put, and still to delete what it finds; one that is
\* over without a row or a lapse has nothing left that could arrive.
UploadIsKept(p) ==
    /\ upload[p] \in {"none", "preparing"} => paper[p] = "NO_ROW" /\ lapses[p] = {}
    /\ upload[p] = "none" => \A d \in Documents : put[p][d] = "none"
    /\ upload[p] = "preparing" =>
         \A d \in Documents : /\ put[p][d] \in {"sent", "stored"}
                              /\ put[p][d] = "stored" => d \in object[p]
    /\ upload[p] = "cleaning" => /\ AllStored(p)
                                 /\ paper[p] = "NO_ROW" \/ "commit" \in lapses[p]
                                 /\ lapses[p] = {} => object[p] \subseteq cleaning[p]
    /\ upload[p] = "over" /\ paper[p] = "NO_ROW" /\ lapses[p] = {} =>
         AllStored(p) /\ object[p] = {}

\* A recorded paper had all its documents put, and keeps them if its commit was answered.
PaperIsKept(p) ==
    paper[p] # "NO_ROW" =>
        /\ AllStored(p)
        /\ "commit" \notin lapses[p] => upload[p] = "over" /\ object[p] = Documents

\* A sample is of an examination whose declaration has arrived.
SampleIsDeclared(p) == paper[p] = "SAMPLE_PUBLISHED" => about[p][1] \in projected

BankInv ==
    /\ BankTypeOK
    /\ \A p \in Papers : UploadIsKept(p) /\ PaperIsKept(p) /\ SampleIsDeclared(p)
    /\ \A p \in retiring : paper[p] # "NO_ROW"
    /\ projected \subseteq declared

\* What the invariant says of one upload.
Kept(p) == UploadIsKept(p) /\ PaperIsKept(p) /\ SampleIsDeclared(p)

\* Nothing was uploaded yet.
LEMMA InitBankInv == BankInit => BankInv
  BY DEF BankInit, BankInv, BankTypeOK, UploadIsKept, PaperIsKept, SampleIsDeclared

\* Every step keeps the types.
LEMMA StepBankTypes == BankTypeOK /\ [BankNext]_bankVars => BankTypeOK'
  <1> SUFFICES ASSUME BankTypeOK, [BankNext]_bankVars
               PROVE  BankTypeOK'
    OBVIOUS
  <1> USE DEF BankTypeOK, paperVars, uploadVars, Lapse
  <1>1. ASSUME NEW p \in Papers, BeginUpload(p)
        PROVE  BankTypeOK'
    BY <1>1 DEF BeginUpload
  <1>2. ASSUME NEW p \in Papers, NEW d \in Documents, PutSucceeds(p, d) \/ PutFails(p, d)
        PROVE  BankTypeOK'
    <2> DEFINE States == {"none", "sent", "stored", "failed"}
    <2>1. put' \in [Papers -> [Documents -> States]]
      <3>1. PICK state \in States : put' = [put EXCEPT ![p][d] = state]
        BY <1>2 DEF PutSucceeds, PutFails
      <3>2. [put[p] EXCEPT ![d] = state] \in [Documents -> States]
        BY <3>1
      <3> QED
        BY <3>1, <3>2
    <2>2. object' \in [Papers -> SUBSET Documents]
      <3>1. object' = object \/ object' = [object EXCEPT ![p] = @ \cup {d}]
        BY <1>2 DEF PutSucceeds, PutFails
      <3> QED
        BY <3>1
    <2>3. /\ upload' \in [Papers -> {"none", "preparing", "cleaning", "over"}]
          /\ lapses' \in [Papers -> SUBSET {"preparation", "commit", "deletion", "stop"}]
      <3>1. \/ UNCHANGED <<upload, lapses>>
            \/ /\ upload' = [upload EXCEPT ![p] = "over"]
               /\ lapses' = [lapses EXCEPT ![p] = @ \cup {"preparation"}]
        BY <1>2 DEF PutSucceeds, PutFails
      <3>2. CASE UNCHANGED <<upload, lapses>>
        BY <3>2
      <3>3. CASE /\ upload' = [upload EXCEPT ![p] = "over"]
                 /\ lapses' = [lapses EXCEPT ![p] = @ \cup {"preparation"}]
        BY <3>3
      <3> QED
        BY <3>1, <3>2, <3>3
    <2>4. UNCHANGED <<about, paper, cleaning, retiring, declared, projected>>
      BY <1>2 DEF PutSucceeds, PutFails
    <2> QED
      BY <2>1, <2>2, <2>3, <2>4
  <1>3. ASSUME NEW p \in Papers, NEW d \in Documents, Delete(p, d)
        PROVE  BankTypeOK'
    BY <1>3 DEF Delete
  <1>4. ASSUME NEW p \in Papers, Persist(p) \/ PersistRefused(p) \/ PersistInDoubt(p)
        PROVE  BankTypeOK'
    <2>1. CASE Persist(p)
      BY <2>1 DEF Persist
    <2>2. CASE PersistRefused(p)
      BY <2>2 DEF PersistRefused, CleanUp, UploadedKeys
    <2>3. CASE PersistInDoubt(p)
      BY <2>3 DEF PersistInDoubt, CleanUp, UploadedKeys
    <2> QED
      BY <1>4, <2>1, <2>2, <2>3
  <1>5. ASSUME NEW p \in Papers, EndUpload(p) \/ ProcessStops(p)
        PROVE  BankTypeOK'
    <2>1. CASE EndUpload(p)
      BY <2>1 DEF EndUpload
    <2>2. CASE ProcessStops(p)
      BY <2>2 DEF ProcessStops
    <2> QED
      BY <1>5, <2>1, <2>2
  <1>6. ASSUME NEW p \in Papers, Publish(p) \/ BeginRetire(p) \/ Retire(p)
        PROVE  BankTypeOK'
    BY <1>6 DEF Publish, BeginRetire, Retire
  <1>7. ASSUME NEW x \in Exams, DeclareResults(x) \/ ProjectResultDeclaration(x)
        PROVE  BankTypeOK'
    BY <1>7 DEF DeclareResults, ProjectResultDeclaration
  <1>8. CASE UNCHANGED bankVars
    BY <1>8 DEF bankVars
  <1> QED
    BY <1>1, <1>2, <1>3, <1>4, <1>5, <1>6, <1>7, <1>8 DEF BankNext

\* The projection follows the declarations.
LEMMA StepProjection ==
    ASSUME BankInv, [BankNext]_bankVars
    PROVE  /\ projected' \subseteq declared'
           /\ projected \subseteq projected' /\ about' = about
  BY DEF BankInv, BankNext, bankVars, paperVars, uploadVars, BeginUpload, PutSucceeds, PutFails,
         Delete, Persist, PersistRefused, PersistInDoubt, CleanUp, EndUpload, ProcessStops,
         Publish, BeginRetire, Retire, DeclareResults, ProjectResultDeclaration

\* An upload whose row, documents and progress stay is still kept.
LEMMA KeptStays ==
    ASSUME BankInv, [BankNext]_bankVars, NEW q \in Papers,
           paper'[q] = paper[q], upload'[q] = upload[q], put'[q] = put[q],
           object'[q] = object[q], cleaning'[q] = cleaning[q], lapses'[q] = lapses[q]
    PROVE  Kept(q)'
  <1>1. Kept(q)
    BY DEF BankInv, Kept
  <1> QED
    BY <1>1, StepProjection DEF Kept, UploadIsKept, PaperIsKept, SampleIsDeclared, AllStored

\* A step of the upload p keeps it, and leaves the other ones alone.
LEMMA StepUploads ==
    ASSUME BankInv, [BankNext]_bankVars, NEW p \in Papers,
           \/ BeginUpload(p) \/ Persist(p) \/ PersistRefused(p) \/ PersistInDoubt(p)
           \/ EndUpload(p) \/ ProcessStops(p)
           \/ \E d \in Documents : PutSucceeds(p, d) \/ PutFails(p, d) \/ Delete(p, d),
           NEW q \in Papers
    PROVE  Kept(q)'
  <1> USE DEF BankTypeOK, paperVars, Lapse
  <1>1. BankTypeOK
    BY DEF BankInv
  <1>2. CASE q # p
    <2>1. /\ paper'[q] = paper[q] /\ upload'[q] = upload[q] /\ put'[q] = put[q]
          /\ object'[q] = object[q] /\ cleaning'[q] = cleaning[q] /\ lapses'[q] = lapses[q]
      BY <1>1, <1>2 DEF BeginUpload, Persist, PersistRefused, PersistInDoubt, CleanUp, EndUpload,
                        ProcessStops, PutSucceeds, PutFails, Delete
    <2> QED
      BY <2>1, KeptStays
  <1>3. CASE q = p
    <2> SUFFICES Kept(p)'
      BY <1>3
    <2>1. UploadIsKept(p) /\ PaperIsKept(p) /\ SampleIsDeclared(p)
      BY DEF BankInv
    <2> USE DEF Kept, UploadIsKept, PaperIsKept, SampleIsDeclared, AllStored
    <2>2. CASE BeginUpload(p)
      BY <1>1, <2>1, <2>2 DEF BeginUpload
    <2>3. ASSUME NEW d \in Documents, PutSucceeds(p, d)
          PROVE  Kept(p)'
      <3>1. /\ put'[p][d] = "stored" /\ d \in object'[p] /\ put[p][d] = "sent"
            /\ \A e \in Documents \ {d} : put'[p][e] = put[p][e]
            /\ object[p] \subseteq object'[p]
        BY <1>1, <2>3 DEF PutSucceeds
      <3>2. UNCHANGED <<paper, upload, lapses, about, projected, cleaning>>
        BY <2>3 DEF PutSucceeds
      <3>3. paper[p] = "NO_ROW" /\ upload[p] \notin {"none", "cleaning"}
        BY <2>1, <3>1
      <3> QED
        BY <2>1, <3>1, <3>2, <3>3
    <2>4. ASSUME NEW d \in Documents, PutFails(p, d)
          PROVE  Kept(p)'
      <3>1. put[p][d] = "sent" /\ UNCHANGED <<paper, about, projected, cleaning>>
        BY <2>4 DEF PutFails
      <3>2. paper[p] = "NO_ROW" /\ upload[p] \in {"preparing", "over"}
        BY <1>1, <2>1, <3>1
      <3>3. upload'[p] = "over" /\ lapses'[p] # {}
        <4>1. CASE upload[p] = "preparing"
          <5>1. /\ upload' = [upload EXCEPT ![p] = "over"]
                /\ lapses' = [lapses EXCEPT ![p] = @ \cup {"preparation"}]
            BY <2>4, <4>1 DEF PutFails
          <5>2. "preparation" \in lapses'[p]
            BY <1>1, <5>1
          <5> QED
            BY <1>1, <5>1, <5>2
        <4>2. CASE upload[p] = "over"
          BY <1>1, <2>1, <2>4, <3>1, <3>2, <4>2 DEF PutFails
        <4> QED
          BY <3>2, <4>1, <4>2
      <3> QED
        BY <3>1, <3>2, <3>3
    <2>5. ASSUME NEW d \in Documents, Delete(p, d)
          PROVE  Kept(p)'
      <3>1. /\ upload[p] = "cleaning" /\ d \in cleaning[p]
            /\ UNCHANGED <<paper, about, projected, upload, put>>
        BY <2>5 DEF Delete
      <3>2. /\ cleaning'[p] = cleaning[p] \ {d}
            /\ \/ object'[p] = object[p] \ {d} /\ lapses'[p] = lapses[p]
               \/ lapses'[p] = lapses[p] \cup {"deletion"}
        BY <1>1, <2>5 DEF Delete
      <3> QED
        BY <2>1, <3>1, <3>2
    <2>6. CASE Persist(p)
      <3>1. /\ upload[p] = "preparing" /\ upload'[p] = "over" /\ paper'[p] = "READY"
            /\ AllStored(p) /\ UNCHANGED <<put, object, lapses>>
        BY <1>1, <2>6 DEF Persist, Prepared
      <3>2. object[p] = Documents
        BY <1>1, <2>1, <3>1
      <3> QED
        BY <3>1, <3>2
    <2>7. CASE PersistRefused(p) \/ PersistInDoubt(p)
      <3>1. /\ upload[p] = "preparing" /\ upload'[p] = "cleaning" /\ AllStored(p)
            /\ UNCHANGED <<put, object>>
        BY <1>1, <2>7 DEF PersistRefused, PersistInDoubt, CleanUp, Prepared
      <3>2. cleaning'[p] = Documents
        <4>1. UploadedKeys(p) = Documents
          BY <3>1 DEF UploadedKeys
        <4> QED
          BY <1>1, <2>7, <4>1 DEF PersistRefused, PersistInDoubt, CleanUp
      <3>3. \/ paper'[p] = "NO_ROW" /\ lapses'[p] = {}
            \/ paper'[p] = "READY" /\ "commit" \in lapses'[p]
        BY <1>1, <2>1, <2>7, <3>1 DEF PersistRefused, PersistInDoubt
      <3>4. object'[p] \subseteq Documents
        BY <1>1, <3>1
      <3> QED
        BY <3>1, <3>2, <3>3, <3>4
    <2>8. CASE EndUpload(p)
      BY <1>1, <2>1, <2>8 DEF EndUpload
    <2>9. CASE ProcessStops(p)
      <3>1. /\ upload[p] \in {"preparing", "cleaning"} /\ upload'[p] = "over"
            /\ lapses'[p] = lapses[p] \cup {"stop"}
            /\ UNCHANGED <<paper, put, object, about, projected>>
        BY <1>1, <2>9 DEF ProcessStops
      <3> QED
        BY <2>1, <3>1
    <2> QED
      BY <2>2, <2>3, <2>4, <2>5, <2>6, <2>7, <2>8, <2>9
  <1> QED
    BY <1>2, <1>3

\* Publication and retirement keep what was uploaded.
LEMMA StepPapers ==
    ASSUME BankInv, [BankNext]_bankVars, NEW p \in Papers, Publish(p) \/ Retire(p),
           NEW q \in Papers
    PROVE  Kept(q)'
  <1>1. UNCHANGED <<about, upload, put, object, cleaning, lapses, projected>>
    BY DEF Publish, Retire, uploadVars
  <1>2. CASE paper'[q] = paper[q]
    BY <1>1, <1>2, KeptStays
  <1>3. CASE paper'[q] # paper[q]
    <2>1. /\ q = p /\ paper[p] # "NO_ROW"
          /\ \/ paper'[p] = "RETIRED"
             \/ paper'[p] = "SAMPLE_PUBLISHED" /\ about[p][1] \in projected
      <3>1. paper \in [Papers -> {"NO_ROW", "READY", "SAMPLE_PUBLISHED", "RETIRED"}]
        BY DEF BankInv, BankTypeOK
      <3>2. CASE Publish(p)
        BY <1>3, <3>1, <3>2 DEF Publish
      <3>3. CASE Retire(p)
        BY <1>3, <3>1, <3>3 DEF Retire, BankInv
      <3> QED
        BY <3>2, <3>3
    <2>2. UploadIsKept(p) /\ PaperIsKept(p)
      BY DEF BankInv
    <2> QED
      BY <1>1, <2>1, <2>2 DEF Kept, UploadIsKept, PaperIsKept, SampleIsDeclared, AllStored
  <1> QED
    BY <1>2, <1>3

\* No row that was recorded goes, so that a call to retire still finds its paper.
LEMMA RowsStay ==
    ASSUME BankInv, [BankNext]_bankVars
    PROVE  \A p \in retiring' : paper'[p] # "NO_ROW"
  <1> USE DEF paperVars, uploadVars
  <1>1. /\ paper \in [Papers -> {"NO_ROW", "READY", "SAMPLE_PUBLISHED", "RETIRED"}]
        /\ retiring \subseteq Papers
        /\ \A p \in retiring : paper[p] # "NO_ROW"
    BY DEF BankInv, BankTypeOK
  <1>2. ASSUME NEW p \in Papers, Persist(p) \/ PersistInDoubt(p)
        PROVE  \A q \in retiring' : paper'[q] # "NO_ROW"
    BY <1>1, <1>2 DEF Persist, PersistInDoubt, CleanUp
  <1>3. ASSUME NEW p \in Papers, Publish(p) \/ BeginRetire(p) \/ Retire(p)
        PROVE  \A q \in retiring' : paper'[q] # "NO_ROW"
    BY <1>1, <1>3 DEF Publish, BeginRetire, Retire
  <1>4. CASE UNCHANGED <<paper, retiring>>
    BY <1>1, <1>4
  <1> QED
    BY <1>2, <1>3, <1>4
       DEF BankNext, bankVars, BeginUpload, PutSucceeds, PutFails, Delete, PersistRefused, CleanUp,
           EndUpload, ProcessStops, DeclareResults, ProjectResultDeclaration

\* The invariant is inductive.
LEMMA StepBankInv == BankInv /\ [BankNext]_bankVars => BankInv'
  <1> SUFFICES ASSUME BankInv, [BankNext]_bankVars
               PROVE  BankInv'
    OBVIOUS
  <1>1. BankTypeOK'
    BY StepBankTypes DEF BankInv
  <1>2. ASSUME NEW q \in Papers
        PROVE  Kept(q)'
    <2>1. ASSUME NEW p \in Papers, BeginRetire(p)
          PROVE  Kept(q)'
      BY <2>1, KeptStays DEF BeginRetire, uploadVars
    <2>2. ASSUME NEW x \in Exams, DeclareResults(x) \/ ProjectResultDeclaration(x)
          PROVE  Kept(q)'
      BY <2>2, KeptStays DEF DeclareResults, ProjectResultDeclaration, uploadVars
    <2>3. CASE UNCHANGED bankVars
      BY <2>3, KeptStays DEF bankVars, paperVars, uploadVars
    <2> QED
      BY <2>1, <2>2, <2>3, StepUploads, StepPapers DEF BankNext
  <1> QED
    BY <1>1, <1>2, StepProjection, RowsStay DEF BankInv, Kept

\* Every reachable state satisfies it.
LEMMA AlwaysBankInv == BankSpec => []BankInv
  BY InitBankInv, StepBankInv, PTL DEF BankSpec

\* Papers, uploads, documents and declarations stay well typed.
THEOREM BankTypesCorrect == BankSpec => []BankTypeOK
  <1>1. BankInv => BankTypeOK
    BY DEF BankInv
  <1> QED
    BY <1>1, AlwaysBankInv, PTL

\* Whichever steps of however many uploads fail, in whatever order: a paper that was recorded
\* has its documents, and an upload that was not leaves none, but for the lapses named.
THEOREM DocumentsFollowTheRows == BankSpec => []StorageAgreesWithRows
  <1>1. BankInv => StorageAgreesWithRows
    BY DEF BankInv, UploadIsKept, PaperIsKept, StorageAgreesWithRows
  <1> QED
    BY <1>1, AlwaysBankInv, PTL

\* A paper becomes a sample only after its examination's results are declared, and no upload,
\* retirement or publication that overlaps changes it any more.
THEOREM SamplesStay == BankSpec => SamplesAreFinal
  <1>1. ASSUME BankInv, [BankNext]_bankVars
        PROVE  \A p \in Papers : "SAMPLE_PUBLISHED" \in {paper[p], paper'[p]} =>
                 paper'[p] = "SAMPLE_PUBLISHED" /\ about[p][1] \in declared
    <2> SUFFICES ASSUME NEW q \in Papers, "SAMPLE_PUBLISHED" \in {paper[q], paper'[q]}
                 PROVE  paper'[q] = "SAMPLE_PUBLISHED" /\ about[q][1] \in declared
      OBVIOUS
    <2>1. /\ paper \in [Papers -> {"NO_ROW", "READY", "SAMPLE_PUBLISHED", "RETIRED"}]
          /\ SampleIsDeclared(q) /\ projected \subseteq declared
          /\ \A p \in Papers : UploadIsKept(p)
      BY <1>1 DEF BankInv, BankTypeOK
    <2>2. ASSUME NEW p \in Papers, Publish(p)
          PROVE  paper'[q] = "SAMPLE_PUBLISHED" /\ about[q][1] \in declared
      BY <2>1, <2>2 DEF Publish, SampleIsDeclared
    <2>3. ASSUME NEW p \in Papers, Retire(p)
          PROVE  paper'[q] = "SAMPLE_PUBLISHED" /\ about[q][1] \in declared
      BY <2>1, <2>3 DEF Retire, MayRetire, SampleIsDeclared
    <2>4. ASSUME NEW p \in Papers, Persist(p) \/ PersistInDoubt(p)
          PROVE  paper'[q] = "SAMPLE_PUBLISHED" /\ about[q][1] \in declared
      <3>1. upload[p] = "preparing" /\ paper' = [paper EXCEPT ![p] = "READY"]
        BY <2>4 DEF Persist, PersistInDoubt, Prepared
      <3>2. paper[p] = "NO_ROW"
        BY <2>1, <3>1 DEF UploadIsKept
      <3> QED
        BY <2>1, <3>1, <3>2 DEF SampleIsDeclared
    <2>5. CASE UNCHANGED paper
      BY <2>1, <2>5 DEF SampleIsDeclared
    <2> QED
      BY <1>1, <2>2, <2>3, <2>4, <2>5
         DEF BankNext, bankVars, paperVars, BeginUpload, PutSucceeds, PutFails, Delete,
             PersistRefused, EndUpload, ProcessStops, BeginRetire, DeclareResults,
             ProjectResultDeclaration
  <1>2. BankInv /\ [BankNext]_bankVars
          => [\A p \in Papers : "SAMPLE_PUBLISHED" \in {paper[p], paper'[p]} =>
                paper'[p] = "SAMPLE_PUBLISHED" /\ about[p][1] \in declared]_bankVars
    BY <1>1
  <1> QED
    BY <1>2, AlwaysBankInv, PTL DEF BankSpec, SamplesAreFinal
=============================================================================
