---------------------------- MODULE StaffHandover ----------------------------
(***************************************************************************)
(* Replacing a staff user: the identity service freezes the account, asks  *)
(* each service to move the responsibilities to a successor, looks whether *)
(* any is left, and archives the account.  An attempt may fail anywhere    *)
(* and is repeated with the same successor; users, administrators and the  *)
(* report workers go on meanwhile.                                         *)
(***************************************************************************)
EXTENDS Accounts, Naturals, Sequences

CONSTANTS
    Services,      \* the services that keep responsibilities, in the order of the calls
    Jobs, Workers

ASSUME ServicesAssumption ==
    Services \in Seq(STRING) /\ \E i \in 1 .. Len(Services) : Services[i] = "reporting"

VARIABLES
    job, work,     \* the reporting service's jobs and workers
    duty,          \* per service but reporting: the users who hold a responsibility
    handover,      \* user_handovers, by source
    attempt,       \* the attempt that holds the advisory lock of a source
    moved,         \* history: users and jobs that a service moved away from them
    late           \* history: users and services that gave them responsibilities
                   \* after the last look

Reports == INSTANCE ReportJobs WITH Owners <- Users, Nobody <- None

jobVars == <<job, work>>
handoverVars == <<duty, handover, attempt, moved, late>>
vars == <<accountVars, jobVars, handoverVars>>

ServiceNames == {Services[i] : i \in 1 .. Len(Services)}

\* What reporting keeps for a user is its jobs; saved reports, which move with them, are
\* left out.
Assigning == ServiceNames \ {"reporting"}

\* created says that the successor's account was made for the handover.
NoHandover == [target |-> None, roles |-> {}, status |-> "NONE", created |-> FALSE]
NoAttempt == [stage |-> "none", target |-> None, next |-> 1]

Stages == {"none", "plan", "move", "look", "complete"}

TypeOK ==
    /\ AccountsTypeOK
    /\ Reports!JobsTypeOK
    /\ duty \in [Assigning -> SUBSET Users]
    /\ handover \in [Users -> [target : Users \cup {None}, roles : SUBSET Roles,
                               status : {"NONE", "PENDING", "COMPLETED"}, created : BOOLEAN]]
    /\ attempt \in [Users -> [stage : Stages, target : Users \cup {None},
                              next : 1 .. Len(Services) + 1]]
    /\ moved \subseteq Users \X Jobs
    /\ late \subseteq Users \X ServiceNames

Init ==
    /\ AccountsInit
    /\ Reports!JobsInit
    /\ duty = [s \in Assigning |-> {}]
    /\ handover = [u \in Users |-> NoHandover]
    /\ attempt = [u \in Users |-> NoAttempt]
    /\ moved = {}
    /\ late = {}

-----------------------------------------------------------------------------
\* The services.

\* Only what is given out after a handover has begun can be late.
Late(u, s) == IF handover[u].status = "NONE" THEN late ELSE late \cup {<<u, s>>}

\* A service gives out a responsibility; it does not ask whether the user's account
\* is frozen or archived.
Assign(s, u) ==
    /\ Exists(u) /\ u \notin duty[s]
    /\ duty' = [duty EXCEPT ![s] = @ \cup {u}]
    /\ late' = Late(u, s)
    /\ UNCHANGED <<accountVars, jobVars, handover, attempt, moved>>

\* What a service counts.
Holds(s, u) == IF s = "reporting" THEN Reports!OwnedBy(u) # {} ELSE u \in duty[s]

\* A user asks for a report.  The access token is not checked against the account: a user
\* whose account is frozen or archived can still ask while it is valid.
RequestReport(j, u) ==
    /\ Exists(u)
    /\ Reports!CreateJob(j, u)
    /\ late' = Late(u, "reporting")
    /\ UNCHANGED <<accountVars, duty, handover, attempt, moved>>

-----------------------------------------------------------------------------
\* The attempt.

\* transfer takes the source's advisory lock.  A handover that has begun goes on with
\* its successor; a new one first asks every service.
Begin(u, v) ==
    /\ u # v /\ Exists(u)
    /\ attempt[u] = NoAttempt
    /\ \/ handover[u].status = "NONE"
       \/ handover[u].target = v /\ handover[u].status = "PENDING"
    /\ attempt' = [attempt EXCEPT ![u] =
         [stage |-> IF handover[u].status = "NONE" THEN "plan" ELSE "move",
          target |-> v, next |-> 1]]
    /\ UNCHANGED <<accountVars, jobVars, duty, handover, moved, late>>

\* Anything fails, or the process stops: the lock is given back.
GiveUp(u) ==
    /\ attempt[u] # NoAttempt
    /\ attempt' = [attempt EXCEPT ![u] = NoAttempt]
    /\ UNCHANGED <<accountVars, jobVars, duty, handover, moved, late>>

MayStart(u) == ~account[u].deleted /\ ~account[u].pending

\* The successor is an account that is active and part of no handover, or a new
\* account, which stays disabled until the handover is complete.
Successor(v) ==
    IF Exists(v) THEN [account[v] EXCEPT !.pending = TRUE]
    ELSE [NoAccount EXCEPT !.status = "DISABLED", !.pending = TRUE]

MaySucceed(v) ==
    Exists(v) => account[v].status = "ACTIVE" /\ ~account[v].pending /\ ~account[v].deleted

\* The transaction that freezes the account.
Freeze(u) ==
    LET v == attempt[u].target IN
    /\ attempt[u].stage = "plan"
    /\ MayStart(u) /\ MaySucceed(v)
    /\ account' = [account EXCEPT
         ![v] = Successor(v),
         ![u].status = "DISABLED", ![u].pending = TRUE]
    /\ handover' = [handover EXCEPT ![u] =
         [target |-> v, roles |-> account[u].roles, status |-> "PENDING",
          created |-> ~Exists(v)]]
    /\ attempt' = [attempt EXCEPT ![u].stage = "move"]
    /\ UNCHANGED <<call, stale, jobVars, duty, moved, late>>

\* The stage that follows a call to a service.
After(a) ==
    IF a.next < Len(Services) THEN [a EXCEPT !.next = @ + 1]
    ELSE [a EXCEPT !.next = 1, !.stage = IF @ = "move" THEN "look" ELSE "complete"]

\* Mutated form of MayMove: reports that are being generated are moved as well.
MayMoveAlways(s, u) == TRUE

\* Reporting refuses while a report of the user is generated.
MayMove(s, u) == s = "reporting" => ~Reports!RunningFor(u)

\* The service moves what the source holds, in one transaction.
MoveHoldings(s, u) ==
    LET v == handover[u].target IN
    /\ MayMove(s, u)
    /\ IF s = "reporting"
       THEN /\ Reports!MoveJobs(u, v)
            /\ moved' = (moved \ ({v} \X Reports!OwnedBy(u))) \cup ({u} \X Reports!OwnedBy(u))
            /\ UNCHANGED duty
       ELSE /\ duty' = [duty EXCEPT ![s] = IF u \in @ THEN (@ \ {u}) \cup {v} ELSE @]
            /\ UNCHANGED <<job, moved>>
    /\ late' = IF Holds(s, u) THEN Late(v, s) ELSE late
    /\ UNCHANGED <<accountVars, work, handover>>

Move(u) ==
    /\ attempt[u].stage = "move"
    /\ MoveHoldings(Services[attempt[u].next], u)
    /\ attempt' = [attempt EXCEPT ![u] = After(@)]

\* The call of an attempt that did not wait for its answer is carried out later.  Which
\* attempts gave up a call is not kept: there may always be one.
MoveBelatedly(u, s) ==
    /\ handover[u].status # "NONE"
    /\ Holds(s, u)
    /\ MoveHoldings(s, u)
    /\ UNCHANGED attempt

\* Mutated form of Look: nobody looks what is left.
LookAway(u) ==
    /\ attempt[u].stage = "look"
    /\ attempt' = [attempt EXCEPT ![u] = After(@)]
    /\ late' = late \ {<<u, Services[attempt[u].next]>>}
    /\ UNCHANGED <<accountVars, jobVars, duty, handover, moved>>

\* The service has nothing left for the source; else the attempt fails.
Look(u) ==
    LET s == Services[attempt[u].next] IN
    /\ attempt[u].stage = "look"
    /\ ~Holds(s, u)
    /\ attempt' = [attempt EXCEPT ![u] = After(@)]
    /\ late' = late \ {<<u, s>>}
    /\ UNCHANGED <<accountVars, jobVars, duty, handover, moved>>

\* A new successor's account is made active; another has to be active.
StillSucceeds(u, v) ==
    /\ ~account[v].deleted
    /\ handover[u].created \/ account[v].status = "ACTIVE"

\* No third account that is not disabled holds one of the roles.
NoOtherHolder(u, v, roles) ==
    \A w \in Users \ {u, v} :
        account[w].status # "DISABLED" /\ ~account[w].deleted => account[w].roles \cap roles = {}

\* The transaction that gives the roles to the successor and archives the account.
Complete(u) ==
    LET v == handover[u].target
        roles == account[v].roles \cup handover[u].roles IN
    /\ attempt[u].stage = "complete"
    /\ StillSucceeds(u, v)
    /\ NoOtherHolder(u, v, roles)
    /\ account' = [account EXCEPT
         ![v].roles = roles, ![v].status = "ACTIVE", ![v].pending = FALSE,
         ![u].roles = {}, ![u].status = "DISABLED", ![u].pending = FALSE,
         ![u].deleted = TRUE]
    /\ handover' = [handover EXCEPT ![u].status = "COMPLETED"]
    /\ attempt' = [attempt EXCEPT ![u] = NoAttempt]
    /\ UNCHANGED <<call, stale, jobVars, duty, moved, late>>

-----------------------------------------------------------------------------

Next ==
    \/ \E c \in Calls, u \in Users : LogIn(c, u) /\ UNCHANGED <<jobVars, handoverVars>>
    \/ \E c \in Calls, u \in Users : FailLogIn(c, u) /\ UNCHANGED <<jobVars, handoverVars>>
    \/ \E c \in Calls, u \in Users : UnlockUser(c, u) /\ UNCHANGED <<jobVars, handoverVars>>
    \/ \E c \in Calls, u \in Users, status \in {"ACTIVE", "DISABLED"} :
          SetStatus(c, u, status) /\ UNCHANGED <<jobVars, handoverVars>>
    \/ \E c \in Calls, u \in Users, roles \in SUBSET Roles :
          SetRoles(c, u, roles) /\ UNCHANGED <<jobVars, handoverVars>>
    \/ \E c \in Calls, u \in Users, roles \in SUBSET Roles :
          CreateUser(c, u, roles) /\ UNCHANGED <<jobVars, handoverVars>>
    \/ \E c \in Calls, u \in Users : SaveProfile(c, u) /\ UNCHANGED <<jobVars, handoverVars>>
    \/ \E c \in Calls : Save(c) /\ UNCHANGED <<jobVars, handoverVars>>
    \/ \E j \in Jobs, u \in Users : RequestReport(j, u)
    \/ \E w \in Workers, j \in Jobs :
          Reports!Claim(w, j) /\ UNCHANGED <<accountVars, handoverVars>>
    \/ \E w \in Workers : Reports!Finish(w) /\ UNCHANGED <<accountVars, handoverVars>>
    \/ \E w \in Workers : Reports!StopWorking(w) /\ UNCHANGED <<accountVars, handoverVars>>
    \/ \E s \in Assigning, u \in Users : Assign(s, u)
    \/ \E u, v \in Users : Begin(u, v)
    \/ \E u \in Users : GiveUp(u)
    \/ \E u \in Users : Freeze(u)
    \/ \E u \in Users : Move(u)
    \/ \E u \in Users, s \in ServiceNames : MoveBelatedly(u, s)
    \/ \E u \in Users : Look(u)
    \/ \E u \in Users : Complete(u)

Spec == Init /\ [][Next]_vars

-----------------------------------------------------------------------------
\* Properties

\* While a handover is pending the account is frozen and its successor reserved, and after
\* it the account is archived without roles, unless a call that had read the row earlier
\* saved it since: no administrator, login or other handover takes either up meanwhile.
HandoverKeepsAccounts ==
    \A u \in Users :
        LET h == handover[u] IN
        /\ h.status = "PENDING" /\ u \notin stale
           => account[u].status = "DISABLED" /\ account[u].pending
        /\ h.status = "PENDING" /\ h.target \notin stale => account[h.target].pending
        /\ h.status = "COMPLETED" /\ u \notin stale => account[u].deleted /\ account[u].roles = {}

\* A report job that was moved to the successor does not fall back to the user who left,
\* although workers save the owner that they claimed a job with.
JobsStayMoved == \A u \in Users, j \in Jobs : <<u, j>> \in moved => job[j].owner # u

\* What a user whose handover is complete still holds was given out after the handover
\* had looked into that service for the last time.
OnlyLateAssignmentsRemain ==
    \A u \in Users, s \in ServiceNames :
        handover[u].status = "COMPLETED" /\ Holds(s, u) => <<u, s>> \in late
=============================================================================
