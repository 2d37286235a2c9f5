------------------------------ MODULE Accounts ------------------------------
(***************************************************************************)
(* Rows of the users table, and the calls that read a row, decide, and     *)
(* save it: what such a call does not change it writes back as it read it. *)
(***************************************************************************)
CONSTANTS
    Users,
    Roles,         \* the singleton roles
    Calls,         \* login and administration calls in flight
    None

ASSUME NoneAssumption == None \notin Users

VARIABLES
    account,       \* the users table
    call,          \* the calls in flight, each with the row it will save
    stale          \* history: users whose row was overwritten by an older copy

accountVars == <<account, call, stale>>

-----------------------------------------------------------------------------

Statuses == {"NONE", "ACTIVE", "DISABLED", "LOCKED"}

\* pending is handoverPending; deleted says that deletedAt is set.  The count of failed
\* logins and the end of a lock are left out: whether a wrong password locks the
\* account, and whether a lock is over, is left open.
AccountRows == [status : Statuses, roles : SUBSET Roles, pending : BOOLEAN, deleted : BOOLEAN]

NoAccount == [status |-> "NONE", roles |-> {}, pending |-> FALSE, deleted |-> FALSE]

NoCall == [user |-> None, row |-> NoAccount, read |-> NoAccount]

AccountsTypeOK ==
    /\ account \in [Users -> AccountRows]
    /\ call \in [Calls -> [user : Users \cup {None}, row : AccountRows, read : AccountRows]]
    /\ stale \subseteq Users

\* Some users have no account yet; no two hold the same singleton role.
AccountsInit ==
    /\ account \in [Users -> {NoAccount} \cup
                             {[NoAccount EXCEPT !.status = "ACTIVE", !.roles = r] : r \in SUBSET Roles}]
    /\ \A u, v \in Users : u # v => account[u].roles \cap account[v].roles = {}
    /\ call = [c \in Calls |-> NoCall]
    /\ stale = {}

-----------------------------------------------------------------------------

\* A call reads a row and goes on with the row that it will save.
Read(c, u, row) ==
    /\ call[c] = NoCall
    /\ call' = [call EXCEPT ![c] = [user |-> u, row |-> row, read |-> account[u]]]
    /\ UNCHANGED <<account, stale>>

Exists(u) == account[u].status # "NONE"

MayLogIn(u) == Exists(u) /\ account[u].status # "DISABLED"

\* A lock that is over, or lifted.
Unlocked(row) == [row EXCEPT !.status = IF @ = "LOCKED" THEN "ACTIVE" ELSE @]

\* The right password.
LogIn(c, u) ==
    /\ MayLogIn(u)
    /\ Read(c, u, Unlocked(account[u]))

\* failedLogin: the wrong password, which may lock the account.
FailLogIn(c, u) ==
    /\ MayLogIn(u)
    /\ \/ Read(c, u, Unlocked(account[u]))
       \/ Read(c, u, [account[u] EXCEPT !.status = "LOCKED"])

\* Mutated form of Administrable: no look at handoverPending.
AdministrableAnyTime(u) == Exists(u) /\ ~account[u].deleted

\* The account is neither archived nor part of a handover.
Administrable(u) == Exists(u) /\ ~account[u].deleted /\ ~account[u].pending

UnlockUser(c, u) ==
    /\ Administrable(u)
    /\ Read(c, u, Unlocked(account[u]))

SetStatus(c, u, status) ==
    /\ Administrable(u)
    /\ status \in {"ACTIVE", "DISABLED"} \ {account[u].status}
    /\ Read(c, u, [account[u] EXCEPT !.status = status])

\* assertSingletonRoles: no other account that is not disabled holds one of them.
Assignable(u, roles) ==
    \A v \in Users \ {u} : account[v].status # "DISABLED" => account[v].roles \cap roles = {}

\* setRoles, and updateUser when it is given roles.
SetRoles(c, u, roles) ==
    /\ Administrable(u)
    /\ roles # account[u].roles
    /\ Assignable(u, roles)
    /\ Read(c, u, [account[u] EXCEPT !.roles = roles])

CreateUser(c, u, roles) ==
    /\ ~Exists(u)
    /\ Assignable(u, roles)
    /\ Read(c, u, [NoAccount EXCEPT !.status = "ACTIVE", !.roles = roles])

\* Handlers that save the row for the sake of another column: the profile and the
\* password of the signed-in user, ndiLinkedAt.
SaveProfile(c, u) ==
    /\ Exists(u)
    /\ Read(c, u, account[u])

\* The save writes the row of the call over whatever is there by now.  An account
\* that exists already is not created again: its e-mail address is unique.
Save(c) ==
    LET u == call[c].user IN
    /\ call[c] # NoCall
    /\ IF call[c].read = NoAccount /\ Exists(u)
       THEN UNCHANGED <<account, stale>>
       ELSE /\ account' = [account EXCEPT ![u] = call[c].row]
            /\ stale' = IF account[u] # call[c].read THEN stale \cup {u} ELSE stale
    /\ call' = [call EXCEPT ![c] = NoCall]
=============================================================================
