------------------------------ MODULE Accounts -------------------------------
(***************************************************************************)
(* User accounts and sessions: app/routers/users.py, the session side of   *)
(* app/routers/auth.py, app/deps.py, the token functions of                *)
(* app/security.py and the seeding of app/database.py.                     *)
(*                                                                         *)
(* Neither the dependencies of these handlers nor their bodies suspend, so *)
(* a request is one step: the session is authenticated, the guards are     *)
(* read and the row is written with no other request in between.           *)
(*                                                                         *)
(* A token is named by its jti.  Password hashes, allowed roots and times  *)
(* are left out: a password check may go either way, and a token may       *)
(* expire at any moment.  A refused request changes nothing and is no step.*)
(***************************************************************************)
EXTENDS Naturals, FiniteSets

CONSTANTS
    Names,      \* user names
    AdminName,  \* HOMEDOCK_ADMIN_USER, the name of the seeded administrator
    Tokens,     \* jti values; bounds the number of sessions ever issued
    MaxUsers,   \* bounds the number of accounts ever created
    NoUser,     \* no row in the users table
    Keep        \* a field of an update request that was not sent

ASSUME AccountsAssumption ==
    /\ AdminName \in Names
    /\ MaxUsers \in Nat \ {0}
    /\ Keep \notin Names /\ Keep \notin {"admin", "user"} /\ Keep \notin BOOLEAN

UserIds == 1..MaxUsers
Roles   == {"admin", "user"}
Rows    == [name : Names, role : Roles, active : BOOLEAN]

ASSUME NoUserAssumption == NoUser \notin Rows /\ NoUser \notin UserIds

VARIABLES
    users,      \* the users table: id -> row, or NoUser
    nextId,     \* the AUTOINCREMENT sequence of that table
    issued,     \* token -> the user id in its "sub" claim, or NoUser
    revoked,    \* the revoked_tokens table
    expired     \* the tokens past their "exp"

vars == <<users, nextId, issued, revoked, expired>>

Existing     == {u \in UserIds : users[u] # NoUser}
Admins       == {u \in Existing : users[u].role = "admin"}
ActiveAdmins == {u \in Admins : users[u].active}

\* SELECT ... WHERE username = ? AND id != ?
NameTaken(n, u) == \E v \in Existing : v # u /\ users[v].name = n

-----------------------------------------------------------------------------
(* Sessions *)

\* decode_access_token: a signed, unexpired and unrevoked token
Decodes(t) == issued[t] # NoUser /\ t \notin revoked /\ t \notin expired

\* the part of get_current_user no later request can undo
Alive(t) == Decodes(t) /\ users[issued[t]] # NoUser

\* get_current_user: the session t acts for the active user u
CurrentUser(t, u) == Alive(t) /\ issued[t] = u /\ users[u].active

\* require_admin: the role is the one in the table, not the one in the token
AdminSession(t, u) == CurrentUser(t, u) /\ users[u].role = "admin"

\* create_access_token: the jti is fresh
Issue(t, u) == /\ issued[t] = NoUser
               /\ issued' = [issued EXCEPT ![t] = u]

\* POST /auth/login with the right password of an active account
Login(t, u) ==
    /\ u \in Existing
    /\ users[u].active
    /\ Issue(t, u)
    /\ UNCHANGED <<users, nextId, revoked, expired>>

\* POST /auth/logout
Logout(t, u) ==
    /\ CurrentUser(t, u)
    /\ revoked' = revoked \cup {t}
    /\ UNCHANGED <<users, nextId, issued, expired>>

\* POST /auth/change-username with the right password: the row is renamed, the
\* token of the request is revoked and a fresh one is returned.
ChangeUsername(t, u, n, fresh) ==
    /\ CurrentUser(t, u)
    /\ ~NameTaken(n, u)
    /\ users' = [users EXCEPT ![u].name = n]
    /\ revoked' = revoked \cup {t}
    /\ Issue(fresh, u)
    /\ UNCHANGED <<nextId, expired>>

\* A token passes its "exp" claim.
Expire(t) ==
    /\ issued[t] # NoUser
    /\ t \notin expired
    /\ expired' = expired \cup {t}
    /\ UNCHANGED <<users, nextId, issued, revoked>>

-----------------------------------------------------------------------------
(* Administration; t is the session of the administrator a *)

\* Mutant: without AUTOINCREMENT the id of the last row deleted is given again.
InsertUser_ReusesId(row) ==
    \E u \in UserIds :
        /\ \A v \in Existing : v < u
        /\ \A w \in 1..(u - 1) : \E v \in Existing : w <= v
        /\ users' = [users EXCEPT ![u] = row]
        /\ nextId' = u + 1

InsertUser(row) ==
    /\ nextId \in UserIds
    /\ users' = [users EXCEPT ![nextId] = row]
    /\ nextId' = nextId + 1

CreateUser(t, a, n, r) ==
    /\ AdminSession(t, a)
    /\ ~NameTaken(n, NoUser)
    /\ InsertUser([name |-> n, role |-> r, active |-> TRUE])
    /\ UNCHANGED <<issued, revoked, expired>>

New(field, old) == IF field = Keep THEN old ELSE field

\* Mutant: the count includes the deactivated administrators.
MayDemote_CountsInactive == Cardinality(Admins) > 1

\* "Prevent demoting the only admin"
MayDemote == Cardinality(ActiveAdmins) > 1

\* "Cannot deactivate your own account"
MayDeactivate(u, a) == u # a

\* PUT /users/{u}: every field of the request is optional.
UpdateUser(t, a, u, n, r, act) ==
    /\ AdminSession(t, a)
    /\ u \in Existing
    /\ n # Keep => ~NameTaken(n, u)
    /\ users[u].role = "admin" /\ r = "user" => MayDemote
    /\ act = FALSE => MayDeactivate(u, a)
    /\ users' = [users EXCEPT ![u] = [name   |-> New(n, @.name),
                                      role   |-> New(r, @.role),
                                      active |-> New(act, @.active)]]
    /\ UNCHANGED <<nextId, issued, revoked, expired>>

\* DELETE /users/{u}: the row goes, the sessions of the user stay issued.
DeleteUser(t, a, u) ==
    /\ AdminSession(t, a)
    /\ u \in Existing \ {a}
    /\ users[u].role = "admin" => Cardinality(Admins) > 1
    /\ users' = [users EXCEPT ![u] = NoUser]
    /\ UNCHANGED <<nextId, issued, revoked, expired>>

-----------------------------------------------------------------------------
SeedAdmin == [name |-> AdminName, role |-> "admin", active |-> TRUE]

\* _init_default_admin seeds only an empty table.
SeedNeeded == Existing = {}

\* Start-up and restart: the tables and the signing key persist, so a restart
\* only seeds, and only if it has to.
StartUp ==
    /\ SeedNeeded
    /\ InsertUser(SeedAdmin)
    /\ UNCHANGED <<issued, revoked, expired>>

\* The empty database.
Init ==
    /\ users = [u \in UserIds |-> NoUser]
    /\ nextId = 1
    /\ issued = [t \in Tokens |-> NoUser]
    /\ revoked = {}
    /\ expired = {}

SelfService(t, u) ==
    \/ Login(t, u)
    \/ Logout(t, u)
    \/ \E n \in Names, fresh \in Tokens : ChangeUsername(t, u, n, fresh)

Administration(t, a) ==
    \/ \E n \in Names, r \in Roles : CreateUser(t, a, n, r)
    \/ \E u \in UserIds, n \in Names \cup {Keep}, r \in Roles \cup {Keep},
          act \in BOOLEAN \cup {Keep} : UpdateUser(t, a, u, n, r, act)
    \/ \E u \in UserIds : DeleteUser(t, a, u)

Next ==
    \/ \E t \in Tokens, u \in UserIds : SelfService(t, u) \/ Administration(t, u)
    \/ \E t \in Tokens : Expire(t)
    \/ StartUp

Spec == Init /\ [][Next]_vars

-----------------------------------------------------------------------------
(* Properties *)

\* Every variable stays in its range; ids are given out below the sequence.
TypeOK ==
    /\ users \in [UserIds -> Rows \cup {NoUser}]
    /\ nextId \in 1..(MaxUsers + 1)
    /\ issued \in [Tokens -> UserIds \cup {NoUser}]
    /\ revoked \subseteq Tokens
    /\ expired \subseteq Tokens

\* However administrators demote, deactivate and delete each other and
\* themselves, once the first start-up is over an active administrator is left.
AdministrationSurvives == nextId > 1 => ActiveAdmins # {}

\* Two accounts never share a name, through creation, renaming by the user and
\* renaming by an administrator, of deactivated accounts too.
UniqueNames ==
    \A u, v \in Existing : users[u].name = users[v].name => u = v

\* A session that was revoked, expired or lost its account never comes back:
\* neither does the id of a deleted account, so nobody inherits its sessions.
DeadSessionsStayDead ==
    [][\A t \in Tokens : issued[t] # NoUser /\ ~Alive(t) => ~Alive(t)']_vars
=============================================================================
