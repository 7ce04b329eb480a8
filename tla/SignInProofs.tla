---------------------------- MODULE SignInProofs ----------------------------
(***************************************************************************)
(* Accounts, their sessions and the brute-force shield, for any number of  *)
(* names, sessions, accounts and addresses, every lockout and every        *)
(* maximum of attempts but 1, for which the first failure does not lock;   *)
(* then the login route, which composes the three.                         *)
(***************************************************************************)
EXTENDS SignIn, FiniteSetTheorems, TLAPS

\* Ids are given out in order: rows and sessions name ids below the sequence.
IdsBelowSequence ==
    /\ \A u \in Existing : u < nextId
    /\ \A t \in Tokens : issued[t] # NoUser => issued[t] < nextId

IInv == TypeOK /\ IdsBelowSequence

-----------------------------------------------------------------------------
(* Every variable keeps its type. *)

LEMMA TypeInit == Init => TypeOK
  BY AccountsAssumption DEF Init, TypeOK, UserIds

LEMMA TypeNext == TypeOK /\ [Next]_vars => TypeOK'
<1> SUFFICES ASSUME TypeOK, [Next]_vars PROVE TypeOK'
  OBVIOUS
<1> USE AccountsAssumption, NoUserAssumption DEF TypeOK
<1>1. ASSUME NEW t \in Tokens, NEW u \in UserIds, Login(t, u) PROVE TypeOK'
  BY <1>1 DEF Login, Issue
<1>2. ASSUME NEW t \in Tokens, NEW u \in UserIds, Logout(t, u) PROVE TypeOK'
  BY <1>2 DEF Logout
<1>3. ASSUME NEW t \in Tokens, NEW u \in UserIds, NEW n \in Names,
             NEW fresh \in Tokens, ChangeUsername(t, u, n, fresh)
      PROVE  TypeOK'
  <2>1. users[u] \in Rows
    BY <1>3 DEF ChangeUsername, CurrentUser, Alive
  <2>2. [users[u] EXCEPT !.name = n] \in Rows
    BY <2>1 DEF Rows
  <2>3. users' = [users EXCEPT ![u] = [users[u] EXCEPT !.name = n]]
    BY <1>3 DEF ChangeUsername
  <2>4. users' \in [UserIds -> Rows \cup {NoUser}]
    BY <2>2, <2>3
  <2> QED
    BY <1>3, <2>4 DEF ChangeUsername, Issue
<1>4. ASSUME NEW t \in Tokens, NEW a \in UserIds, NEW n \in Names, NEW r \in Roles,
             CreateUser(t, a, n, r)
      PROVE  TypeOK'
  <2>1. [name |-> n, role |-> r, active |-> TRUE] \in Rows
    BY DEF Rows
  <2> QED
    BY <1>4, <2>1 DEF CreateUser, InsertUser, UserIds
<1>5. ASSUME NEW t \in Tokens, NEW a \in UserIds, NEW u \in UserIds,
             NEW n \in Names \cup {Keep}, NEW r \in Roles \cup {Keep},
             NEW act \in BOOLEAN \cup {Keep}, UpdateUser(t, a, u, n, r, act)
      PROVE  TypeOK'
  <2>1. users[u] \in Rows
    BY <1>5 DEF UpdateUser, Existing
  <2>2. [name |-> New(n, users[u].name), role |-> New(r, users[u].role),
         active |-> New(act, users[u].active)] \in Rows
    BY <2>1 DEF New, Rows
  <2> QED
    BY <1>5, <2>2 DEF UpdateUser
<1>6. ASSUME NEW t \in Tokens, NEW a \in UserIds, NEW u \in UserIds,
             DeleteUser(t, a, u)
      PROVE  TypeOK'
  BY <1>6 DEF DeleteUser
<1>7. ASSUME NEW t \in Tokens, Expire(t) PROVE TypeOK'
  BY <1>7 DEF Expire
<1>8. CASE StartUp
  <2>1. SeedAdmin \in Rows
    BY DEF SeedAdmin, Rows, Roles
  <2> QED
    BY <1>8, <2>1 DEF StartUp, InsertUser, UserIds
<1>9. CASE UNCHANGED vars
  BY <1>9 DEF vars
<1> QED
  BY <1>1, <1>2, <1>3, <1>4, <1>5, <1>6, <1>7, <1>8, <1>9
     DEF Next, SelfService, Administration

\* The types hold in every reachable state.
THEOREM AccountsTypeCorrect == Spec => []TypeOK
  BY TypeInit, TypeNext, PTL DEF Spec

-----------------------------------------------------------------------------
(* Rows and sessions name ids below the sequence. *)

LEMMA SequenceInit == Init => IdsBelowSequence
  BY DEF Init, IdsBelowSequence, Existing

\* What a step may do to the tables of ids: at most one new row, at the
\* sequence, which then moves; sessions are only issued, to existing users.
LEMMA StepOnIds ==
  ASSUME TypeOK, [Next]_vars
  PROVE  /\ \/ /\ nextId' = nextId
               /\ \A u \in UserIds : users'[u] # NoUser => users[u] # NoUser
            \/ /\ nextId' = nextId + 1
               /\ \A u \in UserIds \ {nextId} : users'[u] = users[u]
         /\ \A t \in Tokens : \/ issued'[t] = issued[t]
                              \/ issued[t] = NoUser /\ issued'[t] \in Existing
         /\ revoked \subseteq revoked' /\ expired \subseteq expired'
<1> USE AccountsAssumption, NoUserAssumption DEF TypeOK
<1> DEFINE Goal ==
         /\ \/ /\ nextId' = nextId
               /\ \A u \in UserIds : users'[u] # NoUser => users[u] # NoUser
            \/ /\ nextId' = nextId + 1
               /\ \A u \in UserIds \ {nextId} : users'[u] = users[u]
         /\ \A t \in Tokens : \/ issued'[t] = issued[t]
                              \/ issued[t] = NoUser /\ issued'[t] \in Existing
         /\ revoked \subseteq revoked' /\ expired \subseteq expired'
<1>1. ASSUME NEW t \in Tokens, NEW u \in UserIds, Login(t, u) PROVE Goal
  BY <1>1 DEF Login, Issue
<1>2. ASSUME NEW t \in Tokens, NEW u \in UserIds, Logout(t, u) PROVE Goal
  BY <1>2 DEF Logout
<1>3. ASSUME NEW t \in Tokens, NEW u \in UserIds, NEW n \in Names,
             NEW fresh \in Tokens, ChangeUsername(t, u, n, fresh)
      PROVE  Goal
  <2>1. users[u] # NoUser
    BY <1>3 DEF ChangeUsername, CurrentUser, Alive
  <2>2. \A v \in UserIds \ {u} : users'[v] = users[v]
    BY <1>3 DEF ChangeUsername
  <2> QED
    BY <1>3, <2>1, <2>2 DEF ChangeUsername, Issue, Existing
<1>4. ASSUME NEW t \in Tokens, NEW a \in UserIds, NEW n \in Names, NEW r \in Roles,
             CreateUser(t, a, n, r)
      PROVE  Goal
  BY <1>4 DEF CreateUser, InsertUser, UserIds
<1>5. ASSUME NEW t \in Tokens, NEW a \in UserIds, NEW u \in UserIds,
             NEW n \in Names \cup {Keep}, NEW r \in Roles \cup {Keep},
             NEW act \in BOOLEAN \cup {Keep}, UpdateUser(t, a, u, n, r, act)
      PROVE  Goal
  <2>1. users[u] # NoUser
    BY <1>5 DEF UpdateUser, Existing
  <2>2. \A v \in UserIds \ {u} : users'[v] = users[v]
    BY <1>5 DEF UpdateUser
  <2> QED
    BY <1>5, <2>1, <2>2 DEF UpdateUser
<1>6. ASSUME NEW t \in Tokens, NEW a \in UserIds, NEW u \in UserIds,
             DeleteUser(t, a, u)
      PROVE  Goal
  BY <1>6 DEF DeleteUser
<1>7. ASSUME NEW t \in Tokens, Expire(t) PROVE Goal
  BY <1>7 DEF Expire
<1>8. CASE StartUp
  BY <1>8 DEF StartUp, InsertUser, UserIds
<1>9. CASE UNCHANGED vars
  BY <1>9 DEF vars
<1> QED
  BY <1>1, <1>2, <1>3, <1>4, <1>5, <1>6, <1>7, <1>8, <1>9
     DEF Next, SelfService, Administration

LEMMA SequenceNext == IInv /\ [Next]_vars => IdsBelowSequence'
<1> SUFFICES ASSUME IInv, [Next]_vars PROVE IdsBelowSequence'
  OBVIOUS
<1>1. TypeOK'
  BY TypeNext DEF IInv
<1>2. \A u \in Existing' : u < nextId'
  BY <1>1, StepOnIds DEF IInv, IdsBelowSequence, TypeOK, Existing, UserIds
<1>3. ASSUME NEW t \in Tokens, issued'[t] # NoUser PROVE issued'[t] < nextId'
  <2>1. nextId \in Nat /\ nextId <= nextId'
    BY StepOnIds DEF IInv, TypeOK
  <2>2. issued'[t] \in Nat /\ nextId' \in Nat
    BY <1>1, <1>3 DEF TypeOK, UserIds
  <2>3. issued'[t] < nextId
    BY <1>3, StepOnIds DEF IInv, IdsBelowSequence
  <2> QED
    BY <2>1, <2>2, <2>3
<1> QED
  BY <1>2, <1>3 DEF IdsBelowSequence

LEMMA IInvHolds == Spec => []IInv
<1>1. Init => IInv
  BY TypeInit, SequenceInit DEF IInv
<1>2. IInv /\ [Next]_vars => IInv'
  BY TypeNext, SequenceNext DEF IInv
<1> QED
  BY <1>1, <1>2, PTL DEF Spec

\* A revoked, expired or orphaned session never authenticates again, however
\* many accounts are created and deleted afterwards.
THEOREM SessionsDieForGood == Spec => DeadSessionsStayDead
<1>1. IInv /\ [Next]_vars
        => [\A t \in Tokens : issued[t] # NoUser /\ ~Alive(t) => ~Alive(t)']_vars
  <2> SUFFICES ASSUME IInv, [Next]_vars, NEW t \in Tokens,
                      issued[t] # NoUser, ~Alive(t)
               PROVE  ~Alive(t)'
    OBVIOUS
  <2>1. issued'[t] = issued[t] /\ revoked \subseteq revoked' /\ expired \subseteq expired'
    BY StepOnIds DEF IInv
  <2>2. CASE t \in revoked \/ t \in expired
    BY <2>1, <2>2 DEF Alive, Decodes
  <2>3. CASE users[issued[t]] = NoUser
    <3>1. issued[t] \in UserIds /\ issued[t] < nextId /\ nextId \in Nat
      BY DEF IInv, TypeOK, IdsBelowSequence
    <3>2. users'[issued[t]] = NoUser
      BY <2>3, <3>1, StepOnIds DEF IInv, UserIds
    <3> QED
      BY <2>1, <3>2 DEF Alive
  <2> QED
    BY <2>2, <2>3 DEF Alive, Decodes
<1> QED
  BY <1>1, IInvHolds, PTL DEF Spec, DeadSessionsStayDead

-----------------------------------------------------------------------------
(* An active administrator is left. *)

\* "More than one" leaves another one, whoever is taken away.
LEMMA AnotherOne ==
  ASSUME NEW S, IsFiniteSet(S), Cardinality(S) > 1, NEW a
  PROVE  \E b \in S : b # a
<1> SUFFICES ASSUME \A b \in S : b = a PROVE FALSE
  OBVIOUS
<1>1. CASE S = {}
  BY <1>1, FS_EmptySet
<1>2. CASE S # {}
  <2>1. S = {a}
    BY <1>2
  <2>2. Cardinality(S) = 1
    BY <2>1, FS_Singleton
  <2> QED
    BY <2>2
<1> QED
  BY <1>1, <1>2

LEMMA AdminsFinite == IsFiniteSet(ActiveAdmins)
<1>1. IsFiniteSet(UserIds)
  BY AccountsAssumption, FS_Interval DEF UserIds
<1> QED
  BY <1>1, FS_Subset DEF ActiveAdmins, Admins, Existing

\* The administrator who acts is still one after the step, unless the step is
\* the demotion of their own account, and then another one is active.
LEMMA AdministrationNext ==
  IInv /\ AdministrationSurvives /\ [Next]_vars => AdministrationSurvives'
<1> SUFFICES ASSUME IInv, AdministrationSurvives, [Next]_vars, nextId' > 1
             PROVE  ActiveAdmins' # {}
  BY DEF AdministrationSurvives
<1> USE AccountsAssumption, NoUserAssumption DEF IInv, TypeOK
<1>0. ASSUME UNCHANGED <<users, nextId>> PROVE ActiveAdmins' # {}
  BY <1>0 DEF AdministrationSurvives, ActiveAdmins, Admins, Existing
<1>1. ASSUME NEW t \in Tokens, NEW u \in UserIds, NEW n \in Names,
             NEW fresh \in Tokens, ChangeUsername(t, u, n, fresh)
      PROVE  ActiveAdmins' # {}
  <2>1. u \in Existing /\ nextId > 1
    BY <1>1 DEF ChangeUsername, CurrentUser, Alive, Existing, IdsBelowSequence, UserIds
  <2>2. PICK b \in ActiveAdmins : TRUE
    BY <2>1 DEF AdministrationSurvives
  <2>3. users[u] \in Rows
    BY <2>1 DEF Existing
  <2>4. b \in UserIds /\ users[b] \in Rows
    BY <2>2 DEF ActiveAdmins, Admins, Existing
  <2>5. users'[b].role = users[b].role /\ users'[b].active = users[b].active
        /\ users'[b] \in Rows
    BY <1>1, <2>3, <2>4 DEF ChangeUsername, Rows
  <2> QED
    BY <2>2, <2>4, <2>5 DEF ActiveAdmins, Admins, Existing
<1>2. ASSUME NEW t \in Tokens, NEW a \in UserIds, NEW n \in Names, NEW r \in Roles,
             CreateUser(t, a, n, r)
      PROVE  ActiveAdmins' # {}
  <2>1. a \in ActiveAdmins /\ a # nextId
    BY <1>2 DEF CreateUser, AdminSession, CurrentUser, Alive, IdsBelowSequence,
                ActiveAdmins, Admins, Existing, UserIds
  <2>2. users'[a] = users[a]
    BY <1>2, <2>1 DEF CreateUser, InsertUser, ActiveAdmins, Admins, Existing
  <2> QED
    BY <2>1, <2>2 DEF ActiveAdmins, Admins, Existing
<1>3. ASSUME NEW t \in Tokens, NEW a \in UserIds, NEW u \in UserIds,
             NEW n \in Names \cup {Keep}, NEW r \in Roles \cup {Keep},
             NEW act \in BOOLEAN \cup {Keep}, UpdateUser(t, a, u, n, r, act)
      PROVE  ActiveAdmins' # {}
  <2>1. a \in ActiveAdmins
    BY <1>3 DEF UpdateUser, AdminSession, CurrentUser, Alive,
                ActiveAdmins, Admins, Existing
  <2>2. \A v \in UserIds \ {u} : users'[v] = users[v]
    BY <1>3 DEF UpdateUser
  <2>3. CASE \E b \in ActiveAdmins : b # u
    BY <2>2, <2>3 DEF ActiveAdmins, Admins, Existing
  <2>4. CASE \A b \in ActiveAdmins : b = u
    <3>1. u = a
      BY <2>1, <2>4
    <3>2. ~MayDemote
      BY <2>4, AnotherOne, AdminsFinite DEF MayDemote
    <3>3. users[u].role = "admin" /\ users[u].active
      BY <2>1, <3>1 DEF ActiveAdmins, Admins
    <3>4. r # "user"
      BY <1>3, <3>2, <3>3 DEF UpdateUser
    <3>5. act # FALSE
      BY <1>3, <3>1 DEF UpdateUser, MayDeactivate
    <3>6. users'[u] = [name |-> New(n, users[u].name), role |-> New(r, users[u].role),
                       active |-> New(act, users[u].active)]
      BY <1>3 DEF UpdateUser
    <3>7. New(r, users[u].role) = "admin" /\ New(act, users[u].active) = TRUE
      BY <3>3, <3>4, <3>5 DEF New, Roles
    <3>8. users'[u] # NoUser
      <4>1. users[u] \in Rows
        BY <1>3 DEF UpdateUser, Existing
      <4> QED
        BY <3>6, <4>1 DEF New, Rows
    <3> QED
      BY <3>6, <3>7, <3>8 DEF ActiveAdmins, Admins, Existing
  <2> QED
    BY <2>3, <2>4
<1>4. ASSUME NEW t \in Tokens, NEW a \in UserIds, NEW u \in UserIds,
             DeleteUser(t, a, u)
      PROVE  ActiveAdmins' # {}
  <2>1. a \in ActiveAdmins /\ a # u
    BY <1>4 DEF DeleteUser, AdminSession, CurrentUser, Alive,
                ActiveAdmins, Admins, Existing
  <2>2. users'[a] = users[a]
    BY <1>4, <2>1 DEF DeleteUser, ActiveAdmins, Admins, Existing
  <2> QED
    BY <2>1, <2>2 DEF ActiveAdmins, Admins, Existing
<1>5. CASE StartUp
  <2>1. users'[nextId] = SeedAdmin /\ nextId \in UserIds
    BY <1>5 DEF StartUp, InsertUser
  <2>2. SeedAdmin \in Rows
    BY DEF SeedAdmin, Rows, Roles
  <2>3. SeedAdmin.role = "admin"
    BY DEF SeedAdmin
  <2>4. SeedAdmin.active
    BY DEF SeedAdmin
  <2> QED
    BY <2>1, <2>2, <2>3, <2>4 DEF ActiveAdmins, Admins, Existing
<1> QED
  BY <1>0, <1>1, <1>2, <1>3, <1>4, <1>5
     DEF Next, SelfService, Administration, Login, Logout, Expire, vars

\* Whatever administrators do to each other and to themselves, for any number
\* of them, an active administrator is left.
THEOREM SomeoneAdministers == Spec => []AdministrationSurvives
<1>1. Init => AdministrationSurvives
  BY DEF Init, AdministrationSurvives
<1> QED
  BY <1>1, IInvHolds, AdministrationNext, PTL DEF Spec

-----------------------------------------------------------------------------
(* Names stay unique. *)

\* A step that gives at most one row a new name, one that no other row has,
\* keeps the names unique.
LEMMA OneNewName ==
  ASSUME UniqueNames, NEW u \in UserIds, NEW n,
         users \in [UserIds -> Rows \cup {NoUser}],
         \A v \in UserIds \ {u} : users'[v] = users[v],
         users'[u] # NoUser => users'[u].name = n,
         ~NameTaken(n, u)
  PROVE  UniqueNames'
<1> SUFFICES ASSUME NEW v \in Existing', NEW w \in Existing',
                    users'[v].name = users'[w].name
             PROVE  v = w
  BY DEF UniqueNames
<1>1. v \in UserIds /\ w \in UserIds
  BY DEF Existing
<1>2. CASE v # u /\ w # u
  BY <1>1, <1>2 DEF UniqueNames, Existing
<1>3. CASE v = u /\ w # u
  BY <1>1, <1>3 DEF NameTaken, Existing
<1>4. CASE v # u /\ w = u
  BY <1>1, <1>4 DEF NameTaken, Existing
<1>5. CASE v = u /\ w = u
  BY <1>5
<1> QED
  BY <1>2, <1>3, <1>4, <1>5

LEMMA NamesNext == IInv /\ UniqueNames /\ [Next]_vars => UniqueNames'
<1> SUFFICES ASSUME IInv, UniqueNames, [Next]_vars PROVE UniqueNames'
  OBVIOUS
<1> USE AccountsAssumption, NoUserAssumption DEF IInv, TypeOK
<1>0. ASSUME UNCHANGED users PROVE UniqueNames'
  BY <1>0 DEF UniqueNames, Existing
<1>1. ASSUME NEW t \in Tokens, NEW u \in UserIds, NEW n \in Names,
             NEW fresh \in Tokens, ChangeUsername(t, u, n, fresh)
      PROVE  UniqueNames'
  <2>1. users[u] \in Rows
    BY <1>1 DEF ChangeUsername, CurrentUser, Alive
  <2>2. users'[u].name = n
    BY <1>1, <2>1 DEF ChangeUsername, Rows
  <2>3. \A v \in UserIds \ {u} : users'[v] = users[v]
    BY <1>1 DEF ChangeUsername
  <2>4. ~NameTaken(n, u)
    BY <1>1 DEF ChangeUsername
  <2> QED
    BY <2>2, <2>3, <2>4, OneNewName
<1>2. ASSUME NEW n \in Names, NEW row \in Rows,
             row.name = n, ~NameTaken(n, NoUser), InsertUser(row)
      PROVE  UniqueNames'
  <2>1. nextId \in UserIds
    BY <1>2 DEF InsertUser
  <2>2. \A v \in UserIds \ {nextId} : users'[v] = users[v]
    BY <1>2 DEF InsertUser
  <2>3. users'[nextId].name = n
    BY <1>2, <2>1 DEF InsertUser
  <2>4. ~NameTaken(n, nextId)
    BY <1>2 DEF NameTaken, Existing
  <2> QED
    BY <2>1, <2>2, <2>3, <2>4, OneNewName
<1>3. ASSUME NEW t \in Tokens, NEW a \in UserIds, NEW n \in Names, NEW r \in Roles,
             CreateUser(t, a, n, r)
      PROVE  UniqueNames'
  <2>1. [name |-> n, role |-> r, active |-> TRUE] \in Rows
    BY DEF Rows
  <2> QED
    BY <1>2, <1>3, <2>1 DEF CreateUser
<1>4. ASSUME NEW t \in Tokens, NEW a \in UserIds, NEW u \in UserIds,
             NEW n \in Names \cup {Keep}, NEW r \in Roles \cup {Keep},
             NEW act \in BOOLEAN \cup {Keep}, UpdateUser(t, a, u, n, r, act)
      PROVE  UniqueNames'
  <2>1. u \in Existing
    BY <1>4 DEF UpdateUser
  <2>2. users'[u].name = New(n, users[u].name)
    BY <1>4 DEF UpdateUser
  <2>3. \A v \in UserIds \ {u} : users'[v] = users[v]
    BY <1>4 DEF UpdateUser
  <2>4. ~NameTaken(New(n, users[u].name), u)
    BY <1>4, <2>1 DEF UpdateUser, New, NameTaken, UniqueNames
  <2> QED
    BY <2>2, <2>3, <2>4, OneNewName
<1>5. ASSUME NEW t \in Tokens, NEW a \in UserIds, NEW u \in UserIds,
             DeleteUser(t, a, u)
      PROVE  UniqueNames'
  BY <1>5 DEF DeleteUser, UniqueNames, Existing
<1>6. CASE StartUp
  <2>1. SeedAdmin \in Rows /\ SeedAdmin.name = AdminName
    BY DEF SeedAdmin, Rows, Roles
  <2>2. ~NameTaken(AdminName, NoUser)
    BY <1>6 DEF StartUp, SeedNeeded, NameTaken
  <2> QED
    BY <1>2, <1>6, <2>1, <2>2 DEF StartUp
<1> QED
  BY <1>0, <1>1, <1>3, <1>4, <1>5, <1>6
     DEF Next, SelfService, Administration, Login, Logout, Expire, vars

\* No two accounts ever share a name.
THEOREM NamesStayUnique == Spec => []UniqueNames
<1>1. Init => UniqueNames
  BY DEF Init, UniqueNames, Existing
<1> QED
  BY <1>1, IInvHolds, NamesNext, PTL DEF Spec

-----------------------------------------------------------------------------
(* The shield.  The spacing is not inductive by itself: it needs that an   *)
(* address over the limit is locked from its last failure on (Locked), and *)
(* that the failures are recorded in the order of time (Ordered).          *)

\* The failures of an address are in order, and none is in the future.
Ordered ==
    \A a \in Addresses : \A i, j \in 1 .. Len(failures[a]) :
        i <= j => failures[a][i] <= failures[a][j] /\ failures[a][j] <= now

\* An address at the limit is locked from its last failure on.
Locked ==
    \A a \in Addresses :
        Len(failures[a]) >= MaxAttempts =>
            lockedUntil[a] = failures[a][Len(failures[a])] + Lockout

ShieldInv == ShieldTypeOK /\ Ordered /\ Locked /\ GuessesAreSpaced

LEMMA ShieldInitInv == ASSUME MaxAttempts \in Nat \ {0} PROVE ShieldInit => ShieldInv
  BY DEF ShieldInit, ShieldInv, ShieldTypeOK, Ordered, Locked, GuessesAreSpaced

\* What a failed login does to the history of its address and of the others.
LEMMA FailureStep ==
    ASSUME ShieldInv, NEW a \in Addresses, LoginFails(a)
    PROVE  /\ lockedUntil[a] <= now
           /\ failures'[a] = Append(failures[a], now)
           /\ Len(failures'[a]) = Len(failures[a]) + 1
           /\ failures'[a][Len(failures[a]) + 1] = now
           /\ \A i \in 1 .. Len(failures[a]) : failures'[a][i] = failures[a][i]
           /\ lockedUntil'[a] = LockFrom(Len(failures[a]) + 1)
           /\ \A b \in Addresses \ {a} : /\ failures'[b] = failures[b]
                                         /\ lockedUntil'[b] = lockedUntil[b]
           /\ now' = now
           /\ ShieldTypeOK'
  <1>1. now \in Nat /\ failures[a] \in Seq(Nat) /\ attempts[a] = Len(failures[a])
    BY DEF ShieldInv, ShieldTypeOK
  <1>2. failures'[a] = Append(failures[a], now)
    BY DEF ShieldInv, ShieldTypeOK, LoginFails, record_failed_attempt
  <1>3. /\ Len(failures'[a]) = Len(failures[a]) + 1
        /\ failures'[a][Len(failures[a]) + 1] = now
        /\ \A i \in 1 .. Len(failures[a]) : failures'[a][i] = failures[a][i]
        /\ failures'[a] \in Seq(Nat)
    BY <1>1, <1>2
  <1>4. \A b \in Addresses \ {a} : /\ failures'[b] = failures[b]
                                   /\ lockedUntil'[b] = lockedUntil[b]
                                   /\ attempts'[b] = attempts[b]
    BY DEF ShieldInv, ShieldTypeOK, LoginFails, record_failed_attempt
  <1>5. LockFrom(attempts[a] + 1) \in Nat
    BY <1>1, ShieldAssumption DEF LockFrom
  <1>6. /\ lockedUntil'[a] = LockFrom(Len(failures[a]) + 1)
        /\ attempts'[a] = Len(failures[a]) + 1
    BY <1>1 DEF ShieldInv, ShieldTypeOK, LoginFails, record_failed_attempt
  <1>7. ShieldTypeOK'
    BY <1>1, <1>2, <1>3, <1>4, <1>5, <1>6
    DEF ShieldInv, ShieldTypeOK, LoginFails, record_failed_attempt
  <1>. QED  BY <1>2, <1>3, <1>4, <1>6, <1>7 DEF LoginFails, check_rate_limit

LEMMA ShieldNextInv ==
    ASSUME MaxAttempts \in Nat \ {0, 1}
    PROVE  ShieldInv /\ [ShieldNext]_shieldVars => ShieldInv'
  <1>. SUFFICES ASSUME ShieldInv, [ShieldNext]_shieldVars PROVE ShieldInv'
    OBVIOUS
  <1>1. ASSUME NEW a \in Addresses, LoginFails(a) PROVE ShieldInv'
    <2>. DEFINE n == Len(failures[a])
    <2>0. n \in Nat /\ now \in Nat /\ Lockout \in Nat /\ failures[a] \in Seq(Nat)
      BY ShieldAssumption DEF ShieldInv, ShieldTypeOK
    <2>1. ShieldTypeOK'
      BY <1>1, FailureStep
    <2>2. ASSUME NEW b \in Addresses, b # a
          PROVE  failures'[b] = failures[b] /\ lockedUntil'[b] = lockedUntil[b]
      BY <1>1, <2>2, FailureStep
    <2>3. /\ Len(failures'[a]) = n + 1
          /\ failures'[a][n + 1] = now
          /\ \A i \in 1 .. n : failures'[a][i] = failures[a][i]
          /\ lockedUntil'[a] = LockFrom(n + 1)
          /\ lockedUntil[a] <= now
          /\ now' = now
      BY <1>1, FailureStep
    <2>4. Ordered'
      <3>. SUFFICES ASSUME NEW b \in Addresses,
                           NEW i \in 1 .. Len(failures'[b]), NEW j \in 1 .. Len(failures'[b]),
                           i <= j
                    PROVE  failures'[b][i] <= failures'[b][j] /\ failures'[b][j] <= now'
        BY DEF Ordered
      <3>1. CASE b # a
        BY <3>1, <2>2, <2>3 DEF ShieldInv, Ordered
      <3>2. CASE b = a /\ j = n + 1
        <4>1. i = n + 1 \/ i \in 1 .. n
          BY <3>2, <2>0, <2>3
        <4>2. i \in 1 .. n => failures[a][i] <= now
          BY <2>0 DEF ShieldInv, Ordered
        <4>. QED  BY <3>2, <4>1, <4>2, <2>0, <2>3
      <3>3. CASE b = a /\ j # n + 1
        <4>1. i \in 1 .. n /\ j \in 1 .. n
          BY <3>3, <2>0, <2>3
        <4>. QED  BY <3>3, <4>1, <2>3 DEF ShieldInv, Ordered
      <3>. QED  BY <3>1, <3>2, <3>3
    <2>5. Locked'
      <3>. SUFFICES ASSUME NEW b \in Addresses, Len(failures'[b]) >= MaxAttempts
                    PROVE  lockedUntil'[b] = failures'[b][Len(failures'[b])] + Lockout
        BY DEF Locked
      <3>1. CASE b # a
        BY <3>1, <2>2 DEF ShieldInv, Locked
      <3>2. CASE b = a
        BY <3>2, <2>0, <2>3 DEF LockFrom
      <3>. QED  BY <3>1, <3>2
    <2>6. GuessesAreSpaced'
      <3>. SUFFICES ASSUME NEW b \in Addresses,
                           NEW i \in 1 .. Len(failures'[b]), NEW j \in 1 .. Len(failures'[b]),
                           i + MaxAttempts = j
                    PROVE  failures'[b][j] >= failures'[b][i] + Lockout
        BY DEF GuessesAreSpaced
      <3>1. CASE b # a
        BY <3>1, <2>2 DEF ShieldInv, GuessesAreSpaced
      <3>2. CASE b = a /\ j = n + 1
        <4>1. i \in 1 .. n /\ n \in 1 .. n /\ n >= MaxAttempts /\ i <= n
          BY <3>2, <2>0, <2>3
        <4>2. failures[a][n] + Lockout <= now
          BY <4>1, <2>3 DEF ShieldInv, Locked
        <4>3. failures[a][i] <= failures[a][n]
          BY <4>1 DEF ShieldInv, Ordered
        <4>4. failures[a][i] \in Nat /\ failures[a][n] \in Nat
          BY <4>1, <2>0
        <4>5. failures'[b][j] = now /\ failures'[b][i] = failures[a][i]
          BY <3>2, <4>1, <2>3
        <4>. QED  BY <4>2, <4>3, <4>4, <4>5, <2>0
      <3>3. CASE b = a /\ j # n + 1
        <4>1. i \in 1 .. n /\ j \in 1 .. n
          BY <3>3, <2>0, <2>3
        <4>. QED  BY <3>3, <4>1, <2>3 DEF ShieldInv, GuessesAreSpaced
      <3>. QED  BY <3>1, <3>2, <3>3
    <2>. QED  BY <2>1, <2>4, <2>5, <2>6 DEF ShieldInv
  <1>2. ASSUME NEW a \in Addresses, LoginSucceeds(a) PROVE ShieldInv'
    <2>1. ShieldTypeOK'
      BY <1>2 DEF ShieldInv, ShieldTypeOK, LoginSucceeds, record_successful_login
    <2>2. ASSUME NEW b \in Addresses
          PROVE  \/ b = a /\ Len(failures'[b]) = 0
                 \/ failures'[b] = failures[b] /\ lockedUntil'[b] = lockedUntil[b]
      BY <1>2 DEF ShieldInv, ShieldTypeOK, LoginSucceeds, record_successful_login
    <2>3. now' = now
      BY <1>2 DEF LoginSucceeds
    <2>. QED  BY <2>1, <2>2, <2>3 DEF ShieldInv, Ordered, Locked, GuessesAreSpaced
  <1>3. CASE Tick
    <2>1. ShieldTypeOK'
      BY <1>3 DEF ShieldInv, ShieldTypeOK, Tick
    <2>2. Ordered'
      <3>. SUFFICES ASSUME NEW b \in Addresses,
                           NEW i \in 1 .. Len(failures[b]), NEW j \in 1 .. Len(failures[b]),
                           i <= j
                    PROVE  failures[b][i] <= failures[b][j] /\ failures[b][j] <= now'
        BY <1>3 DEF Ordered, Tick
      <3>1. failures[b][i] <= failures[b][j] /\ failures[b][j] <= now
        BY DEF ShieldInv, Ordered
      <3>2. failures[b][j] \in Nat /\ now \in Nat /\ now' = now + 1
        BY <1>3 DEF ShieldInv, ShieldTypeOK, Tick
      <3>. QED  BY <3>1, <3>2
    <2>. QED  BY <1>3, <2>1, <2>2 DEF ShieldInv, Tick, Locked, GuessesAreSpaced
  <1>4. CASE UNCHANGED shieldVars
    BY <1>4 DEF shieldVars, ShieldInv, ShieldTypeOK, Ordered, Locked, GuessesAreSpaced
  <1>. QED  BY <1>1, <1>2, <1>3, <1>4 DEF ShieldNext

\* However an address spreads its logins, of any MaxAttempts + 1 wrong passwords
\* in a row the last comes at least a lockout after the first: login and the
\* login_attempts table keep GuessesAreSpaced for every maximum from 2 up.
THEOREM ShieldHolds ==
    ASSUME MaxAttempts \in Nat \ {0, 1}
    PROVE  ShieldSpec => []GuessesAreSpaced
  <1>1. ShieldInit => ShieldInv
    BY ShieldInitInv
  <1>2. ShieldInv /\ [ShieldNext]_shieldVars => ShieldInv'
    BY ShieldNextInv
  <1>3. ShieldInv => GuessesAreSpaced
    BY DEF ShieldInv
  <1>. QED  BY <1>1, <1>2, <1>3, PTL DEF ShieldSpec

-----------------------------------------------------------------------------
(* The login route implements both of its parts. *)

\* With the lockout in front of them the accounts are still those of Accounts.
THEOREM SignInKeepsAccounts == SignInSpec => Spec
  <1>1. SignInInit => Init
    BY DEF SignInInit
  <1>2. [SignInNext]_SignInVars => [Next]_vars
    <2>. SUFFICES ASSUME [SignInNext]_SignInVars PROVE [Next]_vars
      OBVIOUS
    <2>1. ASSUME NEW a \in Addresses, NEW t \in Tokens, NEW u \in UserIds, RightPassword(a, t, u)
          PROVE  Next
      BY <2>1 DEF RightPassword, Next, SelfService
    <2>2. ASSUME NEW t \in Tokens, NEW u \in UserIds, Request(t, u) PROVE Next
      BY <2>2 DEF Request, Next, SelfService
    <2>3. CASE (\E t \in Tokens : Expire(t)) \/ StartUp
      BY <2>3 DEF Next
    <2>4. CASE UNCHANGED vars
      BY <2>4
    <2>. QED  BY <2>1, <2>2, <2>3, <2>4 DEF SignInNext, SignInVars, WrongPassword
  <1>. QED  BY <1>1, <1>2, PTL DEF SignInSpec, Spec

\* Whatever happens to the accounts, the lockout is that of LoginShield.
THEOREM SignInKeepsShield == SignInSpec => ShieldSpec
  <1>1. SignInInit => ShieldInit
    BY DEF SignInInit
  <1>2. [SignInNext]_SignInVars => [ShieldNext]_shieldVars
    BY DEF SignInNext, SignInVars, WrongPassword, RightPassword, Request, ShieldNext
  <1>. QED  BY <1>1, <1>2, PTL DEF SignInSpec, ShieldSpec

\* The login route keeps GuessesAreSpaced for every maximum from 2 up.
THEOREM SignInSpacesGuesses ==
    ASSUME MaxAttempts \in Nat \ {0, 1}
    PROVE  SignInSpec => []GuessesAreSpaced
  BY ShieldHolds, SignInKeepsShield, PTL

\* The login route never leaves the server without an active administrator.
THEOREM SignInKeepsAdministration == SignInSpec => []AdministrationSurvives
  BY SomeoneAdministers, SignInKeepsAccounts, PTL

\* Signing in again does not revive a session that died.
THEOREM SignInKeepsDeadSessions == SignInSpec => DeadSessionsStayDead
  BY SessionsDieForGood, SignInKeepsAccounts, PTL
=============================================================================
