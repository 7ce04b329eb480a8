----------------------------- MODULE LoginShield -----------------------------
(***************************************************************************)
(* The lockout of addresses that fail to log in: the login_attempts table  *)
(* (app/security.py) and the login route (app/routers/auth.py).  The route *)
(* has no await between check_rate_limit and its verdict, so a login is    *)
(* one step; the table is on disk and survives a restart.  An absent row   *)
(* has 0 attempts.  Time is whole ticks.                                   *)
(***************************************************************************)
EXTENDS Naturals, Sequences

CONSTANTS
    Addresses,     \* client addresses
    MaxAttempts,   \* RATE_LIMIT_MAX_ATTEMPTS
    Lockout,       \* RATE_LIMIT_LOCKOUT_SECONDS, in ticks
    MaxTime,       \* bound: the clock stops
    MaxFailures    \* bound: failures of an address in a row

ASSUME ShieldAssumption ==
    /\ MaxAttempts \in Nat \ {0}
    /\ Lockout \in Nat
    /\ MaxTime \in Nat
    /\ MaxFailures \in Nat

VARIABLES
    now,           \* time.time()
    attempts,      \* address -> the attempts column
    lockedUntil,   \* address -> the locked_until column
    failures       \* history: when the address failed since its last success

shieldVars == <<now, attempts, lockedUntil, failures>>

ShieldInit ==
    /\ now = 0
    /\ attempts = [a \in Addresses |-> 0]
    /\ lockedUntil = [a \in Addresses |-> 0]
    /\ failures = [a \in Addresses |-> <<>>]

check_rate_limit(a) == lockedUntil[a] <= now

\* Mutant: one failure more before the lock.
LockFrom_OffByOne(n) == IF n > MaxAttempts THEN now + Lockout ELSE 0

\* locked_until after the n-th failure; the first one only makes the row.
LockFrom(n) == IF n > 1 /\ n >= MaxAttempts THEN now + Lockout ELSE 0

\* record_failed_attempt
record_failed_attempt(a) ==
    /\ attempts' = [attempts EXCEPT ![a] = @ + 1]
    /\ lockedUntil' = [lockedUntil EXCEPT ![a] = LockFrom(attempts[a] + 1)]
    /\ failures' = [failures EXCEPT ![a] = Append(@, now)]

\* record_successful_login deletes the row.
record_successful_login(a) ==
    /\ attempts' = [attempts EXCEPT ![a] = 0]
    /\ lockedUntil' = [lockedUntil EXCEPT ![a] = 0]
    /\ failures' = [failures EXCEPT ![a] = <<>>]

LoginFails(a) ==
    /\ check_rate_limit(a)
    /\ Len(failures[a]) < MaxFailures
    /\ record_failed_attempt(a)
    /\ UNCHANGED now

\* The right password of an active user.  For a deactivated one the route
\* answers 403 and records nothing; for a locked address, 429 and nothing.
LoginSucceeds(a) ==
    /\ check_rate_limit(a)
    /\ record_successful_login(a)
    /\ UNCHANGED now

Tick ==
    /\ now < MaxTime
    /\ now' = now + 1
    /\ UNCHANGED <<attempts, lockedUntil, failures>>

ShieldNext == Tick \/ \E a \in Addresses : LoginFails(a) \/ LoginSucceeds(a)

ShieldSpec == ShieldInit /\ [][ShieldNext]_shieldVars

-----------------------------------------------------------------------------
(* Properties *)

\* Every variable stays in its range, and the table counts the failures since
\* the last success.
ShieldTypeOK ==
    /\ now \in Nat
    /\ attempts \in [Addresses -> Nat]
    /\ lockedUntil \in [Addresses -> Nat]
    /\ failures \in [Addresses -> Seq(Nat)]
    /\ \A a \in Addresses : attempts[a] = Len(failures[a])

\* The brute-force shield: of the passwords an address gets wrong without a
\* success in between, no more than MaxAttempts fall into any period shorter
\* than the lockout, and neither an expired lock nor the counter, which never
\* falls back by itself, changes that.
GuessesAreSpaced ==
    \A a \in Addresses : \A i, j \in 1 .. Len(failures[a]) :
        i + MaxAttempts = j => failures[a][j] >= failures[a][i] + Lockout
=============================================================================
