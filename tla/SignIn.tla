-------------------------------- MODULE SignIn --------------------------------
(***************************************************************************)
(* The login route (app/routers/auth.py) as a whole: the lockout of        *)
(* addresses (LoginShield) in front of the accounts and their sessions     *)
(* (Accounts).  A login from an address that is not locked out counts      *)
(* against the address or clears its count and issues a session; every     *)
(* other request leaves the lockout alone.                                 *)
(***************************************************************************)
EXTENDS Accounts, LoginShield

SignInVars == <<vars, shieldVars>>

SignInInit == Init /\ ShieldInit

\* The wrong password, or no such account.
WrongPassword(a) == LoginFails(a) /\ UNCHANGED vars

\* The right password of an active account: the count is cleared, then the token
\* is made.
RightPassword(a, t, u) == LoginSucceeds(a) /\ Login(t, u)

Request(t, u) ==
    /\ \/ Logout(t, u)
       \/ \E n \in Names, fresh \in Tokens : ChangeUsername(t, u, n, fresh)
       \/ Administration(t, u)
    /\ UNCHANGED shieldVars

SignInNext ==
    \/ \E a \in Addresses :
          \/ WrongPassword(a)
          \/ \E t \in Tokens, u \in UserIds : RightPassword(a, t, u)
    \/ \E t \in Tokens, u \in UserIds : Request(t, u)
    \/ (\E t \in Tokens : Expire(t)) /\ UNCHANGED shieldVars
    \/ StartUp /\ UNCHANGED shieldVars
    \/ Tick /\ UNCHANGED vars

SignInSpec == SignInInit /\ [][SignInNext]_SignInVars
=============================================================================
