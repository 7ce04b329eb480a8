----------------------------- MODULE BrowserSession -----------------------------
(***************************************************************************)
(* The browser's session: the token of api.js, the WebSocket of ws.js and  *)
(* the screen app.js shows.                                                *)
(*                                                                         *)
(* JavaScript runs one handler at a time, so a step is what runs between   *)
(* two awaits.  A request carries the credential it was sent with; the     *)
(* server decides its answer (Serve) before the page hears of it.  A       *)
(* socket that close() was called on tells so later, by its close event.   *)
(* Socket names are used again once nothing more can be heard of them.     *)
(* lockScreen only covers the desktop and is in module Desktop.            *)
(***************************************************************************)
EXTENDS Naturals

CONSTANTS
    Sockets,    \* names for the WebSocket objects
    None,       \* no socket
    MaxTokens,  \* bound: how many tokens the server issues
    MaxFaults   \* bound: how often the network fails

ASSUME NoneAssumption == None \notin Sockets
ASSUME BoundsAssumption == MaxTokens \in Nat \ {0} /\ MaxFaults \in Nat

VARIABLES
    token,      \* api.token, 0 none
    cookie,     \* the browser's homedock_token cookie, 0 none
    view,       \* the screen that is shown
    ws,         \* wsManager.ws
    sock,       \* socket -> readyState, its token, whether a sign-out waited when it was made
    heartbeat,  \* heartbeatTimer is running
    timer,      \* reconnectTimer is running
    req,        \* handler -> the request it awaits
    valid,      \* the server's sessions
    issued,     \* how many tokens there are
    faults,     \* how often the network has failed
    stray       \* a rename was answered when the page had lost its token

socketVars == <<ws, sock, heartbeat, timer>>
serverVars == <<valid, issued>>
vars == <<token, cookie, view, socketVars, req, serverVars, faults, stray>>

Tokens   == 1 .. MaxTokens
Handlers == {"sign", "out", "rename", "call"}
Idle     == [at |-> "idle", tok |-> 0, answer |-> "none", new |-> 0]
NoSocket == [st |-> "none", tok |-> 0, slow |-> FALSE]

TypeOK ==
    /\ token \in Tokens \cup {0}
    /\ cookie \in Tokens \cup {0}
    /\ view \in {"auth", "app"}
    /\ ws \in Sockets \cup {None}
    /\ sock \in [Sockets -> [st : {"none", "connecting", "open", "closing"},
                             tok : Tokens \cup {0}, slow : BOOLEAN]]
    /\ heartbeat \in BOOLEAN
    /\ timer \in BOOLEAN
    /\ req \in [Handlers -> [at : {"idle", "login", "me", "out", "rename", "call"},
                             tok : Tokens \cup {0},
                             answer : {"none", "ok", "refused", "failed"},
                             new : Tokens \cup {0}]]
    /\ valid \subseteq Tokens
    /\ issued \in 0 .. MaxTokens
    /\ faults \in 0 .. MaxFaults
    /\ stray \in BOOLEAN

\* The page is loaded: without a token the sign-in screen, else the token of an
\* earlier visit is tried first.
Init ==
    /\ view = "auth"
    /\ ws = None
    /\ sock = [s \in Sockets |-> NoSocket]
    /\ heartbeat = FALSE
    /\ timer = FALSE
    /\ faults = 0
    /\ stray = FALSE
    /\ \/ /\ token = 0 /\ cookie = 0 /\ valid = {} /\ issued = 0
          /\ req = [h \in Handlers |-> Idle]
       \/ /\ token = 1 /\ cookie = 1 /\ issued = 1
          /\ valid \in {{}, {1}}
          /\ req = [[h \in Handlers |-> Idle] EXCEPT !["sign"] = [Idle EXCEPT !.at = "me", !.tok = 1]]

-----------------------------------------------------------------------------
(* wsManager *)

Live(s) == sock[s].st \in {"connecting", "open"}
Connected == ws # None /\ sock[ws].st = "open"

\* Mutant: connect does not look whether there is a socket already.
Connect_Always ==
    IF token = 0
    THEN UNCHANGED <<ws, sock>>
    ELSE \E s \in Sockets :
            /\ sock[s].st = "none"
            /\ ws' = s
            /\ sock' = [sock EXCEPT ![s] = [st |-> "connecting", tok |-> token,
                                            slow |-> req["out"].at # "idle"]]

\* A new socket, unless there is a live one or no token.
Connect ==
    IF token = 0 \/ (ws # None /\ Live(ws))
    THEN UNCHANGED <<ws, sock>>
    ELSE \E s \in Sockets :
            /\ sock[s].st = "none"
            /\ ws' = s
            /\ sock' = [sock EXCEPT ![s] = [st |-> "connecting", tok |-> token,
                                            slow |-> req["out"].at # "idle"]]

Closing(s) == [sock EXCEPT ![s].st = IF @ \in {"connecting", "open"} THEN "closing" ELSE @]

Disconnect ==
    /\ heartbeat' = FALSE
    /\ timer' = FALSE
    /\ ws' = None
    /\ sock' = IF ws = None THEN sock ELSE Closing(ws)

\* The server accepts a socket whose token is a session: onopen.
Opened(s) ==
    /\ sock[s].st = "connecting"
    /\ sock[s].tok \in valid
    /\ sock' = [sock EXCEPT ![s].st = "open"]
    /\ heartbeat' = TRUE
    /\ UNCHANGED <<token, cookie, view, ws, timer, req, serverVars, faults, stray>>

\* Mutant: no new attempt is made when a socket closes.
Closed_NoRetry(s, failed) ==
    /\ sock' = LET hit == IF failed /\ ws # None /\ ws # s THEN Closing(ws) ELSE sock
               IN [hit EXCEPT ![s] = NoSocket]
    /\ heartbeat' = FALSE
    /\ UNCHANGED <<token, cookie, view, ws, timer, req, serverVars, stray>>

\* A socket is over.  If it failed its error event comes first and closes
\* whichever socket is this.ws; then its close event stops the heartbeat and
\* starts the timer of a new attempt, whichever socket is this.ws.
Closed(s, failed) ==
    /\ sock' = LET hit == IF failed /\ ws # None /\ ws # s THEN Closing(ws) ELSE sock
               IN [hit EXCEPT ![s] = NoSocket]
    /\ heartbeat' = FALSE
    /\ timer' = TRUE
    /\ UNCHANGED <<token, cookie, view, ws, req, serverVars, stray>>

\* close() takes effect; of a socket that was not open yet it makes an error too.
CloseDone(s) ==
    /\ sock[s].st = "closing"
    /\ \E failed \in BOOLEAN : Closed(s, failed)
    /\ UNCHANGED faults

\* The server refuses a socket without a session.
Refused(s) ==
    /\ sock[s].st = "connecting"
    /\ sock[s].tok \notin valid
    /\ Closed(s, TRUE)
    /\ UNCHANGED faults

\* The connection is lost.
Dropped(s) ==
    /\ Live(s)
    /\ faults < MaxFaults
    /\ faults' = faults + 1
    /\ Closed(s, TRUE)

\* The timer of scheduleReconnect; connect looks for a token too.
Reconnect ==
    /\ timer
    /\ timer' = FALSE
    /\ Connect
    /\ UNCHANGED <<token, cookie, view, heartbeat, req, serverVars, faults, stray>>

-----------------------------------------------------------------------------
(* Requests: sent by the page, served, lost or not, then answered *)

\* The credential of a request: the token, or else the cookie.
Sent(kind) == [Idle EXCEPT !.at = kind, !.tok = IF token # 0 THEN token ELSE cookie]

SubmitLogin ==
    /\ view = "auth"
    /\ req["sign"].at = "idle"
    /\ req' = [req EXCEPT !["sign"] = Sent("login")]
    /\ UNCHANGED <<token, cookie, view, socketVars, serverVars, faults, stray>>

\* The feed is closed first, then the server is told.
ClickLogout ==
    /\ view = "app"
    /\ req["out"].at = "idle"
    /\ Disconnect
    /\ req' = [req EXCEPT !["out"] = Sent("out")]
    /\ UNCHANGED <<token, cookie, view, serverVars, faults, stray>>

SubmitRename ==
    /\ view = "app"
    /\ req["rename"].at = "idle"
    /\ req' = [req EXCEPT !["rename"] = Sent("rename")]
    /\ UNCHANGED <<token, cookie, view, socketVars, serverVars, faults, stray>>

\* Any other request of the page: a listing, a poll of the live watcher.
Call ==
    /\ req["call"].at = "idle"
    /\ req' = [req EXCEPT !["call"] = Sent("call")]
    /\ UNCHANGED <<token, cookie, view, socketVars, serverVars, faults, stray>>

Answer(h, answer, new) == req' = [req EXCEPT ![h].answer = answer, ![h].new = new]

\* The server makes its answer: refused without a session (to login: without the
\* right password), failed for any other reason.
Serve(h) ==
    /\ req[h].at # "idle"
    /\ req[h].answer = "none"
    /\ \/ Answer(h, "failed", 0) /\ UNCHANGED serverVars
       \/ /\ req[h].at = "login" \/ req[h].tok \notin valid
          /\ Answer(h, "refused", 0)
          /\ UNCHANGED serverVars
       \/ /\ req[h].at \in {"me", "call"}
          /\ req[h].tok \in valid
          /\ Answer(h, "ok", 0)
          /\ UNCHANGED serverVars
       \/ /\ req[h].at = "out"
          /\ req[h].tok \in valid
          /\ valid' = valid \ {req[h].tok}
          /\ Answer(h, "ok", 0)
          /\ UNCHANGED issued
       \/ /\ req[h].at = "login" \/ (req[h].at = "rename" /\ req[h].tok \in valid)
          /\ issued < MaxTokens
          /\ issued' = issued + 1
          /\ valid' = (IF req[h].at = "login" THEN valid ELSE valid \ {req[h].tok}) \cup {issued + 1}
          /\ Answer(h, "ok", issued + 1)
    /\ UNCHANGED <<token, cookie, view, socketVars, faults, stray>>

\* The request or its answer is lost: fetch throws.
Lost(h) ==
    /\ req[h].at # "idle"
    /\ req[h].answer # "failed"
    /\ faults < MaxFaults
    /\ faults' = faults + 1
    /\ Answer(h, "failed", 0)
    /\ UNCHANGED <<token, cookie, view, socketVars, serverVars, stray>>

\* A session ends on the server: it expires or its user is deleted.
Expire ==
    /\ \E t \in valid : valid' = valid \ {t}
    /\ UNCHANGED <<token, cookie, view, socketVars, req, issued, faults, stray>>

Over(h) == req' = [req EXCEPT ![h] = Idle]

\* Mutant: the answer 401 leaves the feed running.
Refusal_KeepFeed ==
    /\ token' = 0
    /\ view' = "auth"
    /\ UNCHANGED socketVars

\* request() on 401: the token goes, whichever one was sent, and auth_required
\* closes the feed and shows the sign-in screen.
Refusal ==
    /\ token' = 0
    /\ view' = "auth"
    /\ Disconnect

\* The sign-in is answered: with a token checkAuth asks who it is.
LoginAnswered ==
    /\ req["sign"].at = "login"
    /\ \/ /\ req["sign"].answer = "ok"
          /\ token' = req["sign"].new
          /\ cookie' = req["sign"].new
          /\ req' = [req EXCEPT !["sign"] = [Idle EXCEPT !.at = "me", !.tok = req["sign"].new]]
          /\ UNCHANGED <<view, socketVars>>
       \/ req["sign"].answer = "refused" /\ Refusal /\ Over("sign") /\ UNCHANGED cookie
       \/ req["sign"].answer = "failed" /\ Over("sign") /\ UNCHANGED <<token, cookie, view, socketVars>>
    /\ UNCHANGED <<serverVars, faults, stray>>

\* checkAuth after getMe.
MeAnswered ==
    /\ req["sign"].at = "me"
    /\ \/ /\ req["sign"].answer = "ok"
          /\ view' = "app"
          /\ Connect
          /\ UNCHANGED <<token, heartbeat, timer>>
       \/ req["sign"].answer = "refused" /\ Refusal
       \/ req["sign"].answer = "failed" /\ view' = "auth" /\ UNCHANGED <<token, socketVars>>
    /\ Over("sign")
    /\ UNCHANGED <<cookie, serverVars, faults, stray>>

\* Whatever the server says, the token goes and the sign-in screen is shown.
LogoutAnswered ==
    /\ req["out"].answer # "none"
    /\ token' = 0
    /\ view' = "auth"
    /\ cookie' = IF req["out"].answer = "ok" THEN 0 ELSE cookie
    /\ IF req["out"].answer = "refused" THEN Disconnect ELSE UNCHANGED socketVars
    /\ Over("out")
    /\ UNCHANGED <<serverVars, faults, stray>>

\* changeUsername: the new token, then user_updated shows the desktop.
RenameAnswered ==
    /\ req["rename"].at = "rename"
    /\ \/ /\ req["rename"].answer = "ok"
          /\ token' = req["rename"].new
          /\ cookie' = req["rename"].new
          /\ view' = "app"
          /\ stray' = (stray \/ token = 0)
          /\ UNCHANGED socketVars
       \/ req["rename"].answer = "refused" /\ Refusal /\ UNCHANGED <<cookie, stray>>
       \/ req["rename"].answer = "failed" /\ UNCHANGED <<token, cookie, view, socketVars, stray>>
    /\ Over("rename")
    /\ UNCHANGED <<serverVars, faults>>

CallAnswered ==
    /\ req["call"].answer # "none"
    /\ IF req["call"].answer = "refused" THEN Refusal ELSE UNCHANGED <<token, view, socketVars>>
    /\ Over("call")
    /\ UNCHANGED <<cookie, serverVars, faults, stray>>

-----------------------------------------------------------------------------

SocketEvent == \E s \in Sockets : Opened(s) \/ CloseDone(s) \/ Refused(s) \/ Dropped(s)
User == SubmitLogin \/ ClickLogout \/ SubmitRename \/ Call
Answered == LoginAnswered \/ MeAnswered \/ LogoutAnswered \/ RenameAnswered \/ CallAnswered

Next ==
    \/ SocketEvent
    \/ Reconnect
    \/ User
    \/ \E h \in Handlers : Serve(h) \/ Lost(h)
    \/ Expire
    \/ Answered

Spec == Init /\ [][Next]_vars

\* Timers fire, and the browser hears of what a socket came to.  The delay of the
\* attempts grows to ten seconds, so one of many is answered before the error of
\* an older socket closes it.
Fairness ==
    /\ WF_vars(Reconnect)
    /\ \A s \in Sockets : SF_vars(Opened(s)) /\ WF_vars(CloseDone(s)) /\ WF_vars(Refused(s))

FairSpec == Spec /\ Fairness

-----------------------------------------------------------------------------

\* However often the page connects, disconnects and reconnects, the only socket
\* that can still deliver events is this.ws, and a heartbeat runs only for a
\* socket that is this.ws and was opened: no feed escapes disconnect.
OneLiveFeed ==
    /\ \A s \in Sockets : Live(s) => ws = s
    /\ heartbeat => Connected

\* Without a token the page has no feed: a socket is left only by a sign-out
\* whose answer took longer than the reconnection, and then it is that one.
OnlyASlowSignOutLeavesAFeed ==
    token = 0 => \A s \in Sockets : Live(s) => sock[s].slow

\* A page that shows the desktop with a session the server knows gets its feed
\* (back): after a lost connection, a failed or late close of an old socket, or a
\* rename.  The exception is a rename answered when the page had lost its token.
OnlyALateRenameLosesTheFeed ==
    (view = "app" /\ token \in valid) ~> (Connected \/ token \notin valid \/ view = "auth"
                                          \/ stray \/ req["out"].at # "idle")
=============================================================================
