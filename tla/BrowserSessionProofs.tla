--------------------------- MODULE BrowserSessionProofs ---------------------------
(***************************************************************************)
(* BrowserSession, for any number of sockets, tokens and network faults.   *)
(***************************************************************************)
EXTENDS BrowserSession, TLAPS

\* Only a request that was made has an answer, and the answer to a sign-in or a
\* rename brings a token.
OnlyRequestsAreAnswered ==
    \A h \in Handlers :
        /\ req[h].answer # "none" => req[h].at # "idle"
        /\ req[h].answer = "ok" /\ req[h].at \in {"login", "rename"} => req[h].new # 0

\* While a sign-out waits for its answer, every feed is one that was opened since.
FeedsOfASignOutAreSlow ==
    req["out"].at # "idle" => \A s \in Sockets : Live(s) => sock[s].slow

IInv ==
    /\ TypeOK
    /\ OneLiveFeed
    /\ OnlyRequestsAreAnswered
    /\ FeedsOfASignOutAreSlow
    /\ OnlyASlowSignOutLeavesAFeed

Socket  == [st : {"none", "connecting", "open", "closing"}, tok : Tokens \cup {0}, slow : BOOLEAN]
Request == [at : {"idle", "login", "me", "out", "rename", "call"}, tok : Tokens \cup {0},
            answer : {"none", "ok", "refused", "failed"}, new : Tokens \cup {0}]

-----------------------------------------------------------------------------
(* Every variable keeps its type. *)

LEMMA TypeInit == Init => TypeOK
<1> SUFFICES ASSUME Init PROVE TypeOK
  OBVIOUS
<1>1. Idle \in Request /\ NoSocket \in Socket
  BY DEF Idle, NoSocket, Request, Socket
<1>2. sock \in [Sockets -> Socket]
  BY <1>1 DEF Init
<1>3. 1 \in Tokens /\ issued \in 0 .. MaxTokens
  BY BoundsAssumption DEF Init, Tokens
<1>4. [Idle EXCEPT !.at = "me", !.tok = 1] \in Request
  BY <1>3 DEF Idle, Request
<1>5. req \in [Handlers -> Request]
  BY <1>1, <1>4 DEF Init, Handlers
<1>6. token \in Tokens \cup {0} /\ cookie \in Tokens \cup {0} /\ valid \subseteq Tokens
  BY <1>3 DEF Init
<1>7. /\ view = "auth" /\ ws = None /\ heartbeat = FALSE /\ timer = FALSE
      /\ faults = 0 /\ stray = FALSE
  BY DEF Init
<1>8. view \in {"auth", "app"} /\ ws \in Sockets \cup {None}
      /\ heartbeat \in BOOLEAN /\ timer \in BOOLEAN /\ stray \in BOOLEAN
  BY <1>7
<1>9. faults \in 0 .. MaxFaults
  BY <1>7, BoundsAssumption
<1> QED
  BY <1>2, <1>3, <1>5, <1>6, <1>8, <1>9 DEF TypeOK, Socket, Request

\* What the helpers of the handlers give.
LEMMA ConnectType ==
  ASSUME TypeOK, Connect
  PROVE  ws' \in Sockets \cup {None} /\ sock' \in [Sockets -> Socket]
<1>1. CASE UNCHANGED <<ws, sock>>
  BY <1>1 DEF TypeOK, Socket
<1>2. ASSUME NEW s \in Sockets, ws' = s, token # 0,
             sock' = [sock EXCEPT ![s] = [st |-> "connecting", tok |-> token,
                                          slow |-> req["out"].at # "idle"]]
      PROVE  ws' \in Sockets \cup {None} /\ sock' \in [Sockets -> Socket]
  <2>1. (req["out"].at # "idle") \in BOOLEAN
    OBVIOUS
  <2>2. [st |-> "connecting", tok |-> token, slow |-> req["out"].at # "idle"] \in Socket
    BY <2>1 DEF TypeOK, Socket
  <2> QED
    BY <1>2, <2>2 DEF TypeOK, Socket
<1> QED
  BY <1>1, <1>2 DEF Connect

LEMMA ClosingType ==
  ASSUME TypeOK, NEW s \in Sockets
  PROVE  /\ Closing(s) \in [Sockets -> Socket]
         /\ \A x \in Sockets \ {s} : Closing(s)[x] = sock[x]
         /\ Closing(s)[s].st \notin {"connecting", "open"}
         /\ Closing(s)[s].slow = sock[s].slow
<1>1. sock \in [Sockets -> Socket]
  BY DEF TypeOK, Socket
<1>2. sock[s] \in Socket
  BY <1>1
<1> DEFINE st == IF sock[s].st \in {"connecting", "open"} THEN "closing" ELSE sock[s].st
<1>3. st \in {"none", "closing"}
  BY <1>2 DEF Socket
<1>4. Closing(s) = [sock EXCEPT ![s] = [sock[s] EXCEPT !.st = st]]
  BY <1>1, <1>2 DEF Closing
<1> HIDE DEF st
<1>5. [sock[s] EXCEPT !.st = st] \in Socket
  BY <1>2, <1>3 DEF Socket
<1>6. [sock[s] EXCEPT !.st = st].st = st /\ [sock[s] EXCEPT !.st = st].slow = sock[s].slow
  BY <1>2 DEF Socket
<1> QED
  BY <1>1, <1>3, <1>4, <1>5, <1>6

LEMMA DisconnectFacts ==
  ASSUME TypeOK, OneLiveFeed, Disconnect
  PROVE  /\ ws' = None /\ heartbeat' = FALSE /\ timer' = FALSE
         /\ sock' \in [Sockets -> Socket]
         /\ \A s \in Sockets : sock'[s].st \notin {"connecting", "open"}
<1>1. CASE ws = None
  BY <1>1, NoneAssumption DEF Disconnect, TypeOK, OneLiveFeed, Live, Socket
<1>2. CASE ws # None
  <2>1. ws \in Sockets
    BY <1>2 DEF TypeOK
  <2>2. sock' = Closing(ws)
    BY <1>2 DEF Disconnect
  <2> QED
    BY <2>1, <2>2, ClosingType DEF Disconnect, OneLiveFeed, Live
<1> QED
  BY <1>1, <1>2

LEMMA RefusalFacts ==
  ASSUME TypeOK, OneLiveFeed, Refusal
  PROVE  /\ token' = 0 /\ view' = "auth"
         /\ ws' = None /\ heartbeat' = FALSE /\ timer' = FALSE
         /\ sock' \in [Sockets -> Socket]
         /\ \A s \in Sockets : sock'[s].st \notin {"connecting", "open"}
  BY DisconnectFacts DEF Refusal

LEMMA ClosedFacts ==
  ASSUME TypeOK, NEW s \in Sockets, NEW failed \in BOOLEAN, Closed(s, failed)
  PROVE  /\ sock' \in [Sockets -> Socket]
         /\ heartbeat' = FALSE /\ timer' = TRUE
         /\ \A x \in Sockets : sock'[x].st \in {"connecting", "open"} =>
               /\ sock[x].st \in {"connecting", "open"}
               /\ sock'[x].slow = sock[x].slow
<1> DEFINE hit == IF failed /\ ws # None /\ ws # s THEN Closing(ws) ELSE sock
<1>1. hit \in [Sockets -> Socket]
  BY ClosingType DEF TypeOK, Socket
<1>2. \A x \in Sockets : hit[x].st \in {"connecting", "open"} =>
         sock[x].st \in {"connecting", "open"} /\ hit[x].slow = sock[x].slow
  BY ClosingType DEF TypeOK
<1>3. sock' = [hit EXCEPT ![s] = NoSocket]
  BY DEF Closed
<1> HIDE DEF hit
<1>4. NoSocket \in Socket /\ NoSocket.st = "none"
  BY DEF NoSocket, Socket
<1>5. sock' \in [Sockets -> Socket]
  BY <1>1, <1>3, <1>4
<1>6. sock'[s] = NoSocket /\ \A x \in Sockets \ {s} : sock'[x] = hit[x]
  BY <1>1, <1>3
<1> QED
  BY <1>2, <1>4, <1>5, <1>6 DEF Closed

LEMMA SendFacts ==
  ASSUME TypeOK, NEW h \in Handlers, NEW kind \in {"login", "me", "out", "rename", "call"},
         req' = [req EXCEPT ![h] = Sent(kind)]
  PROVE  /\ req' \in [Handlers -> Request]
         /\ req'[h].at = kind /\ req'[h].answer = "none"
         /\ \A x \in Handlers \ {h} : req'[x] = req[x]
<1> DEFINE credential == IF token # 0 THEN token ELSE cookie
<1>1. credential \in Tokens \cup {0}
  BY DEF TypeOK
<1>2. Sent(kind) = [Idle EXCEPT !.at = kind, !.tok = credential]
  BY DEF Sent
<1> HIDE DEF credential
<1>3. Sent(kind) \in Request /\ Sent(kind).at = kind /\ Sent(kind).answer = "none"
  BY <1>1, <1>2 DEF Request, Idle
<1> QED
  BY <1>3 DEF TypeOK, Request

LEMMA OverFacts ==
  ASSUME TypeOK, NEW h \in Handlers, Over(h)
  PROVE  /\ req' \in [Handlers -> Request]
         /\ req'[h].at = "idle" /\ req'[h].answer = "none"
         /\ \A x \in Handlers \ {h} : req'[x] = req[x]
<1>1. Idle \in Request /\ Idle.at = "idle" /\ Idle.answer = "none"
  BY DEF Idle, Request
<1> QED
  BY <1>1 DEF Over, TypeOK, Request

LEMMA AnswerFacts ==
  ASSUME TypeOK, NEW h \in Handlers, NEW answer \in {"ok", "refused", "failed"},
         NEW new \in Tokens \cup {0}, Answer(h, answer, new)
  PROVE  /\ req' \in [Handlers -> Request]
         /\ req'[h].at = req[h].at /\ req'[h].answer = answer /\ req'[h].new = new
         /\ \A x \in Handlers \ {h} : req'[x] = req[x]
<1>1. req[h] \in Request
  BY DEF TypeOK, Request
<1> DEFINE answered == [req[h] EXCEPT !.answer = answer, !.new = new]
<1>2. /\ answered \in Request
      /\ answered.at = req[h].at /\ answered.answer = answer /\ answered.new = new
  BY <1>1 DEF Request
<1>3. req' = [req EXCEPT ![h] = answered]
  BY <1>1 DEF Answer, TypeOK, Request
<1> HIDE DEF answered
<1> QED
  BY <1>2, <1>3 DEF TypeOK, Request

\* The server's answer is about a request, and leaves the page as it is.
LEMMA ServeFacts ==
  ASSUME TypeOK, NEW h \in Handlers, Serve(h) \/ Lost(h)
  PROVE  /\ req[h].at # "idle" /\ req'[h].at = req[h].at
         /\ req'[h].answer = "ok" /\ req[h].at \in {"login", "rename"} => req'[h].new # 0
         /\ req' \in [Handlers -> Request]
         /\ \A x \in Handlers \ {h} : req'[x] = req[x]
         /\ UNCHANGED <<token, cookie, view, socketVars, stray>>
         /\ valid' \subseteq Tokens /\ issued' \in 0 .. MaxTokens
         /\ faults' \in 0 .. MaxFaults
<1>1. PICK answer \in {"ok", "refused", "failed"}, new \in Tokens \cup {0} :
         /\ Answer(h, answer, new)
         /\ answer = "ok" /\ req[h].at \in {"login", "rename"} => new # 0
  <2>1. issued < MaxTokens => issued + 1 \in Tokens /\ issued + 1 # 0
    BY BoundsAssumption DEF TypeOK, Tokens
  <2> QED
    BY <2>1 DEF Serve, Lost
<1>2. req[h].at # "idle" /\ UNCHANGED <<token, cookie, view, socketVars, stray>>
  BY DEF Serve, Lost
<1>3. \/ UNCHANGED serverVars
      \/ issued' = issued /\ valid' \subseteq valid
      \/ issued < MaxTokens /\ issued' = issued + 1 /\ valid' \subseteq valid \cup {issued + 1}
  BY DEF Serve, Lost, serverVars
<1>5. valid' \subseteq Tokens /\ issued' \in 0 .. MaxTokens
  <2>1. issued \in 0 .. MaxTokens /\ valid \subseteq Tokens
    BY DEF TypeOK
  <2>2. issued < MaxTokens => issued + 1 \in Tokens /\ issued + 1 \in 0 .. MaxTokens
    BY <2>1, BoundsAssumption DEF Tokens
  <2> QED
    BY <1>3, <2>1, <2>2 DEF serverVars
<1>4. faults' \in 0 .. MaxFaults
  <2>1. faults' = faults \/ (faults < MaxFaults /\ faults' = faults + 1)
    BY DEF Serve, Lost
  <2> QED
    BY <2>1, BoundsAssumption DEF TypeOK
<1> QED
  BY <1>1, <1>2, <1>4, <1>5, AnswerFacts

LEMMA TypeNext == TypeOK /\ OneLiveFeed /\ [Next]_vars => TypeOK'
<1> SUFFICES ASSUME TypeOK, OneLiveFeed, [Next]_vars PROVE TypeOK'
  OBVIOUS
<1> USE DEF socketVars, serverVars
<1>1. ASSUME NEW s \in Sockets, Opened(s) PROVE TypeOK'
  <2>1. sock[s] \in Socket /\ sock \in [Sockets -> Socket]
    BY DEF TypeOK, Socket
  <2>2. [sock[s] EXCEPT !.st = "open"] \in Socket
    BY <2>1 DEF Socket
  <2>3. sock' \in [Sockets -> Socket]
    BY <1>1, <2>1, <2>2 DEF Opened
  <2> QED
    BY <1>1, <2>3 DEF Opened, TypeOK, Socket
<1>2. ASSUME NEW s \in Sockets, NEW failed \in BOOLEAN, Closed(s, failed),
             faults' \in 0 .. MaxFaults
      PROVE  TypeOK'
  <2>1. sock' \in [Sockets -> Socket] /\ heartbeat' = FALSE /\ timer' = TRUE
    BY <1>2, ClosedFacts
  <2> QED
    BY <1>2, <2>1 DEF Closed, TypeOK, Socket
<1>3. ASSUME NEW s \in Sockets, CloseDone(s) \/ Refused(s) \/ Dropped(s) PROVE TypeOK'
  <2>1. faults' = faults \/ (faults < MaxFaults /\ faults' = faults + 1)
    BY <1>3 DEF CloseDone, Refused, Dropped
  <2>2. faults' \in 0 .. MaxFaults
    BY <2>1, BoundsAssumption DEF TypeOK
  <2> QED
    BY <1>2, <1>3, <2>2 DEF CloseDone, Refused, Dropped
<1>4. CASE Reconnect
  BY <1>4, ConnectType DEF Reconnect, TypeOK, Socket
<1>5. ASSUME NEW h \in Handlers, NEW kind \in {"login", "me", "out", "rename", "call"},
             req' = [req EXCEPT ![h] = Sent(kind)],
             UNCHANGED <<token, cookie, view, serverVars, faults, stray>>,
             UNCHANGED socketVars \/ Disconnect
      PROVE  TypeOK'
  <2>1. req' \in [Handlers -> Request]
    BY <1>5, SendFacts
  <2>2. CASE UNCHANGED socketVars
    BY <1>5, <2>1, <2>2 DEF TypeOK, Request
  <2>3. CASE Disconnect
    BY <1>5, <2>1, <2>3, DisconnectFacts DEF TypeOK, Socket, Request
  <2> QED
    BY <1>5, <2>2, <2>3
<1>6. CASE User
  BY <1>5, <1>6 DEF User, SubmitLogin, ClickLogout, SubmitRename, Call, Handlers
<1>7. ASSUME NEW h \in Handlers, Serve(h) \/ Lost(h) PROVE TypeOK'
  BY <1>7, ServeFacts DEF TypeOK, Request
<1>8. CASE Expire
  BY <1>8 DEF Expire, TypeOK
<1>9. ASSUME NEW h \in Handlers, req' \in [Handlers -> Request],
             token' \in Tokens \cup {0}, cookie' \in Tokens \cup {0}, stray' \in BOOLEAN,
             UNCHANGED <<serverVars, faults>>,
             \/ UNCHANGED socketVars /\ view' \in {"auth", "app"}
             \/ Disconnect /\ view' = "auth"
             \/ Connect /\ view' = "app" /\ UNCHANGED <<heartbeat, timer>>
      PROVE  TypeOK'
  <2>1. CASE UNCHANGED socketVars /\ view' \in {"auth", "app"}
    BY <1>9, <2>1 DEF TypeOK, Request
  <2>2. CASE Disconnect /\ view' = "auth"
    BY <1>9, <2>2, DisconnectFacts DEF TypeOK, Socket, Request
  <2>3. CASE Connect /\ view' = "app" /\ UNCHANGED <<heartbeat, timer>>
    BY <1>9, <2>3, ConnectType DEF TypeOK, Socket, Request
  <2> QED
    BY <1>9, <2>1, <2>2, <2>3
<1>10. \A h \in Handlers : Over(h) => req' \in [Handlers -> Request]
  BY OverFacts
<1>11. \A h \in Handlers : req[h].new \in Tokens \cup {0} /\ view \in {"auth", "app"}
       /\ token \in Tokens \cup {0} /\ cookie \in Tokens \cup {0} /\ stray \in BOOLEAN
  BY DEF TypeOK
<1>12. CASE LoginAnswered
  <2>1. CASE req["sign"].answer = "ok"
    <3>1. [Idle EXCEPT !.at = "me", !.tok = req["sign"].new] \in Request
      BY <1>11 DEF Idle, Request, Handlers
    <3>2. req' \in [Handlers -> Request]
      BY <1>12, <2>1, <3>1 DEF LoginAnswered, TypeOK, Request, Refusal, Over
    <3> QED
      BY <1>9, <1>11, <1>12, <2>1, <3>2 DEF LoginAnswered, Handlers
  <2>2. CASE req["sign"].answer # "ok"
    BY <1>9, <1>10, <1>11, <1>12, <2>2 DEF LoginAnswered, Refusal, Handlers
  <2> QED
    BY <2>1, <2>2
<1>13. CASE MeAnswered
  BY <1>9, <1>10, <1>11, <1>13 DEF MeAnswered, Refusal, Handlers
<1>14. CASE LogoutAnswered
  BY <1>9, <1>10, <1>11, <1>14 DEF LogoutAnswered, Handlers
<1>15. CASE RenameAnswered
  BY <1>9, <1>10, <1>11, <1>15 DEF RenameAnswered, Refusal, Handlers
<1>16. CASE CallAnswered
  BY <1>9, <1>10, <1>11, <1>16 DEF CallAnswered, Refusal, Handlers
<1>17. CASE UNCHANGED vars
  BY <1>17 DEF vars, TypeOK
<1> QED
  BY <1>1, <1>3, <1>4, <1>6, <1>7, <1>8, <1>12, <1>13, <1>14, <1>15, <1>16, <1>17
     DEF Next, SocketEvent, Answered

-----------------------------------------------------------------------------
(* The feed. *)

Feed == OneLiveFeed /\ FeedsOfASignOutAreSlow /\ OnlyASlowSignOutLeavesAFeed

\* Steps after which no socket is live, or only sockets that were.
LEMMA NoFeedIsFine ==
  ASSUME heartbeat' = FALSE, \A s \in Sockets : sock'[s].st \notin {"connecting", "open"}
  PROVE  Feed'
  BY DEF Feed, OneLiveFeed, FeedsOfASignOutAreSlow, OnlyASlowSignOutLeavesAFeed, Live

LEMMA FewerFeedsAreFine ==
  ASSUME Feed, heartbeat' = FALSE, UNCHANGED <<token, ws, req>>,
         \A s \in Sockets : sock'[s].st \in {"connecting", "open"} =>
            sock[s].st \in {"connecting", "open"} /\ sock'[s].slow = sock[s].slow
  PROVE  Feed'
  BY DEF Feed, OneLiveFeed, FeedsOfASignOutAreSlow, OnlyASlowSignOutLeavesAFeed, Live

\* connect opens a feed only when there is none.
LEMMA ConnectIsFine ==
  ASSUME TypeOK, Feed, Connect, UNCHANGED <<token, heartbeat>>, req'["out"].at = req["out"].at
  PROVE  Feed'
<1> USE DEF Feed, OneLiveFeed, FeedsOfASignOutAreSlow, OnlyASlowSignOutLeavesAFeed, Live, Connected
<1>1. CASE UNCHANGED <<ws, sock>>
  BY <1>1
<1>2. ASSUME NEW s \in Sockets, token # 0, ~(ws # None /\ Live(ws)), ws' = s,
             sock' = [sock EXCEPT ![s] = [st |-> "connecting", tok |-> token,
                                          slow |-> req["out"].at # "idle"]]
      PROVE  Feed'
  <2>1. \A x \in Sockets : ~Live(x)
    BY <1>2, NoneAssumption
  <2>2. heartbeat = FALSE
    BY <1>2 DEF TypeOK
  <2>3. /\ \A x \in Sockets \ {s} : sock'[x] = sock[x]
        /\ sock'[s].slow = (req["out"].at # "idle")
    BY <1>2 DEF TypeOK
  <2> QED
    BY <1>2, <2>1, <2>2, <2>3
<1> QED
  BY <1>1, <1>2 DEF Connect

LEMMA AnsweredNext ==
  TypeOK /\ OnlyRequestsAreAnswered /\ OneLiveFeed /\ [Next]_vars => OnlyRequestsAreAnswered'
<1> SUFFICES ASSUME TypeOK, OnlyRequestsAreAnswered, OneLiveFeed, [Next]_vars
             PROVE  OnlyRequestsAreAnswered'
  OBVIOUS
<1> USE DEF OnlyRequestsAreAnswered
<1>1. CASE UNCHANGED req
  BY <1>1
<1>2. ASSUME NEW h \in Handlers, Over(h) PROVE OnlyRequestsAreAnswered'
  BY <1>2, OverFacts
<1>3. ASSUME NEW h \in Handlers, NEW kind \in {"login", "me", "out", "rename", "call"},
             req' = [req EXCEPT ![h] = Sent(kind)]
      PROVE  OnlyRequestsAreAnswered'
  BY <1>3, SendFacts
<1>4. ASSUME NEW h \in Handlers, Serve(h) \/ Lost(h) PROVE OnlyRequestsAreAnswered'
  BY <1>4, ServeFacts
<1>5. CASE User
  BY <1>3, <1>5 DEF User, SubmitLogin, ClickLogout, SubmitRename, Call, Handlers
<1>6. CASE LoginAnswered
  <2>1. CASE req' = [req EXCEPT !["sign"] = [Idle EXCEPT !.at = "me", !.tok = req["sign"].new]]
    <3>1. [Idle EXCEPT !.at = "me", !.tok = req["sign"].new].answer = "none"
      BY DEF Idle
    <3> QED
      BY <2>1, <3>1 DEF TypeOK
  <2> QED
    BY <1>2, <1>6, <2>1 DEF LoginAnswered, Handlers
<1>7. CASE Answered
  BY <1>2, <1>6, <1>7
     DEF Answered, MeAnswered, LogoutAnswered, RenameAnswered, CallAnswered, Handlers
<1> QED
  BY <1>1, <1>4, <1>5, <1>7
     DEF Next, SocketEvent, Opened, CloseDone, Refused, Dropped, Closed, Reconnect, Expire, vars

LEMMA FeedNext == TypeOK /\ OnlyRequestsAreAnswered /\ Feed /\ [Next]_vars => Feed'
<1> SUFFICES ASSUME TypeOK, OnlyRequestsAreAnswered, Feed, [Next]_vars PROVE Feed'
  OBVIOUS
<1> USE DEF socketVars, serverVars
<1>0. OneLiveFeed
  BY DEF Feed
<1>1. ASSUME NEW s \in Sockets, Opened(s) PROVE Feed'
  <2>1. /\ sock'[s].st = "open" /\ sock'[s].slow = sock[s].slow /\ Live(s)
        /\ \A x \in Sockets \ {s} : sock'[x] = sock[x]
    BY <1>1 DEF Opened, TypeOK, Live
  <2>2. ws = s /\ UNCHANGED <<ws, token, req>>
    BY <1>0, <1>1, <2>1 DEF OneLiveFeed, Opened
  <2> QED
    BY <2>1, <2>2, NoneAssumption
       DEF Feed, OneLiveFeed, FeedsOfASignOutAreSlow, OnlyASlowSignOutLeavesAFeed, Live, Connected
<1>2. ASSUME NEW s \in Sockets, NEW failed \in BOOLEAN, Closed(s, failed) PROVE Feed'
  BY <1>2, ClosedFacts, FewerFeedsAreFine DEF Closed
<1>3. ASSUME NEW s \in Sockets, CloseDone(s) \/ Refused(s) \/ Dropped(s) PROVE Feed'
  BY <1>2, <1>3 DEF CloseDone, Refused, Dropped
<1>4. CASE Reconnect
  BY <1>4, ConnectIsFine DEF Reconnect
<1>5. CASE UNCHANGED <<token, socketVars>> /\ (req'["out"].at # "idle" => req["out"].at # "idle")
  BY <1>5 DEF Feed, OneLiveFeed, FeedsOfASignOutAreSlow, OnlyASlowSignOutLeavesAFeed, Live, Connected
<1>6. ASSUME NEW h \in Handlers \ {"out"}, NEW kind \in {"login", "me", "out", "rename", "call"},
             req' = [req EXCEPT ![h] = Sent(kind)], UNCHANGED <<token, socketVars>>
      PROVE  Feed'
  BY <1>5, <1>6, SendFacts DEF Handlers
<1>7. CASE Disconnect \/ Refusal
  BY <1>0, <1>7, DisconnectFacts, RefusalFacts, NoFeedIsFine
<1>8. CASE User
  BY <1>6, <1>7, <1>8 DEF User, SubmitLogin, ClickLogout, SubmitRename, Call, Handlers
<1>9. ASSUME NEW h \in Handlers, Serve(h) \/ Lost(h) PROVE Feed'
  BY <1>5, <1>9, ServeFacts DEF Handlers
<1>10. CASE Expire
  BY <1>5, <1>10 DEF Expire
<1>11. ASSUME NEW h \in Handlers, Over(h), UNCHANGED <<token, socketVars>> PROVE Feed'
  BY <1>5, <1>11, OverFacts DEF Handlers
<1>12. CASE token' # 0 /\ UNCHANGED socketVars /\ req'["out"].at = req["out"].at
  BY <1>12
     DEF Feed, OneLiveFeed, FeedsOfASignOutAreSlow, OnlyASlowSignOutLeavesAFeed, Live, Connected
<1>13. CASE LoginAnswered
  <2>1. CASE req["sign"].answer = "ok"
    <3>1. req'["out"] = req["out"]
      BY <1>13, <2>1 DEF LoginAnswered, TypeOK, Handlers, Refusal, Over
    <3>2. req["sign"].new # 0
      BY <1>13, <2>1 DEF LoginAnswered, OnlyRequestsAreAnswered, Handlers
    <3> QED
      BY <1>12, <1>13, <2>1, <3>1, <3>2 DEF LoginAnswered
  <2>2. CASE req["sign"].answer # "ok"
    BY <1>7, <1>11, <1>13, <2>2 DEF LoginAnswered, Handlers
  <2> QED
    BY <2>1, <2>2
<1>14. CASE MeAnswered
  <2>1. req'["out"] = req["out"]
    BY <1>14, OverFacts DEF MeAnswered, Handlers
  <2> QED
    BY <1>7, <1>11, <1>14, <2>1, ConnectIsFine DEF MeAnswered, Handlers
<1>15. CASE LogoutAnswered
  <2>1. req["out"].at # "idle" /\ req'["out"].at = "idle"
    BY <1>15, OverFacts DEF LogoutAnswered, OnlyRequestsAreAnswered, Handlers
  <2>2. CASE UNCHANGED socketVars
    BY <2>1, <2>2
       DEF Feed, OneLiveFeed, FeedsOfASignOutAreSlow, OnlyASlowSignOutLeavesAFeed, Live, Connected
  <2> QED
    BY <1>7, <1>15, <2>2 DEF LogoutAnswered
<1>16. CASE RenameAnswered
  <2>1. req'["out"] = req["out"]
    BY <1>16, OverFacts DEF RenameAnswered, Handlers
  <2>2. req["rename"].answer = "ok" => req["rename"].new # 0
    BY <1>16 DEF RenameAnswered, OnlyRequestsAreAnswered, Handlers
  <2> QED
    BY <1>7, <1>11, <1>12, <1>16, <2>1, <2>2 DEF RenameAnswered, Handlers
<1>17. CASE CallAnswered
  BY <1>7, <1>11, <1>17 DEF CallAnswered, Handlers
<1>18. CASE UNCHANGED vars
  BY <1>5, <1>18 DEF vars
<1> QED
  BY <1>1, <1>3, <1>4, <1>8, <1>9, <1>10, <1>13, <1>14, <1>15, <1>16, <1>17, <1>18
     DEF Next, SocketEvent, Answered

-----------------------------------------------------------------------------

LEMMA IInvInit == Init => IInv
<1> SUFFICES ASSUME Init PROVE IInv
  OBVIOUS
<1>1. \A s \in Sockets : ~Live(s)
  BY DEF Init, Live, NoSocket
<1>2. heartbeat = FALSE
  BY DEF Init
<1>3. Idle.answer = "none" /\ [Idle EXCEPT !.at = "me", !.tok = 1].answer = "none"
  BY DEF Idle
<1>4. \A h \in Handlers : req[h].answer = "none"
  BY <1>3 DEF Init, Handlers
<1> QED
  BY <1>1, <1>2, <1>4, TypeInit
     DEF IInv, OneLiveFeed, OnlyRequestsAreAnswered, FeedsOfASignOutAreSlow,
         OnlyASlowSignOutLeavesAFeed

LEMMA IInvHolds == Spec => []IInv
<1>1. IInv /\ [Next]_vars => IInv'
  BY TypeNext, AnsweredNext, FeedNext DEF IInv, Feed
<1> QED
  BY <1>1, IInvInit, PTL DEF Spec

\* The token, the sockets and the requests keep their types.
THEOREM TypeCorrect == Spec => []TypeOK
<1>1. IInv => TypeOK
  BY DEF IInv
<1> QED
  BY <1>1, IInvHolds, PTL

\* No feed escapes disconnect.
THEOREM OnlyOneFeedIsLive == Spec => []OneLiveFeed
<1>1. IInv => OneLiveFeed
  BY DEF IInv
<1> QED
  BY <1>1, IInvHolds, PTL

\* A page without a token has no feed, but for a slow sign-out.
THEOREM SignOutEndsTheFeed == Spec => []OnlyASlowSignOutLeavesAFeed
<1>1. IInv => OnlyASlowSignOutLeavesAFeed
  BY DEF IInv
<1> QED
  BY <1>1, IInvHolds, PTL
=============================================================================
