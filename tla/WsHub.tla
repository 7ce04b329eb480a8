-------------------------------- MODULE WsHub --------------------------------
(***************************************************************************)
(* The WebSocket hub (app/routers/ws.py): the set of active connections,   *)
(* the broadcast loop that exists only while somebody is connected, the    *)
(* endpoint of each connection, and the pushes of the hot-plug callback.   *)
(*                                                                         *)
(* All of it runs on one event loop, so a step is what runs between two    *)
(* awaits.  The bodies under self._lock have no await, so taking that lock *)
(* never suspends.  What the messages carry is abstracted to the version   *)
(* of the device list: the number of changes the storage manager has seen. *)
(***************************************************************************)
EXTENDS Naturals

CONSTANTS
    Sockets,     \* the connections clients make, each once
    MaxChanges   \* bound: how often the device list changes

ASSUME ChangesAssumption == MaxChanges \in Nat

VARIABLES
    active,      \* active_connections
    endpoint,    \* socket -> where websocket_endpoint is
    open,        \* the sockets whose client is still there
    loop,        \* where _broadcast_task is, "none" before the first
    message,     \* the device list the loop is sending
    todo,        \* the connections the loop has still to send to
    failed,      \* the connections a send of the loop failed on
    pushes,      \* device list -> a storage_update broadcast of it
    devices,     \* the device list of the storage manager
    initial,     \* socket -> the device list taken for its initial_state
    shown        \* socket -> the device list its client was last sent, 0 none

loopVars   == <<loop, message, todo, failed>>
clientVars == <<endpoint, open, initial, shown>>
vars       == <<active, loopVars, clientVars, pushes, devices>>

Versions  == 1 .. MaxChanges + 1
Endpoints == {"none", "accepting", "initial", "serving", "closed"}
Loops     == {"none", "done", "top", "idle", "collecting", "sending", "pause"}
NoPush    == [at |-> "none", todo |-> {}, failed |-> {}]
Scheduled == [at |-> "scheduled", todo |-> {}, failed |-> {}]

Init ==
    /\ active = {}
    /\ endpoint = [c \in Sockets |-> "none"]
    /\ open = {}
    /\ loop = "none"
    /\ message = 1
    /\ todo = {}
    /\ failed = {}
    /\ pushes = [v \in Versions |-> NoPush]
    /\ devices = 1
    /\ initial = [c \in Sockets |-> 0]
    /\ shown = [c \in Sockets |-> 0]

Is(c, s) == endpoint' = [endpoint EXCEPT ![c] = s]

-----------------------------------------------------------------------------
(* The endpoint *)

\* A client with a valid token connects and its socket is being accepted; any
\* other is closed at once.
Open(c) ==
    /\ endpoint[c] = "none"
    /\ open' = open \cup {c}
    /\ Is(c, "accepting")
    /\ UNCHANGED <<active, loopVars, pushes, devices, initial, shown>>

\* The client goes away.
Leave(c) ==
    /\ c \in open
    /\ open' = open \ {c}
    /\ UNCHANGED <<active, loopVars, endpoint, pushes, devices, initial, shown>>

\* Mutant: the loop is started only once.
StartLoop_Once == loop' = IF loop = "none" THEN "top" ELSE loop

\* A new loop when there is none or the last one is done.
StartLoop == loop' = IF loop \in {"none", "done"} THEN "top" ELSE loop

\* connect after accept(), and the endpoint up to its next await: the device
\* list of the initial state is taken here.
Connect(c) ==
    /\ endpoint[c] = "accepting"
    /\ active' = active \cup {c}
    /\ StartLoop
    /\ initial' = [initial EXCEPT ![c] = devices]
    /\ Is(c, "initial")
    /\ UNCHANGED <<open, message, todo, failed, pushes, devices, shown>>

\* accept() fails: connect is outside the try, and nothing was added.
AcceptFails(c) ==
    /\ endpoint[c] = "accepting"
    /\ c \notin open
    /\ Is(c, "closed")
    /\ UNCHANGED <<active, loopVars, open, pushes, devices, initial, shown>>

\* The download statistics are there and initial_state is sent.
SendInitial(c) ==
    /\ endpoint[c] = "initial"
    /\ c \in open
    /\ shown' = [shown EXCEPT ![c] = initial[c]]
    /\ Is(c, "serving")
    /\ UNCHANGED <<active, loopVars, open, pushes, devices, initial>>

\* Mutant: only WebSocketDisconnect is caught.
Disconnect_NotOnError(c) ==
    /\ endpoint[c] \in {"initial", "serving"}
    /\ c \notin open
    /\ active' = IF endpoint[c] = "serving" THEN active \ {c} ELSE active
    /\ Is(c, "closed")
    /\ UNCHANGED <<loopVars, open, pushes, devices, initial, shown>>

\* A send or a receive raises because the client has left.
Disconnect(c) ==
    /\ endpoint[c] \in {"initial", "serving"}
    /\ c \notin open
    /\ active' = active \ {c}
    /\ Is(c, "closed")
    /\ UNCHANGED <<loopVars, open, pushes, devices, initial, shown>>

Endpoint(c) == Connect(c) \/ AcceptFails(c) \/ SendInitial(c) \/ Disconnect(c)

-----------------------------------------------------------------------------
(* The broadcast loop *)

LoopTop ==
    /\ loop = "top"
    /\ loop' = IF active = {} THEN "idle" ELSE "collecting"
    /\ UNCHANGED <<active, clientVars, message, todo, failed, pushes, devices>>

\* Mutant: the set is not looked at again after the sleep.
LoopIdle_NoRecheck ==
    /\ loop = "idle"
    /\ loop' = "done"
    /\ UNCHANGED <<active, clientVars, message, todo, failed, pushes, devices>>

\* After two seconds without a connection.
LoopIdle ==
    /\ loop = "idle"
    /\ loop' = IF active = {} THEN "done" ELSE "collecting"
    /\ UNCHANGED <<active, clientVars, message, todo, failed, pushes, devices>>

\* Mutant: the payload is put together once.
LoopSend_OldPayload ==
    /\ loop = "collecting"
    /\ loop' = "sending"
    /\ todo' = active
    /\ failed' = {}
    /\ UNCHANGED <<active, clientVars, message, pushes, devices>>

\* The download statistics are there: the device list is read and
\* broadcast_json takes its list of connections.
LoopSend ==
    /\ loop = "collecting"
    /\ loop' = "sending"
    /\ message' = devices
    /\ todo' = active
    /\ failed' = {}
    /\ UNCHANGED <<active, clientVars, pushes, devices>>

\* A send to a client that is there arrives; to one that has left it raises or
\* is swallowed by the server.
Delivered(c, v) == shown' = IF c \in open THEN [shown EXCEPT ![c] = v] ELSE shown

LoopSendTo(c) ==
    /\ loop = "sending"
    /\ c \in todo
    /\ todo' = todo \ {c}
    /\ Delivered(c, message)
    /\ failed' \in IF c \in open THEN {failed} ELSE {failed, failed \cup {c}}
    /\ UNCHANGED <<active, loop, message, endpoint, open, initial, pushes, devices>>

\* Mutant: the connections that got the message are the active ones.
LoopSent_Assigns ==
    /\ loop = "sending"
    /\ todo = {}
    /\ active' = {c \in active \ failed : shown[c] = message}
    /\ loop' = "pause"
    /\ UNCHANGED <<clientVars, message, todo, failed, pushes, devices>>

LoopSent ==
    /\ loop = "sending"
    /\ todo = {}
    /\ active' = active \ failed
    /\ loop' = "pause"
    /\ UNCHANGED <<clientVars, message, todo, failed, pushes, devices>>

LoopPause ==
    /\ loop = "pause"
    /\ loop' = "top"
    /\ UNCHANGED <<active, clientVars, message, todo, failed, pushes, devices>>

LoopRound == LoopTop \/ LoopIdle \/ LoopSend \/ LoopSent \/ LoopPause
BroadcastLoop == LoopRound \/ \E c \in Sockets : LoopSendTo(c)

-----------------------------------------------------------------------------
(* Changes of the device list *)

\* POST /api/storage/refresh finds a change: the callback runs on the event
\* loop and schedules a storage_update.
RefreshChange ==
    /\ devices <= MaxChanges
    /\ devices' = devices + 1
    /\ pushes' = [pushes EXCEPT ![devices + 1] = Scheduled]
    /\ UNCHANGED <<active, loopVars, clientVars>>

\* The monitor thread finds a change: asyncio.create_task raises in a thread
\* without a running loop, and _notify_callbacks swallows it.
MonitorChange ==
    /\ devices <= MaxChanges
    /\ devices' = devices + 1
    /\ UNCHANGED <<active, loopVars, clientVars, pushes>>

PushStart(v) ==
    /\ pushes[v].at = "scheduled"
    /\ pushes' = [pushes EXCEPT ![v] = [at |-> "sending", todo |-> active, failed |-> {}]]
    /\ UNCHANGED <<active, loopVars, clientVars, devices>>

PushTo(v, c) ==
    /\ c \in pushes[v].todo
    /\ Delivered(c, v)
    /\ \E bad \in IF c \in open THEN {{}} ELSE {{}, {c}} :
          pushes' = [pushes EXCEPT ![v].todo = @ \ {c}, ![v].failed = @ \cup bad]
    /\ UNCHANGED <<active, loopVars, endpoint, open, initial, devices>>

PushEnd(v) ==
    /\ pushes[v].at = "sending"
    /\ pushes[v].todo = {}
    /\ active' = active \ pushes[v].failed
    /\ pushes' = [pushes EXCEPT ![v] = NoPush]
    /\ UNCHANGED <<loopVars, clientVars, devices>>

Push(v) == PushStart(v) \/ PushEnd(v) \/ \E c \in Sockets : PushTo(v, c)

Next ==
    \/ \E c \in Sockets : Open(c) \/ Leave(c) \/ Endpoint(c)
    \/ BroadcastLoop
    \/ RefreshChange \/ MonitorChange
    \/ \E v \in Versions : Push(v)

SafetySpec == Init /\ [][Next]_vars

(***************************************************************************)
(* The event loop runs every task that is ready and wakes every sleeping   *)
(* one; the engine answers the statistics requests or they time out.       *)
(* Clients need not come or go, and drives need not change.                *)
(***************************************************************************)
Fairness ==
    /\ \A c \in Sockets : WF_vars(Endpoint(c))
    /\ WF_vars(BroadcastLoop)
    /\ \A v \in Versions : WF_vars(Push(v))

Spec == SafetySpec /\ Fairness

-----------------------------------------------------------------------------
(* Properties *)

\* Every variable stays in its range; a broadcast has connections left to send
\* to only while it is being sent.
TypeOK ==
    /\ active \subseteq Sockets
    /\ endpoint \in [Sockets -> Endpoints]
    /\ open \subseteq Sockets
    /\ loop \in Loops
    /\ message \in Versions
    /\ todo \subseteq Sockets
    /\ failed \subseteq Sockets
    /\ pushes \in [Versions -> [at : {"none", "scheduled", "sending"},
                                todo : SUBSET Sockets, failed : SUBSET Sockets]]
    /\ devices \in Versions
    /\ initial \in [Sockets -> 0 .. MaxChanges + 1]
    /\ shown \in [Sockets -> 0 .. MaxChanges + 1]
    /\ todo # {} => loop = "sending"
    /\ \A v \in Versions : pushes[v].todo # {} => pushes[v].at = "sending"

\* Whoever is connected is served: the loop is not done while somebody is in
\* active_connections, however connects fall into its two-second farewell.
LoopServesTheConnected == active # {} => loop \notin {"none", "done"}

\* Nobody is dropped by mistake: a client that is there and whose endpoint is
\* past connect() stays in active_connections through every failed send.
ConnectedStayActive ==
    \A c \in open : endpoint[c] \in {"initial", "serving"} => c \in active

\* Every client that stays ends up with the current device list: the telemetry
\* overtakes a stale initial_state and a change nothing was pushed for.
ClientsConverge ==
    <>[](\A c \in open : endpoint[c] = "serving" => shown[c] = devices)

\* A client that left does not stay in active_connections.
LeaversAreForgotten ==
    \A c \in Sockets : c \in active /\ c \notin open ~> c \notin active
=============================================================================
