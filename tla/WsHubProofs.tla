----------------------------- MODULE WsHubProofs -----------------------------
(***************************************************************************)
(* For any number of connections and changes: the variables keep their     *)
(* types, the broadcast loop is there for whoever is connected, and nobody *)
(* is dropped by mistake.  The last needs to know that a socket on which a *)
(* send failed is one whose client has left (Failures), and that a socket  *)
(* not yet connected is in none of the hub's sets (Newcomers).             *)
(*                                                                         *)
(* At the end, the storage manager whose devices the hub sends: what its   *)
(* two threads do to its cache and its lock, for any number of changes and *)
(* failures.                                                               *)
(***************************************************************************)
EXTENDS WsHub, StorageHotplug, TLAPS

Connected == {c \in Sockets : endpoint[c] \in {"initial", "serving", "closed"}}

Newcomers ==
    /\ active \subseteq Connected
    /\ todo \subseteq Connected
    /\ failed \subseteq Connected
    /\ \A v \in Versions : /\ pushes[v].todo \subseteq Connected
                           /\ pushes[v].failed \subseteq Connected

Failures ==
    /\ failed \cap open = {}
    /\ \A v \in Versions : pushes[v].failed \cap open = {}

IInv == TypeOK /\ Newcomers /\ Failures /\ LoopServesTheConnected /\ ConnectedStayActive

PushRecords == [at : {"none", "scheduled", "sending"},
                todo : SUBSET Sockets, failed : SUBSET Sockets]

LEMMA NoPushIsPush == NoPush \in PushRecords /\ NoPush.todo = {} /\ NoPush.failed = {}
  BY DEF NoPush, PushRecords

LEMMA InitIInv == Init => IInv
  BY NoPushIsPush, ChangesAssumption
  DEF Init, IInv, TypeOK, Newcomers, Failures, LoopServesTheConnected,
      ConnectedStayActive, PushRecords, Versions, Endpoints, Loops, NoPush

-----------------------------------------------------------------------------
(* The steps of an endpoint, of the loop and of a push *)

LEMMA ClientNext ==
    ASSUME IInv, NEW c \in Sockets, Open(c) \/ Leave(c) \/ Endpoint(c)
    PROVE  IInv'
  <1>0. /\ endpoint \in [Sockets -> Endpoints]
        /\ c \in Sockets
    BY DEF IInv, TypeOK
  <1>1. CASE Open(c)
    <2>1. c \notin failed /\ \A v \in Versions : c \notin pushes[v].failed
      BY <1>1 DEF IInv, Newcomers, Connected, Open
    <2>. QED
      BY <1>0, <1>1, <2>1
      DEF Open, Is, IInv, TypeOK, Newcomers, Connected, Failures, loopVars,
          LoopServesTheConnected, ConnectedStayActive, Endpoints
  <1>2. CASE Leave(c)
    BY <1>0, <1>2
    DEF Leave, IInv, TypeOK, Newcomers, Connected, Failures, loopVars,
        LoopServesTheConnected, ConnectedStayActive
  <1>3. CASE Connect(c)
    BY <1>0, <1>3
    DEF Connect, Is, StartLoop, IInv, TypeOK, Newcomers, Connected, Failures,
        LoopServesTheConnected, ConnectedStayActive, Endpoints, Loops, Versions
  <1>4. CASE AcceptFails(c)
    BY <1>0, <1>4
    DEF AcceptFails, Is, IInv, TypeOK, Newcomers, Connected, Failures, loopVars,
        LoopServesTheConnected, ConnectedStayActive, Endpoints
  <1>5. CASE SendInitial(c)
    BY <1>0, <1>5
    DEF SendInitial, Is, IInv, TypeOK, Newcomers, Connected, Failures, loopVars,
        LoopServesTheConnected, ConnectedStayActive, Endpoints
  <1>6. CASE Disconnect(c)
    BY <1>0, <1>6
    DEF Disconnect, Is, IInv, TypeOK, Newcomers, Connected, Failures, loopVars,
        LoopServesTheConnected, ConnectedStayActive, Endpoints
  <1>. QED  BY <1>1, <1>2, <1>3, <1>4, <1>5, <1>6 DEF Endpoint

LEMMA DeliveredType ==
    ASSUME TypeOK, NEW c \in Sockets, NEW v \in Versions, Delivered(c, v)
    PROVE  shown' \in [Sockets -> 0 .. MaxChanges + 1]
  BY ChangesAssumption DEF TypeOK, Delivered, Versions

LEMMA LoopNext == IInv /\ BroadcastLoop => IInv'
  <1>. SUFFICES ASSUME IInv, BroadcastLoop PROVE IInv'
    OBVIOUS
  <1>1. CASE LoopTop \/ LoopIdle \/ LoopPause
    BY <1>1
    DEF LoopTop, LoopIdle, LoopPause, clientVars, IInv, TypeOK, Newcomers, Connected,
        Failures, LoopServesTheConnected, ConnectedStayActive, Loops
  <1>2. CASE LoopSend
    BY <1>2
    DEF LoopSend, clientVars, IInv, TypeOK, Newcomers, Connected,
        Failures, LoopServesTheConnected, ConnectedStayActive, Loops
  <1>3. CASE LoopSent
    BY <1>3
    DEF LoopSent, clientVars, IInv, TypeOK, Newcomers, Connected,
        Failures, LoopServesTheConnected, ConnectedStayActive, Loops
  <1>4. ASSUME NEW c \in Sockets, LoopSendTo(c) PROVE IInv'
    <2>1. shown' \in [Sockets -> 0 .. MaxChanges + 1]
      BY <1>4, DeliveredType DEF LoopSendTo, IInv, TypeOK
    <2>2. failed' = failed \/ (failed' = failed \cup {c} /\ c \notin open)
      BY <1>4 DEF LoopSendTo
    <2>3. c \in Connected /\ c \in todo
      BY <1>4 DEF LoopSendTo, IInv, Newcomers
    <2>4. TypeOK'
      BY <1>4, <2>1, <2>2 DEF LoopSendTo, IInv, TypeOK
    <2>5. Newcomers' /\ Failures'
      BY <1>4, <2>2, <2>3 DEF LoopSendTo, IInv, Newcomers, Connected, Failures
    <2>. QED
      BY <1>4, <2>4, <2>5
      DEF LoopSendTo, IInv, LoopServesTheConnected, ConnectedStayActive
  <1>. QED  BY <1>1, <1>2, <1>3, <1>4 DEF BroadcastLoop, LoopRound

LEMMA PushNext ==
    ASSUME IInv, NEW v \in Versions, Push(v)
    PROVE  IInv'
  <1>0. pushes \in [Versions -> PushRecords]
    BY DEF IInv, TypeOK, PushRecords
  <1>1. CASE PushStart(v)
    <2>. DEFINE p == [at |-> "sending", todo |-> active, failed |-> {}]
    <2>1. pushes' = [pushes EXCEPT ![v] = p]
      BY <1>1 DEF PushStart
    <2>2. p \in PushRecords /\ p.todo = active /\ p.failed = {} /\ p.at = "sending"
      BY DEF IInv, TypeOK, PushRecords
    <2>3. \A w \in Versions : pushes'[w] = IF w = v THEN p ELSE pushes[w]
      BY <1>0, <2>1
    <2>4. pushes' \in [Versions -> PushRecords]
      BY <1>0, <2>1, <2>2
    <2>. HIDE DEF p
    <2>. QED
      BY <1>1, <2>2, <2>3, <2>4
      DEF PushStart, loopVars, clientVars, IInv, TypeOK, Newcomers, Connected, Failures,
          LoopServesTheConnected, ConnectedStayActive, PushRecords
  <1>2. CASE PushEnd(v)
    <2>1. \A w \in Versions : pushes'[w] = IF w = v THEN NoPush ELSE pushes[w]
      BY <1>0, <1>2 DEF PushEnd
    <2>2. pushes' \in [Versions -> PushRecords]
      BY <1>0, <1>2, NoPushIsPush DEF PushEnd
    <2>3. pushes[v].failed \cap open = {}
      BY DEF IInv, Failures
    <2>. QED
      BY <1>2, <2>1, <2>2, <2>3, NoPushIsPush
      DEF PushEnd, loopVars, clientVars, IInv, TypeOK, Newcomers, Connected, Failures,
          LoopServesTheConnected, ConnectedStayActive, PushRecords
  <1>3. ASSUME NEW c \in Sockets, PushTo(v, c) PROVE IInv'
    <2>1. PICK bad \in {{}, {c}} :
             /\ bad \cap open = {}
             /\ pushes' = [pushes EXCEPT ![v].todo = @ \ {c}, ![v].failed = @ \cup bad]
      BY <1>3 DEF PushTo
    <2>. DEFINE p == [pushes[v] EXCEPT !.todo = @ \ {c}, !.failed = @ \cup bad]
    <2>2. pushes' = [pushes EXCEPT ![v] = p]
      BY <1>0, <2>1 DEF PushRecords
    <2>3. /\ p.todo = pushes[v].todo \ {c}
          /\ p.failed = pushes[v].failed \cup bad
          /\ p.at = pushes[v].at
          /\ p \in PushRecords
      BY <1>0, <2>1 DEF PushRecords
    <2>4. \A w \in Versions : pushes'[w] = IF w = v THEN p ELSE pushes[w]
      BY <1>0, <2>2
    <2>5. pushes' \in [Versions -> PushRecords]
      BY <1>0, <2>2, <2>3
    <2>6. shown' \in [Sockets -> 0 .. MaxChanges + 1]
      BY <1>3, DeliveredType DEF PushTo, IInv
    <2>7. c \in pushes[v].todo /\ c \in Connected
      BY <1>3 DEF PushTo, IInv, Newcomers
    <2>. HIDE DEF p
    <2>8. TypeOK'
      BY <1>3, <2>3, <2>4, <2>5, <2>6
      DEF PushTo, loopVars, IInv, TypeOK, PushRecords
    <2>9. Newcomers' /\ Failures'
      BY <1>3, <2>1, <2>3, <2>4, <2>7
      DEF PushTo, loopVars, IInv, Newcomers, Connected, Failures
    <2>. QED
      BY <1>3, <2>8, <2>9
      DEF PushTo, loopVars, IInv, LoopServesTheConnected, ConnectedStayActive
  <1>. QED  BY <1>1, <1>2, <1>3 DEF Push

LEMMA ChangeNext == IInv /\ (RefreshChange \/ MonitorChange) => IInv'
  <1>. SUFFICES ASSUME IInv, RefreshChange \/ MonitorChange PROVE IInv'
    OBVIOUS
  <1>0. pushes \in [Versions -> PushRecords]
    BY DEF IInv, TypeOK, PushRecords
  <1>1. devices' \in Versions /\ devices + 1 \in Versions
    BY ChangesAssumption DEF IInv, TypeOK, Versions, RefreshChange, MonitorChange
  <1>2. CASE RefreshChange
    <2>1. /\ Scheduled \in PushRecords
          /\ Scheduled.todo = {} /\ Scheduled.failed = {}
      BY DEF Scheduled, PushRecords
    <2>2. \A w \in Versions :
             pushes'[w] = IF w = devices + 1 THEN Scheduled ELSE pushes[w]
      BY <1>0, <1>2 DEF RefreshChange
    <2>3. pushes' \in [Versions -> PushRecords]
      BY <1>0, <1>2, <2>1 DEF RefreshChange
    <2>. QED
      BY <1>1, <1>2, <2>1, <2>2, <2>3
      DEF RefreshChange, loopVars, clientVars, IInv, TypeOK, Newcomers, Connected,
          Failures, LoopServesTheConnected, ConnectedStayActive, PushRecords
  <1>3. CASE MonitorChange
    BY <1>1, <1>3
    DEF MonitorChange, loopVars, clientVars, IInv, TypeOK, Newcomers, Connected,
        Failures, LoopServesTheConnected, ConnectedStayActive
  <1>. QED  BY <1>2, <1>3

LEMMA IInvHolds == SafetySpec => []IInv
  <1>1. IInv /\ [Next]_vars => IInv'
    <2>1. IInv /\ UNCHANGED vars => IInv'
      BY DEF vars, loopVars, clientVars, IInv, TypeOK, Newcomers, Connected, Failures,
             LoopServesTheConnected, ConnectedStayActive
    <2>. QED  BY <2>1, ClientNext, LoopNext, PushNext, ChangeNext DEF Next
  <1>. QED  BY <1>1, InitIInv, PTL DEF SafetySpec

\* The hub's variables keep their types, for any number of connections.
THEOREM TypeCorrect == SafetySpec => []TypeOK
  BY IInvHolds, PTL DEF IInv

\* Whoever is connected is served: connect() finds the loop running or starts
\* one, and a loop about to end looks at the connections again.
THEOREM ConnectedAreServed == SafetySpec => []LoopServesTheConnected
  BY IInvHolds, PTL DEF IInv

\* No broadcast, however it overlaps with others and with new connections, drops
\* a client that is still there.
THEOREM NobodyIsDropped == SafetySpec => []ConnectedStayActive
  BY IInvHolds, PTL DEF IInv

-----------------------------------------------------------------------------
(* The storage manager *)

StorageInv == StorageTypeOK /\ OnlyAnEmptyCacheHangs

LEMMA StorageInitInv == StorageInit => StorageInv
  BY StorageAssumption
  DEF StorageInit, StorageInv, StorageTypeOK, OnlyAnEmptyCacheHangs, Hung, Attached,
      Lists, NoDevices, PCs, Threads

\* A thread waits for the lock as long as it is held, by itself too.
LEMMA ThreadNext ==
    ASSUME StorageInv, NEW t \in Threads, Refresh(t) \/ UpdateIo(t) \/ Finish(t)
    PROVE  StorageInv'
<1>. USE DEF StorageInv, StorageTypeOK, OnlyAnEmptyCacheHangs, Hung, To, PCs
<1>1. CASE Refresh(t)
  <2>1. t \notin lock
    BY <1>1 DEF Refresh
  <2>. QED  BY <1>1, <2>1 DEF Refresh
<1>2. CASE UpdateIo(t)
  BY <1>2 DEF UpdateIo
<1>3. CASE Scan(t)
  <2>1. /\ pc' = [pc EXCEPT ![t] = "publishing"] /\ pc[t] = "scanning"
        /\ scanned' \in [Threads -> Lists] /\ UNCHANGED <<hardware, cached, lock>>
    BY <1>3 DEF Scan
  <2>2. failures' \in 0 .. MaxFailures
    BY <1>3, StorageAssumption DEF Scan, Lsblk
  <2>. QED  BY <2>1, <2>2
<1>4. CASE Publish(t)
  BY <1>4 DEF Publish
<1>5. CASE UpdateInPlace(t)
  BY <1>5 DEF UpdateInPlace
<1>6. CASE UpdateRescans(t)
  BY <1>6 DEF UpdateRescans
<1>. QED  BY <1>1, <1>2, <1>3, <1>4, <1>5, <1>6 DEF Finish

LEMMA StorageInvHolds == StorageSpec => []StorageInv
<1>1. StorageInv /\ [StorageNext]_storageVars => StorageInv'
  <2>. SUFFICES ASSUME StorageInv, [StorageNext]_storageVars PROVE StorageInv'
    OBVIOUS
  <2>1. CASE UNCHANGED storageVars
    BY <2>1 DEF storageVars, StorageInv, StorageTypeOK, OnlyAnEmptyCacheHangs, Hung
  <2>2. CASE Plug
    BY <2>2, StorageAssumption
    DEF Plug, StorageInv, StorageTypeOK, OnlyAnEmptyCacheHangs, Hung, Attached
  <2>. QED  BY <2>1, <2>2, ThreadNext DEF StorageNext
<1>. QED  BY <1>1, StorageInitInv, PTL DEF StorageSpec

\* The variables of the device cache keep their types, and at most one thread
\* holds its lock, never one that has nothing to do.
THEOREM StorageTypeCorrect == StorageSpec => []StorageTypeOK
  BY StorageInvHolds, PTL DEF StorageInv

\* A thread waits for the lock it holds only when update_io_stats found nothing
\* cached, whatever the other thread publishes meanwhile and however often lsblk
\* fails (update_io_stats calls refresh_devices with the lock held).
THEOREM OnlyAnEmptyCacheCanHang == StorageSpec => []OnlyAnEmptyCacheHangs
  BY StorageInvHolds, PTL DEF StorageInv
=============================================================================
