--------------------------- MODULE FileTasksProofs ---------------------------
(***************************************************************************)
(* FileTasks, for any set of requests, whatever ids their clients chose:   *)
(* the first part is about all of them, the second about those whose id no *)
(* other has.                                                              *)
(***************************************************************************)
EXTENDS FileTasks, TLAPS

\* A worker inside update_task holds a record that was filed under its id.
HoldsARecord ==
    \A o \in Ops : pc[o] \in {"store", "announce"} =>
        held[o] # None /\ IdOf[held[o]] = IdOf[o]

\* Once the newest status of a record is made into text, the fresh text of its
\* id, on its way or else sent last, says it.
FreshIsTrue ==
    \A t \in Followed :
        LET r == owner[t] IN
        \/ r = None
        \/ r \in outbox
        \/ \E o \in Ops : pc[o] = "announce" /\ held[o] = r
        \/ /\ \A m \in texts : m.id = t /\ m.fresh => m.status = status[r]
           /\ (\A m \in texts : m.id = t => ~m.fresh) /\ seen[t].fresh
                  => seen[t].status = status[r]

\* _tasks files a record under its own id, only started operations have made
\* one, and the id of a started operation has one.
FiledUnderItsId ==
    /\ \A t \in TaskIds :
          owner[t] # None => IdOf[owner[t]] = t /\ pc[owner[t]] # "idle"
    /\ \A o \in Ops : pc[o] # "idle" => owner[IdOf[o]] # None

\* The cancel endpoint answers 404 for an id without a record.
FlagHasRecord == \A t \in cancelled : owner[t] # None

\* Only cancel_task writes "cancelled", and it flags the id too.
CancelledIsFlagged ==
    \A t \in TaskIds :
        owner[t] # None /\ status[owner[t]] = "cancelled" => t \in cancelled

\* An operation is answered when its handler is done, and not before.  What a client
\* cancelled under its id was started, and as long as that is the record filed
\* there, the flag stands and the operation is not answered as a success.
AskedBinds ==
    \A o \in Ops :
        /\ pc[o] = "replied" <=> reply[o] # "none"
        /\ asked[o] # None =>
              /\ pc[asked[o]] # "idle"
              /\ owner[IdOf[o]] = asked[o] => IdOf[o] \in cancelled /\ reply[o] # "success"

Filed == /\ TypeOK
         /\ HoldsARecord
         /\ FiledUnderItsId
         /\ FlagHasRecord
         /\ CancelledIsFlagged
         /\ NoCompletionAfterCancel

IInv == Filed /\ FreshIsTrue /\ AskedBinds

-----------------------------------------------------------------------------
LEMMA LateTexts ==
  ASSUME NEW m \in Texts PROVE [m EXCEPT !.fresh = FALSE] \in Texts
  BY DEF Texts

LEMMA FiledNext ==
  ASSUME Filed, [Next]_vars PROVE Filed'
<1> USE IdAssumption DEF Filed, TypeOK, HoldsARecord, FiledUnderItsId, FlagHasRecord,
        CancelledIsFlagged, NoCompletionAfterCancel,
        Texts, NoText, Statuses, PCs, Endings, Replies,
        vars, taskVars, opVars, feedVars
<1>1. ASSUME NEW o \in Ops, StartOp(o) PROVE Filed'
  BY <1>1 DEF StartOp, Broadcast
<1>2. ASSUME NEW o \in Ops, HandlerReturns(o) PROVE Filed'
  BY <1>2 DEF HandlerReturns, is_cancelled, complete_task,
         SetUnlessCancelled, SetStatus, Broadcast, Answer
<1>3. ASSUME NEW o \in Ops, HandlerCancelled(o) PROVE Filed'
  BY <1>3 DEF HandlerCancelled, cancel_task, SetStatus, Broadcast, Answer
<1>4. ASSUME NEW o \in Ops, HandlerFails(o) PROVE Filed'
  BY <1>4 DEF HandlerFails, fail_task,
         SetUnlessCancelled, SetStatus, Broadcast, Answer
<1>5. ASSUME NEW o \in Ops, WorkerStops(o) PROVE Filed'
  BY <1>5 DEF WorkerStops, WorkerSeesCancel, WorkerReturns,
         WorkerFails, WorkerEnds
<1>6. ASSUME NEW o \in Ops, UpdateCheck(o) PROVE Filed'
  BY <1>6 DEF UpdateCheck
<1>7. ASSUME NEW o \in Ops, UpdateStore(o) PROVE Filed'
  BY <1>7 DEF UpdateStore
<1>8. ASSUME NEW o \in Ops, UpdateAnnounce(o) PROVE Filed'
  BY <1>8 DEF UpdateAnnounce, Broadcast
<1>9. ASSUME NEW t \in TaskIds, CancelEndpoint(t) PROVE Filed'
  BY <1>9 DEF CancelEndpoint, cancel_task, SetStatus, Broadcast
<1>10. ASSUME NEW r \in Ops, MakeText(r) PROVE Filed'
  <2>1. texts' \subseteq Texts
    <3>1. [id |-> IdOf[r], status |-> status[r], fresh |-> owner[IdOf[r]] = r] \in Texts
      BY <1>10 DEF MakeText
    <3>2. ASSUME NEW x \in texts' PROVE x \in Texts
      <4>1. \/ x \in texts
            \/ \E m \in texts : x = [m EXCEPT !.fresh = FALSE]
            \/ x = [id |-> IdOf[r], status |-> status[r], fresh |-> owner[IdOf[r]] = r]
        BY <1>10 DEF MakeText
      <4>2. texts \subseteq Texts
        OBVIOUS
      <4> QED
        BY <3>1, <4>1, <4>2, LateTexts, Zenon
    <3> QED
      BY <3>2
  <2> QED
    BY <1>10, <2>1 DEF MakeText
<1>11. ASSUME NEW m \in texts, Deliver(m) PROVE Filed'
  BY <1>11 DEF Deliver
<1>12. ASSUME UNCHANGED vars PROVE Filed'
  BY <1>12
<1> QED
  BY <1>1, <1>2, <1>3, <1>4, <1>5, <1>6, <1>7, <1>8, <1>9, <1>10, <1>11, <1>12
     DEF Next, Handler, Update

LEMMA FreshNext ==
  ASSUME Filed, FreshIsTrue, [Next]_vars PROVE FreshIsTrue'
<1> USE IdAssumption DEF Filed, TypeOK, FiledUnderItsId, FreshIsTrue, Texts, NoText, Statuses,
        vars, taskVars, opVars, feedVars
<1>1. ASSUME NEW o \in Ops, StartOp(o) PROVE FreshIsTrue'
  BY <1>1 DEF StartOp, Broadcast
<1>2. ASSUME NEW o \in Ops, HandlerReturns(o) PROVE FreshIsTrue'
  BY <1>2 DEF HandlerReturns, is_cancelled, complete_task,
         SetUnlessCancelled, SetStatus, Broadcast, Answer
<1>3. ASSUME NEW o \in Ops, HandlerCancelled(o) PROVE FreshIsTrue'
  BY <1>3 DEF HandlerCancelled, cancel_task, SetStatus, Broadcast, Answer
<1>4. ASSUME NEW o \in Ops, HandlerFails(o) PROVE FreshIsTrue'
  BY <1>4 DEF HandlerFails, fail_task,
         SetUnlessCancelled, SetStatus, Broadcast, Answer
<1>5. ASSUME NEW o \in Ops, WorkerStops(o) PROVE FreshIsTrue'
  BY <1>5 DEF WorkerStops, WorkerSeesCancel, WorkerReturns,
         WorkerFails, WorkerEnds
<1>6. ASSUME NEW o \in Ops, UpdateCheck(o) PROVE FreshIsTrue'
  BY <1>6 DEF UpdateCheck
<1>7. ASSUME NEW o \in Ops, UpdateStore(o) PROVE FreshIsTrue'
  BY <1>7 DEF UpdateStore
<1>8. ASSUME NEW o \in Ops, UpdateAnnounce(o) PROVE FreshIsTrue'
  BY <1>8 DEF UpdateAnnounce, Broadcast
<1>9. ASSUME NEW t \in TaskIds, CancelEndpoint(t) PROVE FreshIsTrue'
  BY <1>9 DEF CancelEndpoint, cancel_task, SetStatus, Broadcast
<1>10. ASSUME NEW r \in Ops, MakeText(r) PROVE FreshIsTrue'
  <2> SUFFICES ASSUME NEW t \in Followed
               PROVE  LET q == owner[t] IN
                      \/ q = None
                      \/ q \in outbox'
                      \/ \E o \in Ops : pc[o] = "announce" /\ held[o] = q
                      \/ /\ \A m \in texts' : m.id = t /\ m.fresh => m.status = status[q]
                         /\ (\A m \in texts' : m.id = t => ~m.fresh) /\ seen[t].fresh
                                => seen[t].status = status[q]
    BY <1>10 DEF MakeText
  <2> DEFINE new == [id |-> IdOf[r], status |-> status[r], fresh |-> owner[IdOf[r]] = r]
             late(m) == [m EXCEPT !.fresh = FALSE]
             overtaken == {m \in texts : owner[IdOf[r]] = r /\ m.id = IdOf[r]}
  <2>1. /\ texts' = (texts \ overtaken) \cup {late(m) : m \in overtaken} \cup {new}
        /\ outbox' = outbox \ {r}
    BY <1>10 DEF MakeText
  <2>2. \A m \in texts : late(m).id = m.id /\ ~late(m).fresh
    OBVIOUS
  <2>3. CASE t = IdOf[r] /\ owner[t] = r
    <3>1. \A m \in texts' : m.id = t /\ m.fresh => m = new
      BY <2>1, <2>2, <2>3
    <3>2. new \in texts' /\ new.id = t /\ new.fresh /\ new.status = status[owner[t]]
      BY <2>1, <2>3
    <3> QED
      BY <3>1, <3>2
  <2>4. CASE ~(t = IdOf[r] /\ owner[t] = r)
    <3>1. new.id = t => ~new.fresh
      BY <2>4
    <3>2. \A m \in texts' : m.id = t => m \in texts \/ ~m.fresh
      BY <2>1, <2>2, <3>1
    <3>3. \A m \in texts : m.id = t => m \in texts'
      BY <2>1, <2>4
    <3>4. owner[t] # None /\ owner[t] \in outbox => owner[t] \in outbox'
      BY <2>1, <2>4, IdAssumption
    <3> QED
      BY <3>2, <3>3, <3>4
  <2> QED
    BY <2>3, <2>4
<1>11. ASSUME NEW m \in texts, Deliver(m) PROVE FreshIsTrue'
  BY <1>11 DEF Deliver
<1>12. ASSUME UNCHANGED vars PROVE FreshIsTrue'
  BY <1>12
<1> QED
  BY <1>1, <1>2, <1>3, <1>4, <1>5, <1>6, <1>7, <1>8, <1>9, <1>10, <1>11, <1>12
     DEF Next, Handler, Update

LEMMA AskedNext ==
  ASSUME Filed, AskedBinds, [Next]_vars PROVE AskedBinds'
<1> USE IdAssumption DEF Filed, TypeOK, FiledUnderItsId, AskedBinds, InProgress, InWorker,
        vars, taskVars, opVars, feedVars
<1>1. ASSUME NEW o \in Ops, StartOp(o) PROVE AskedBinds'
  BY <1>1 DEF StartOp, Broadcast
<1>2. ASSUME NEW o \in Ops, HandlerReturns(o) PROVE AskedBinds'
  <2>1. \/ is_cancelled(IdOf[o]) /\ Answer(o, "cancelled") /\ UNCHANGED cancelled
        \/ ~is_cancelled(IdOf[o]) /\ Answer(o, "success") /\ UNCHANGED cancelled
    BY <1>2 DEF HandlerReturns
  <2> QED
    BY <2>1 DEF is_cancelled, Answer
<1>3. ASSUME NEW o \in Ops, HandlerCancelled(o) PROVE AskedBinds'
  BY <1>3 DEF HandlerCancelled, cancel_task, SetStatus, Broadcast, Answer
<1>4. ASSUME NEW o \in Ops, HandlerFails(o) PROVE AskedBinds'
  BY <1>4 DEF HandlerFails, fail_task,
         SetUnlessCancelled, SetStatus, Broadcast, Answer
<1>5. ASSUME NEW o \in Ops, WorkerStops(o) PROVE AskedBinds'
  BY <1>5 DEF WorkerStops, WorkerSeesCancel, WorkerReturns,
         WorkerFails, WorkerEnds
<1>6. ASSUME NEW o \in Ops, UpdateCheck(o) PROVE AskedBinds'
  BY <1>6 DEF UpdateCheck
<1>7. ASSUME NEW o \in Ops, UpdateStore(o) PROVE AskedBinds'
  BY <1>7 DEF UpdateStore
<1>8. ASSUME NEW o \in Ops, UpdateAnnounce(o) PROVE AskedBinds'
  BY <1>8 DEF UpdateAnnounce, Broadcast
<1>9. ASSUME NEW t \in TaskIds, CancelEndpoint(t) PROVE AskedBinds'
  BY <1>9 DEF CancelEndpoint, cancel_task, SetStatus, Broadcast
<1>10. ASSUME NEW r \in Ops, MakeText(r) PROVE AskedBinds'
  BY <1>10 DEF MakeText
<1>11. ASSUME NEW m \in texts, Deliver(m) PROVE AskedBinds'
  BY <1>11 DEF Deliver
<1>12. ASSUME UNCHANGED vars PROVE AskedBinds'
  BY <1>12
<1> QED
  BY <1>1, <1>2, <1>3, <1>4, <1>5, <1>6, <1>7, <1>8, <1>9, <1>10, <1>11, <1>12
     DEF Next, Handler, Update

LEMMA IInvHolds == SafetySpec => []IInv
<1>1. Init => IInv
  BY IdAssumption
     DEF Init, IInv, Filed, TypeOK, HoldsARecord, FiledUnderItsId, FlagHasRecord,
         CancelledIsFlagged, NoCompletionAfterCancel, FreshIsTrue, AskedBinds,
         Texts, NoText, Statuses, PCs, Endings, Replies
<1>2. IInv /\ [Next]_vars => IInv'
  BY FiledNext, FreshNext, AskedNext DEF IInv
<1> QED
  BY <1>1, <1>2, PTL DEF SafetySpec

\* The types hold in every reachable state.
THEOREM TypeCorrect == SafetySpec => []TypeOK
  BY IInvHolds, PTL DEF IInv, Filed

\* Whatever the interleaving of workers, handlers and cancellations, and with
\* reused ids too, no record completes while the cancellation of its id stands.
THEOREM CancelPreventsCompletion == SafetySpec => []NoCompletionAfterCancel
  BY IInvHolds, PTL DEF IInv, Filed

\* A cancellation accepted while an operation is at work keeps it from being
\* answered as a success, unless a later request takes its id.
THEOREM CancellationsStand == SafetySpec => []OnlyAReusedIdLiftsACancellation
<1>1. IInv => OnlyAReusedIdLiftsACancellation
  BY DEF IInv, AskedBinds, OnlyAReusedIdLiftsACancellation
<1> QED
  BY <1>1, IInvHolds, PTL

\* Texts may reach a client in any order, and still it rests on a status that
\* is not the record's only when the text it was sent last was a late one.
THEOREM ClientsAreMisledByLateTexts == SafetySpec => []OnlyLateTextsMislead
<1>1. IInv => OnlyLateTextsMislead
  BY DEF IInv, FreshIsTrue, OnlyLateTextsMislead
<1> QED
  BY <1>1, IInvHolds, PTL

-----------------------------------------------------------------------------
(* The operations whose task id no other request has. *)

\* The record under the id is the operation's own, and so is the one it updates.
OwnRecord ==
    \A o \in Ops : Alone(o) =>
        /\ pc[o] # "idle" => owner[IdOf[o]] = o
        /\ \A p \in Ops : pc[p] \in {"store", "announce"} => (held[p] = o <=> p = o)

\* Before its start an operation has no flag; until its handler is done its
\* record is neither completed nor failed.
Stages ==
    \A o \in Ops : Alone(o) =>
        /\ pc[o] = "idle" => IdOf[o] \notin cancelled
        /\ InProgress(o) => status[o] \in {"running", "cancelled"}

\* A worker stops for a cancellation, and a caller is told of one, only when
\* the flag is set.
ToldOfCancel ==
    \A o \in Ops : Alone(o) /\ pc[o] = "back" /\ ending[o] = "raisedCancelled"
                       => IdOf[o] \in cancelled

Own  == OwnRecord /\ Stages /\ ToldOfCancel /\ ReplyAgreesWithRecord

UInv == IInv /\ Own

LEMMA OwnNext ==
  ASSUME Filed, AskedBinds, Own, [Next]_vars PROVE Own'
<1> USE IdAssumption DEF Filed, TypeOK, HoldsARecord, FiledUnderItsId, FlagHasRecord,
        CancelledIsFlagged, AskedBinds, Own, OwnRecord, Stages, ToldOfCancel,
        ReplyAgreesWithRecord, Alone, InProgress, InWorker, is_cancelled,
        vars, taskVars, opVars, feedVars
<1>1. ASSUME NEW o \in Ops, StartOp(o) PROVE Own'
  BY <1>1 DEF StartOp, Broadcast
<1>2. ASSUME NEW o \in Ops, HandlerReturns(o) PROVE Own'
  BY <1>2 DEF HandlerReturns, is_cancelled, complete_task,
         SetUnlessCancelled, SetStatus, Broadcast, Answer
<1>3. ASSUME NEW o \in Ops, HandlerCancelled(o) PROVE Own'
  BY <1>3 DEF HandlerCancelled, cancel_task, SetStatus, Broadcast, Answer
<1>4. ASSUME NEW o \in Ops, HandlerFails(o) PROVE Own'
  BY <1>4 DEF HandlerFails, fail_task,
         SetUnlessCancelled, SetStatus, Broadcast, Answer
<1>5. ASSUME NEW o \in Ops, WorkerStops(o) PROVE Own'
  BY <1>5 DEF WorkerStops, WorkerSeesCancel, WorkerReturns,
         WorkerFails, WorkerEnds
<1>6. ASSUME NEW o \in Ops, UpdateCheck(o) PROVE Own'
  BY <1>6 DEF UpdateCheck
<1>7. ASSUME NEW o \in Ops, UpdateStore(o) PROVE Own'
  BY <1>7 DEF UpdateStore
<1>8. ASSUME NEW o \in Ops, UpdateAnnounce(o) PROVE Own'
  BY <1>8 DEF UpdateAnnounce, Broadcast
<1>9. ASSUME NEW t \in TaskIds, CancelEndpoint(t) PROVE Own'
  BY <1>9 DEF CancelEndpoint, cancel_task, SetStatus, Broadcast
<1>10. ASSUME NEW r \in Ops, MakeText(r) PROVE Own'
  BY <1>10 DEF MakeText
<1>11. ASSUME NEW m \in texts, Deliver(m) PROVE Own'
  BY <1>11 DEF Deliver
<1>12. ASSUME UNCHANGED vars PROVE Own'
  BY <1>12
<1> QED
  BY <1>1, <1>2, <1>3, <1>4, <1>5, <1>6, <1>7, <1>8, <1>9, <1>10, <1>11, <1>12
     DEF Next, Handler, Update

LEMMA UInvHolds == SafetySpec => []UInv
<1>1. Init => Own
  BY IdAssumption
     DEF Init, Own, OwnRecord, Stages, ToldOfCancel, ReplyAgreesWithRecord,
         InProgress, InWorker
<1>2. Own /\ IInv /\ [Next]_vars => Own'
  BY OwnNext DEF IInv
<1> QED
  BY <1>1, <1>2, IInvHolds, PTL DEF SafetySpec, UInv

\* What the caller was told agrees with the record left behind, for every
\* operation whose id no other request has, whatever the others do.
THEOREM AnswersAgree == SafetySpec => []ReplyAgreesWithRecord
  BY UInvHolds, PTL DEF UInv, Own

-----------------------------------------------------------------------------
(* The promise of CancellableOp *)

\* A step that moves the phase of one operation only.
LEMMA PhaseMoves ==
  ASSUME NEW o \in Ops, NEW a, Phase(o)' = a,
         \A p \in Ops \ {o} : Phase(p)' = Phase(p)
  PROVE  [p \in Ops |-> Phase(p)]' = [[p \in Ops |-> Phase(p)] EXCEPT ![o] = a]
  OBVIOUS

\* What is left to show of a step that the promise does not notice.
LEMMA NothingMoves ==
  ASSUME \A p \in Ops : Phase(p)' = Phase(p), Asked' = Asked
  PROVE  UNCHANGED Promise!vars
  BY DEF Promise!vars

LEMMA StepImplements ==
  ASSUME UInv, [Next]_vars PROVE [Promise!Next]_(Promise!vars)
<1> USE IdAssumption DEF UInv, IInv, Filed, TypeOK, FiledUnderItsId, Own, OwnRecord, opVars
<1>1. ASSUME NEW o \in Ops, StartOp(o) PROVE [Promise!Next]_(Promise!vars)
  <2>1. \A p \in Ops : Alone(p)' = Alone(p)
    BY <1>1 DEF StartOp, Alone
  <2>2. \A p \in Ops \ {o} : Phase(p)' = Phase(p)
    BY <1>1, <2>1 DEF StartOp, Phase, InProgress, InWorker
  <2>3. Asked' = Asked
    BY <1>1, <2>1 DEF StartOp, Stages, Asked, Alone
  <2>4. CASE Alone(o)
    <3>1. Phase(o) = "idle" /\ Phase(o)' = "running"
      BY <1>1, <2>1, <2>4 DEF StartOp, Phase, InProgress, InWorker
    <3>2. Promise!Start(o)
      BY <3>1, <2>2, <2>3, PhaseMoves, Zenon DEF Promise!Start
    <3> QED
      BY <3>2 DEF Promise!Next
  <2>5. CASE ~Alone(o)
    <3>1. Phase(o)' = Phase(o)
      BY <2>1, <2>5 DEF Phase
    <3> QED
      BY <3>1, <2>2, <2>3, NothingMoves
  <2> QED
    BY <2>4, <2>5
<1>2. ASSUME NEW o \in Ops, Handler(o) PROVE [Promise!Next]_(Promise!vars)
  <2> USE DEF Handler, HandlerReturns, HandlerCancelled, HandlerFails, Answer
  <2>1. \A p \in Ops : Alone(p)' = Alone(p)
    BY <1>2 DEF Alone
  <2>2. \A p \in Ops \ {o} : Phase(p)' = Phase(p)
    BY <1>2, <2>1 DEF Phase, InProgress, InWorker
  <2>3. Asked' = Asked
    BY <1>2, <2>1 DEF cancel_task, ToldOfCancel, Asked, Alone
  <2>4. CASE Alone(o)
    <3>1. Phase(o) = "running" /\ Phase(o)' \in Promise!Answers
      BY <1>2, <2>1, <2>4 DEF Promise!Answers, Phase, InProgress, InWorker
    <3>2. /\ Phase(o)' = "success" => o \notin Asked
          /\ Phase(o)' = "cancelled" => o \in Asked
      BY <1>2, <2>1, <2>4 DEF is_cancelled, ToldOfCancel, Asked,
         Phase, InProgress, InWorker
    <3>3. Promise!Answer(o)
      BY <3>1, <3>2, <2>2, <2>3, PhaseMoves, Zenon DEF Promise!Answer
    <3> QED
      BY <3>3 DEF Promise!Next
  <2>5. CASE ~Alone(o)
    <3>1. Phase(o)' = Phase(o)
      BY <2>1, <2>5 DEF Phase
    <3> QED
      BY <3>1, <2>2, <2>3, NothingMoves
  <2> QED
    BY <2>4, <2>5
<1>3. ASSUME NEW t \in TaskIds, CancelEndpoint(t) PROVE [Promise!Next]_(Promise!vars)
  <2>1. owner[t] \in Ops /\ IdOf[owner[t]] = t /\ pc[owner[t]] # "idle"
    BY <1>3 DEF CancelEndpoint
  <2>2. \A p \in Ops : Alone(p)' = Alone(p)
    BY <1>3 DEF CancelEndpoint, Alone
  <2>3. \A p \in Ops : Phase(p)' = Phase(p)
    BY <1>3, <2>2 DEF CancelEndpoint, Phase, InProgress, InWorker
  <2>4. CASE Alone(owner[t])
    <3>1. Phase(owner[t]) # "idle"
      BY <2>1, <2>4 DEF AskedBinds, Phase, InProgress, InWorker, PCs, Replies
    <3>2. Asked' = Asked \cup {owner[t]}
      BY <1>3, <2>1, <2>2, <2>4 DEF CancelEndpoint, cancel_task, Asked, Alone
    <3>3. UNCHANGED [p \in Ops |-> Phase(p)]
      BY <2>3
    <3>4. Promise!Ask(owner[t])
      BY <3>1, <3>2, <3>3, <2>1 DEF Promise!Ask
    <3> QED
      BY <3>4, <2>1 DEF Promise!Next
  <2>5. CASE ~Alone(owner[t])
    <3>1. Asked' = Asked
      BY <1>3, <2>1, <2>2, <2>5 DEF CancelEndpoint, cancel_task, Asked, Alone
    <3> QED
      BY <3>1, <2>3, NothingMoves
  <2> QED
    BY <2>4, <2>5
<1>4. ASSUME NEW o \in Ops, WorkerStops(o) \/ Update(o) PROVE UNCHANGED Promise!vars
  <2> USE DEF WorkerStops, WorkerSeesCancel, WorkerReturns, WorkerFails, WorkerEnds,
              Update, UpdateCheck, UpdateStore, UpdateAnnounce
  <2>1. \A p \in Ops : Alone(p)' = Alone(p)
    BY <1>4 DEF Alone
  <2>2. Asked' = Asked
    BY <1>4, <2>1 DEF taskVars, Asked
  <2>3. \A p \in Ops : Phase(p)' = Phase(p)
    BY <1>4, <2>1 DEF Phase, InProgress, InWorker
  <2> QED
    BY <2>2, <2>3, NothingMoves
<1>5. ASSUME UNCHANGED <<taskVars, opVars>> PROVE UNCHANGED Promise!vars
  BY <1>5 DEF taskVars, opVars, Promise!vars, Phase, Asked, Alone, InProgress, InWorker
<1> QED
  BY <1>1, <1>2, <1>3, <1>4, <1>5 DEF Next, MakeText, Deliver, vars

\* The handlers, workers and the cancel endpoint implement the promise of
\* CancellableOp for every operation whose id no other request has: "success"
\* only if nobody cancelled, "cancelled" only if somebody did.
THEOREM ImplementsPromise == SafetySpec => Promise!SafetySpec
<1>1. Init => Promise!Init
  BY DEF Init, Phase, Asked, InProgress, InWorker, Promise!Init
<1>2. UInv /\ [Next]_vars => [Promise!Next]_(Promise!vars)
  BY StepImplements
<1> QED
  BY <1>1, <1>2, UInvHolds, PTL DEF SafetySpec, Promise!SafetySpec
=============================================================================
