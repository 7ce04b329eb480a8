------------------------------ MODULE FileTasks ------------------------------
(***************************************************************************)
(* The task manager (app/services/task_manager.py) together with its users *)
(* in app/routers/files.py: the copy, move and extract handlers, the       *)
(* worker threads they start with asyncio.to_thread, and the cancel        *)
(* endpoint.                                                               *)
(*                                                                         *)
(* Handlers run on one event loop, so what a handler does between two      *)
(* awaits is one step.  A worker thread shares _tasks and _cancelled with  *)
(* the loop without a lock: its is_cancelled() poll is one step, and       *)
(* update_task is three (read the status, store "running", schedule the    *)
(* broadcast), between which the loop may run.                             *)
(*                                                                         *)
(* A record is named by the operation whose create_task made it, and       *)
(* owner says which record _tasks currently files under a task id: with a  *)
(* reused id, create_task replaces the record.  The records' percentages,  *)
(* details and times are left out.                                         *)
(*                                                                         *)
(* Of the feed one client is followed.  A broadcast is a coroutine of its  *)
(* own: when it runs it turns the record into text, and then it sends that *)
(* text to one connection after the other (broadcast_json in               *)
(* app/routers/ws.py).  Where it waits for a connection, one that leaves   *)
(* say, a later broadcast that has not got this connection in its list     *)
(* goes past it, so the client may be sent texts in any order.             *)
(***************************************************************************)
EXTENDS Naturals, FiniteSets

CONSTANTS
    Ops,        \* the requests to copy, move or extract, each sent once
    TaskIds,    \* the task ids clients choose from
    IdChoices,  \* the ways the clients may choose them
    None,       \* no record
    Followed,   \* the ids whose broadcasts are followed to the client
    MaxTexts    \* bound: texts on their way to the client at a time

ASSUME IdAssumption == /\ IdChoices \subseteq [Ops -> TaskIds] /\ None \notin Ops
                       /\ Followed \subseteq TaskIds /\ MaxTexts \in Nat \ {0}

VARIABLES
    IdOf,       \* the task id each request carries
    owner,      \* _tasks: task id -> the record filed under it, or None
    status,     \* record -> its "status" field ("absent" before create_task)
    cancelled,  \* _cancelled
    pc,         \* operation -> where its handler and its worker are
    held,       \* operation -> the record its update_task is working on
    ending,     \* operation -> how its worker ended
    reply,      \* operation -> what the HTTP response said
    asked,      \* history: operation -> the record filed under its id when the
                \* client last cancelled that id while the operation was at work
    outbox,     \* the records with a broadcast scheduled on the loop
    texts,      \* the texts made, on their way to the client
    seen        \* task id -> the text the client was last sent of it

taskVars == <<owner, status, cancelled>>
opVars   == <<IdOf, pc, held, ending, reply, asked>>
feedVars == <<outbox, texts, seen>>
vars     == <<taskVars, opVars, feedVars>>

Statuses == {"absent", "running", "completed", "failed", "cancelled"}
Terminal == {"completed", "failed", "cancelled"}
PCs      == {"idle", "work", "store", "announce", "back", "replied"}
Endings  == {"none", "returned", "raisedCancelled", "raisedError"}
Replies  == {"none", "success", "cancelled", "error"}

\* fresh: no later text was made of the record filed under the id.  It is there
\* for the properties; a client cannot tell.
Texts  == [id : Followed, status : Statuses, fresh : BOOLEAN]
NoText == [id |-> None, status |-> "absent", fresh |-> TRUE]

InWorker(o)   == pc[o] \in {"work", "store", "announce"}
InProgress(o) == InWorker(o) \/ pc[o] = "back"

Init ==
    /\ IdOf \in IdChoices
    /\ owner = [t \in TaskIds |-> None]
    /\ status = [o \in Ops |-> "absent"]
    /\ cancelled = {}
    /\ pc = [o \in Ops |-> "idle"]
    /\ held = [o \in Ops |-> None]
    /\ ending = [o \in Ops |-> "none"]
    /\ reply = [o \in Ops |-> "none"]
    /\ asked = [o \in Ops |-> None]
    /\ outbox = {}
    /\ texts = {}
    /\ seen = [t \in Followed |-> NoText]

-----------------------------------------------------------------------------
(* The event loop *)

is_cancelled(t) == t \in cancelled

\* _broadcast: the coroutine keeps a reference to the record until it runs, so
\* two scheduled broadcasts of one record say the same.
Broadcast(r) == outbox' = IF IdOf[r] \in Followed THEN outbox \cup {r} ELSE outbox

\* Mutant: the writer forgets its broadcast.
SetStatus_Silent(t, s) == /\ status' = [status EXCEPT ![owner[t]] = s]
                          /\ UNCHANGED outbox

\* status := s under task id t, for a record that exists; every writer on the
\* event loop broadcasts the record it wrote.
SetStatus(t, s) ==
    /\ status' = [status EXCEPT ![owner[t]] = s]
    /\ Broadcast(owner[t])

\* The two writers that respect a cancellation already recorded.
SetUnlessCancelled(t, s) ==
    IF status[owner[t]] = "cancelled"
    THEN UNCHANGED <<status, outbox>>
    ELSE SetStatus(t, s)

\* Mutant: the completed record is not broadcast.
complete_task_Silent(t) ==
    /\ status' = [status EXCEPT ![owner[t]] =
                     IF @ = "cancelled" THEN @ ELSE "completed"]
    /\ UNCHANGED outbox

complete_task(t) == SetUnlessCancelled(t, "completed")
fail_task(t)     == SetUnlessCancelled(t, "failed")

\* Unconditional: a record that is completed or failed becomes cancelled.
cancel_task(t) == /\ cancelled' = cancelled \cup {t}
                  /\ SetStatus(t, "cancelled")

Answer(o, r) == /\ pc' = [pc EXCEPT ![o] = "replied"]
                /\ reply' = [reply EXCEPT ![o] = r]
                /\ UNCHANGED <<IdOf, owner, held, ending, asked, texts, seen>>

\* The handler up to its await: create_task, then the worker is started.
\* A cancellation of an earlier task of the same id is forgotten.
StartOp(o) ==
    /\ pc[o] = "idle"
    /\ cancelled' = cancelled \ {IdOf[o]}
    /\ owner' = [owner EXCEPT ![IdOf[o]] = o]
    /\ status' = [status EXCEPT ![o] = "running"]
    /\ Broadcast(o)
    /\ pc' = [pc EXCEPT ![o] = "work"]
    /\ UNCHANGED <<IdOf, held, ending, reply, asked, texts, seen>>

\* POST /tasks/{task_id}/cancel; 404 when no record is filed under the id.
CancelEndpoint(t) ==
    /\ owner[t] # None
    /\ cancel_task(t)
    /\ asked' = [o \in Ops |-> IF InProgress(o) /\ IdOf[o] = t THEN owner[t] ELSE asked[o]]
    /\ UNCHANGED <<IdOf, owner, pc, held, ending, reply, texts, seen>>

\* Mutant: no look at _cancelled, and complete_task alone has to notice.
HandlerReturns_NoRecheck(o) ==
    /\ pc[o] = "back"
    /\ ending[o] = "returned"
    /\ complete_task(IdOf[o])
    /\ Answer(o, "success")
    /\ UNCHANGED cancelled

\* Mutant: the handler asks the record, which a progress report may overwrite.
HandlerReturns_AsksRecord(o) ==
    /\ pc[o] = "back"
    /\ ending[o] = "returned"
    /\ \/ /\ status[owner[IdOf[o]]] = "cancelled"
          /\ Answer(o, "cancelled")
          /\ UNCHANGED <<status, outbox, cancelled>>
       \/ /\ status[owner[IdOf[o]]] # "cancelled"
          /\ complete_task(IdOf[o])
          /\ Answer(o, "success")
          /\ UNCHANGED cancelled

\* The handler resumes after the worker returned.
HandlerReturns(o) ==
    /\ pc[o] = "back"
    /\ ending[o] = "returned"
    /\ \/ /\ is_cancelled(IdOf[o])
          /\ Answer(o, "cancelled")
          /\ UNCHANGED <<status, outbox, cancelled>>
       \/ /\ ~is_cancelled(IdOf[o])
          /\ complete_task(IdOf[o])
          /\ Answer(o, "success")
          /\ UNCHANGED cancelled

\* except TaskCancelledException
HandlerCancelled(o) ==
    /\ pc[o] = "back"
    /\ ending[o] = "raisedCancelled"
    /\ cancel_task(IdOf[o])
    /\ Answer(o, "cancelled")

\* Mutant: the error is answered and the record is left alone.
HandlerFails_NoRecord(o) ==
    /\ pc[o] = "back"
    /\ ending[o] = "raisedError"
    /\ Answer(o, "error")
    /\ UNCHANGED <<status, outbox, cancelled>>

\* except PermissionError / FileExistsError / ValueError / Exception
HandlerFails(o) ==
    /\ pc[o] = "back"
    /\ ending[o] = "raisedError"
    /\ fail_task(IdOf[o])
    /\ Answer(o, "error")
    /\ UNCHANGED cancelled

Handler(o) == HandlerReturns(o) \/ HandlerCancelled(o) \/ HandlerFails(o)

\* A scheduled broadcast runs: json.dumps of the record as it is now, before the
\* first await.  A text of a record that was replaced is late from the start,
\* any other makes the earlier ones of its id late.
MakeText(r) ==
    LET t == IdOf[r]
        current == owner[t] = r
        overtaken == {m \in texts : current /\ m.id = t}
    IN /\ r \in outbox
       /\ Cardinality(texts) < MaxTexts
       /\ outbox' = outbox \ {r}
       /\ texts' = (texts \ overtaken)
                   \cup {[m EXCEPT !.fresh = FALSE] : m \in overtaken}
                   \cup {[id |-> t, status |-> status[r], fresh |-> current]}
       /\ UNCHANGED <<taskVars, opVars, seen>>

\* send_text to the client's connection.
Deliver(m) ==
    /\ m \in texts
    /\ texts' = texts \ {m}
    /\ seen' = [seen EXCEPT ![m.id] = m]
    /\ UNCHANGED <<taskVars, opVars, outbox>>

-----------------------------------------------------------------------------
(* The worker threads *)

WorkerEnds(o, e) ==
    /\ pc[o] = "work"
    /\ pc' = [pc EXCEPT ![o] = "back"]
    /\ ending' = [ending EXCEPT ![o] = e]
    /\ UNCHANGED <<IdOf, taskVars, held, reply, asked, feedVars>>

\* The is_cancelled poll before an item or a chunk finds the flag set.
WorkerSeesCancel(o) == /\ is_cancelled(IdOf[o])
                       /\ WorkerEnds(o, "raisedCancelled")

\* The last poll may be long past when the worker returns or fails.
WorkerReturns(o) == WorkerEnds(o, "returned")
WorkerFails(o)   == WorkerEnds(o, "raisedError")

WorkerStops(o) == WorkerSeesCancel(o) \/ WorkerReturns(o) \/ WorkerFails(o)

\* update_task up to its guard (a missing or cancelled record: no step at all)
UpdateCheck(o) ==
    LET r == owner[IdOf[o]] IN
    /\ pc[o] = "work"
    /\ r # None
    /\ status[r] # "cancelled"
    /\ held' = [held EXCEPT ![o] = r]
    /\ pc' = [pc EXCEPT ![o] = "store"]
    /\ UNCHANGED <<IdOf, taskVars, ending, reply, asked, feedVars>>

\* task["status"] = status, in the record fetched before the guard
UpdateStore(o) ==
    /\ pc[o] = "store"
    /\ status' = [status EXCEPT ![held[o]] = "running"]
    /\ pc' = [pc EXCEPT ![o] = "announce"]
    /\ UNCHANGED <<IdOf, owner, cancelled, held, ending, reply, asked, feedVars>>

UpdateAnnounce(o) ==
    /\ pc[o] = "announce"
    /\ Broadcast(held[o])
    /\ held' = [held EXCEPT ![o] = None]
    /\ pc' = [pc EXCEPT ![o] = "work"]
    /\ UNCHANGED <<IdOf, taskVars, ending, reply, asked, texts, seen>>

Update(o) == UpdateCheck(o) \/ UpdateStore(o) \/ UpdateAnnounce(o)

-----------------------------------------------------------------------------
Next ==
    \/ \E o \in Ops : StartOp(o) \/ Handler(o) \/ WorkerStops(o) \/ Update(o)
    \/ \E t \in TaskIds : CancelEndpoint(t)
    \/ \E r \in Ops : MakeText(r)
    \/ \E m \in texts : Deliver(m)

SafetySpec == Init /\ [][Next]_vars

(***************************************************************************)
(* The event loop resumes a handler whose worker ended and runs every      *)
(* scheduled broadcast; a thread inside update_task leaves it; and a       *)
(* worker cannot report progress for ever, since the bytes it has to copy  *)
(* are finite (strong fairness, because reporting interrupts the work).    *)
(* Nobody has to start an operation or to cancel one.                      *)
(***************************************************************************)
Fairness ==
    /\ \A o \in Ops : /\ WF_vars(Handler(o))
                      /\ WF_vars(UpdateStore(o))
                      /\ WF_vars(UpdateAnnounce(o))
                      /\ SF_vars(WorkerStops(o))
    /\ \A r \in Ops : WF_vars(MakeText(r))
    /\ \A m \in Texts : WF_vars(Deliver(m))

Spec == SafetySpec /\ Fairness

\* The ids the web client makes are used once; others need not be.
Alone(o) == \A p \in Ops \ {o} : IdOf[p] # IdOf[o]

-----------------------------------------------------------------------------
(* Properties *)

\* Every variable stays in its range; a record filed under an id exists, and a
\* worker inside update_task holds a record.
TypeOK ==
    /\ IdOf \in [Ops -> TaskIds]
    /\ owner \in [TaskIds -> Ops \cup {None}]
    /\ status \in [Ops -> Statuses]
    /\ cancelled \subseteq TaskIds
    /\ pc \in [Ops -> PCs]
    /\ held \in [Ops -> Ops \cup {None}]
    /\ ending \in [Ops -> Endings]
    /\ reply \in [Ops -> Replies]
    /\ asked \in [Ops -> Ops \cup {None}]
    /\ outbox \subseteq {r \in Ops : IdOf[r] \in Followed}
    /\ texts \subseteq Texts
    /\ seen \in [Followed -> Texts \cup {NoText}]

\* As long as the cancellation of a task id stands, the record under that id is
\* not "completed": the handler looks at _cancelled after its worker returned,
\* whatever an update_task in flight has done to the status meanwhile.
NoCompletionAfterCancel ==
    \A t \in TaskIds :
        t \in cancelled /\ owner[t] # None => status[owner[t]] # "completed"

\* A cancellation accepted while an operation was at work keeps it from being
\* answered as a success, unless a later request has taken its id: create_task
\* forgets the cancellation and files a record of its own.
OnlyAReusedIdLiftsACancellation ==
    \A o \in Ops :
        reply[o] = "success" /\ asked[o] # None => owner[IdOf[o]] # asked[o]

\* What the caller was told agrees with the record left behind, if no other
\* request has its id, and apart from a cancellation after the answer.  The one
\* status that can be left behind without being terminal is "running", and only
\* when a cancellation was accepted while update_task was between its guard and
\* its store.
ReplyAgreesWithRecord ==
    \A o \in Ops : Alone(o) =>
        /\ reply[o] = "success"   => status[o] \in {"completed", "cancelled"}
        /\ reply[o] = "error"     => status[o] \in {"failed", "cancelled"}
        /\ reply[o] = "cancelled" => /\ status[o] \in {"running", "cancelled"}
                                     /\ IdOf[o] \in cancelled

\* A client shows what is filed under an id, or the newest text of that is still
\* to come, or the text sent last is a late one: overtaken by a newer one, or of
\* a record that was replaced.  Nothing else leaves a client behind: every writer
\* schedules its broadcast after it wrote, and the text is made later still.
OnlyLateTextsMislead ==
    \A t \in Followed :
        LET r == owner[t] IN
        \/ r = None
        \/ r \in outbox
        \/ \E o \in Ops : pc[o] = "announce" /\ held[o] = r
        \/ \E m \in texts : m.id = t /\ m.fresh
        \/ ~seen[t].fresh
        \/ seen[t].status = status[r]

\* What CancellableOp sees of an operation: the request in progress or its
\* answer, and whether the flag of its task id is set.
\* An operation that shares its id is promised nothing.
Phase(o) == IF pc[o] = "idle" \/ ~Alone(o) THEN "idle"
            ELSE IF InProgress(o) THEN "running" ELSE reply[o]
Asked    == {o \in Ops : Alone(o) /\ IdOf[o] \in cancelled}

Promise == INSTANCE CancellableOp WITH
    phase <- [o \in Ops |-> Phase(o)], asked <- Asked

\* The handlers, the workers and the cancel endpoint implement CancellableOp
\* for the operations whose ids are not used again, whatever the others do.
KeepsPromise == Promise!Spec

\* A client connected to the feed learns of every completion, or of the
\* cancellation accepted after it, and keeps it; unless the text it was sent
\* last is a late one.
CompletionIsShown ==
    \A t \in Followed :
        (\E o \in Ops : IdOf[o] = t /\ Alone(o) /\ reply[o] = "success")
            ~> ~seen[t].fresh \/ seen[t].status \in {"completed", "cancelled"}

=============================================================================
