-------------------------------- MODULE TaskCard --------------------------------
(***************************************************************************)
(* The progress card of the file manager (static/js/components/files.js).  *)
(* One card, one active task, one poll timer and one hide timer serve the  *)
(* file operations this page starts, the ones it only hears of, and the    *)
(* uploads it sends.                                                       *)
(*                                                                         *)
(* A step is what a handler runs between two awaits.  Answers to polls,    *)
(* messages of the WebSocket and answers to requests arrive in any order.  *)
(* The server is reduced to what a client can see: a task runs and then    *)
(* ends once; how it does is module FileTasks.                             *)
(***************************************************************************)
EXTENDS Naturals

CONSTANTS
    Own,        \* tasks of the operations this page starts, each once
    Other,      \* tasks of other pages, and deletions
    Uploads,    \* uploads of this page, each once
    NoTask,       \* no task, no upload
    MaxFiles    \* bound: files in an upload

ASSUME NamesAssumption ==
    /\ Own \cap Other = {}
    /\ NoTask \notin Own \cup Other \cup Uploads
ASSUME FilesAssumption == MaxFiles \in Nat \ {0}

VARIABLES
    card,       \* the card is displayed
    button,     \* its cancel button can be clicked
    active,     \* activeTaskId
    poll,       \* the task taskPollTimer polls, NoTask: no timer
    hide,       \* taskHideTimeout is running
    xhr,        \* activeUploadXhr: the upload whose request it is
    cancelled,  \* uploadCancelled
    left,       \* upload -> files it has still to send, Unsent before it starts
    request,    \* own task -> where the request that runs it is
    cancels,    \* task -> where the request to cancel it is
    status,     \* task -> its status on the server
    polls,      \* the tasks of the polls in flight
    why         \* why the card may stay: nothing else will hide it

cardVars   == <<card, button, active, poll, hide, why>>
uploadVars == <<xhr, cancelled, left>>
pageVars == <<cardVars, uploadVars, request, cancels, status, polls>>

Tasks    == Own \cup Other
Ended    == {"completed", "failed", "cancelled"}
Statuses == {"none", "running"} \cup Ended
Unsent   == MaxFiles + 1
Reasons  == {"none", "adopted", "late cancel", "timer taken"}

CardTypeOK ==
    /\ card \in BOOLEAN
    /\ button \in BOOLEAN
    /\ active \in Tasks \cup {NoTask}
    /\ poll \in Own \cup {NoTask}
    /\ hide \in BOOLEAN
    /\ xhr \in Uploads \cup {NoTask}
    /\ cancelled \in BOOLEAN
    /\ left \in [Uploads -> 0 .. Unsent]
    /\ request \in [Own -> {"idle", "waiting", "ok", "error", "done"}]
    /\ cancels \in [Tasks -> {"none", "asked", "served"}]
    /\ status \in [Tasks -> Statuses]
    /\ polls \subseteq Own
    /\ why \in Reasons

CardInit ==
    /\ card = FALSE
    /\ button = FALSE
    /\ active = NoTask
    /\ poll = NoTask
    /\ hide = FALSE
    /\ xhr = NoTask
    /\ cancelled = FALSE
    /\ left = [u \in Uploads |-> Unsent]
    /\ request = [t \in Own |-> "idle"]
    /\ cancels = [t \in Tasks |-> "none"]
    /\ status = [t \in Tasks |-> "none"]
    /\ polls = {}
    /\ why = "none"

-----------------------------------------------------------------------------
(* The server *)

Is(t, s) == status' = [status EXCEPT ![t] = s]

Starts(t) ==
    /\ status[t] = "none"
    /\ t \in Own => request[t] = "waiting"
    /\ Is(t, "running")
    /\ UNCHANGED <<cardVars, uploadVars, request, cancels, polls>>

Ends(t) ==
    /\ status[t] = "running"
    /\ \E s \in {"completed", "failed"} : Is(t, s)
    /\ UNCHANGED <<cardVars, uploadVars, request, cancels, polls>>

\* The operation is answered.  A request the server turns down has no task; the
\* answer of a cancelled copy or move lacks the list the page reads from it.
Answers(t) ==
    /\ request[t] = "waiting"
    /\ \E a \in {"ok", "error"} :
          /\ CASE status[t] = "completed" -> a = "ok"
               [] status[t] = "cancelled" -> TRUE
               [] OTHER                   -> status[t] \in {"none", "failed"} /\ a = "error"
          /\ request' = [request EXCEPT ![t] = a]
    /\ UNCHANGED <<cardVars, uploadVars, cancels, status, polls>>

\* A cancellation reaches the server, which may turn it down.
ServeCancel(t) ==
    /\ cancels[t] = "asked"
    /\ cancels' = [cancels EXCEPT ![t] = "served"]
    /\ \/ status[t] = "running" /\ Is(t, "cancelled")
       \/ UNCHANGED status
    /\ UNCHANGED <<cardVars, uploadVars, request, polls>>

\* What the page can hear of a task, in the answer to a poll or in a message of
\* the WebSocket: what is under way may be old, and progress is told many times.
Seen(t) == IF status[t] = "none" THEN {} ELSE {"running", status[t]}

-----------------------------------------------------------------------------
(* The card.  Each operator gives the new values of what its function sets. *)

\* Mutant: a card that is shown again keeps the timer that will hide it.
ShowTaskProgress_KeepTimer ==
    /\ card' = TRUE
    /\ button' = TRUE
    /\ UNCHANGED hide

ShowTaskProgress ==
    /\ card' = TRUE
    /\ button' = TRUE
    /\ hide' = FALSE

\* hideTaskProgress: polling stops now, the card goes when the timer fires.
HideSoon ==
    /\ poll' = NoTask
    /\ hide' = TRUE

HideFires ==
    /\ hide
    /\ card' = FALSE
    /\ active' = NoTask
    /\ hide' = FALSE
    /\ why' = "none"
    /\ UNCHANGED <<button, poll, uploadVars, request, cancels, status, polls>>

\* handleFileTaskProgress: a task other than the active one is not for the card;
\* when there is none, a running task becomes it.  The end of a task stops the
\* polling and hides the card soon; anything shows a card that is hidden.
Handle(t, s) ==
    IF active \notin {NoTask, t}
    THEN UNCHANGED cardVars
    ELSE /\ active' = IF s = "running" THEN t ELSE active
         /\ card' = TRUE
         /\ button' = (s = "running" \/ ~card)
         /\ IF s \in Ended
            THEN HideSoon
            ELSE /\ UNCHANGED poll
                 /\ hide' = (hide /\ card)
         /\ why' = IF s = "running" /\ active = NoTask THEN "adopted" ELSE why

\* Mutant: an operation is tracked without polling it.
Track_NoPoll(t) ==
    /\ request[t] = "idle"
    /\ request' = [request EXCEPT ![t] = "waiting"]
    /\ active' = t
    /\ ShowTaskProgress
    /\ poll' = NoTask
    /\ why' = "none"
    /\ UNCHANGED <<uploadVars, cancels, status, polls>>

\* Paste, transfer or extract: trackTask, then the request is sent.
Track(t) ==
    /\ request[t] = "idle"
    /\ request' = [request EXCEPT ![t] = "waiting"]
    /\ active' = t
    /\ ShowTaskProgress
    /\ poll' = t
    /\ why' = "none"
    /\ UNCHANGED <<uploadVars, cancels, status, polls>>

\* Its answer: an error hides the card, whichever task is on it.
RequestAnswered(t) ==
    /\ request[t] \in {"ok", "error"}
    /\ request' = [request EXCEPT ![t] = "done"]
    /\ IF request[t] = "error" THEN HideSoon ELSE UNCHANGED <<poll, hide>>
    /\ UNCHANGED <<card, button, active, why, uploadVars, cancels, status, polls>>

\* The poll timer: it stops itself once its task is not the active one.
PollTick ==
    /\ poll # NoTask
    /\ IF active # poll
       THEN poll' = NoTask /\ UNCHANGED polls
       ELSE polls' = polls \cup {poll} /\ UNCHANGED poll
    /\ UNCHANGED <<card, button, active, hide, why, uploadVars, request, cancels, status>>

\* A poll is answered.  When the task has ended, the timer that runs now is
\* stopped, which may be a later task's.
PollAnswered(t, s) ==
    /\ t \in polls
    /\ s \in Seen(t)
    /\ polls' = polls \ {t}
    /\ IF s \in Ended /\ active \notin {NoTask, t}
       THEN /\ poll' = NoTask
            /\ why' = IF poll = NoTask THEN why ELSE "timer taken"
            /\ UNCHANGED <<card, button, active, hide>>
       ELSE Handle(t, s)
    /\ UNCHANGED <<uploadVars, request, cancels, status>>

\* A poll fails, or the server does not know the task yet.
PollFails(t) ==
    /\ t \in polls
    /\ polls' = polls \ {t}
    /\ UNCHANGED <<cardVars, uploadVars, request, cancels, status>>

\* A file_task_progress message of the WebSocket.
Heard(t, s) ==
    /\ s \in Seen(t)
    /\ Handle(t, s)
    /\ UNCHANGED <<uploadVars, request, cancels, status, polls>>

-----------------------------------------------------------------------------
(* Cancelling and uploads *)

\* cancelCurrentTask: an upload is aborted at once, and its loop ends with it;
\* else the server is asked to cancel the active task.
ClickCancel ==
    /\ card /\ button
    /\ \/ /\ xhr # NoTask
          /\ cancelled' = TRUE
          /\ left' = [left EXCEPT ![xhr] = 0]
          /\ xhr' = NoTask
          /\ HideSoon
          /\ button' = FALSE
          /\ UNCHANGED <<card, active, why, cancels>>
       \/ /\ xhr = NoTask
          /\ button' = FALSE
          /\ cancels' = IF active = NoTask \/ cancels[active] # "none" THEN cancels
                        ELSE [cancels EXCEPT ![active] = "asked"]
          /\ UNCHANGED <<card, active, poll, hide, why, uploadVars>>
    /\ UNCHANGED <<request, status, polls>>

\* The answer: "Cancelling..." shows a card that was hidden meanwhile.
CancelAnswered(t) ==
    /\ cancels[t] = "served"
    /\ cancels' = [cancels EXCEPT ![t] = "none"]
    /\ \/ card /\ UNCHANGED <<card, button, hide, why>>
       \/ ~card /\ ShowTaskProgress /\ why' = "late cancel"
       \/ button' = TRUE /\ UNCHANGED <<card, hide, why>>
    /\ UNCHANGED <<active, poll, uploadVars, request, status, polls>>

\* handleFilesUpload: each file's request becomes the one to abort.
StartUpload(u, n) ==
    /\ left[u] = Unsent
    /\ left' = [left EXCEPT ![u] = n]
    /\ cancelled' = FALSE
    /\ xhr' = u
    /\ ShowTaskProgress
    /\ UNCHANGED <<active, poll, why, request, cancels, status, polls>>

\* A progress event of the file being sent; of a card that is shown only the text
\* changes.
UploadProgress(u) ==
    /\ left[u] \in 1 .. MaxFiles
    /\ ~cancelled
    /\ ~card
    /\ ShowTaskProgress
    /\ UNCHANGED <<active, poll, why, uploadVars, request, cancels, status, polls>>

\* A file is sent, or fails: the next one follows unless an upload was cancelled
\* since; after the last the card is hidden soon.
FileSent(u) ==
    /\ left[u] \in 1 .. MaxFiles
    /\ IF left[u] > 1 /\ ~cancelled
       THEN /\ left' = [left EXCEPT ![u] = @ - 1]
            /\ xhr' = u
            /\ UNCHANGED <<card, button, poll, hide>>
       ELSE /\ left' = [left EXCEPT ![u] = 0]
            /\ xhr' = NoTask
            /\ card' = (card \/ ~cancelled)
            /\ button' = (button \/ (~card /\ ~cancelled))
            /\ HideSoon
    /\ UNCHANGED <<active, why, cancelled, request, cancels, status, polls>>

-----------------------------------------------------------------------------

Server ==
    \/ \E t \in Tasks : Starts(t) \/ Ends(t) \/ ServeCancel(t)
    \/ \E t \in Own : Answers(t)

Page ==
    \/ HideFires
    \/ PollTick
    \/ \E t \in Own :
          \/ Track(t)
          \/ RequestAnswered(t)
          \/ \E s \in Seen(t) : PollAnswered(t, s)
          \/ PollFails(t)
    \/ \E t \in Tasks : \E s \in Seen(t) : Heard(t, s)
    \/ ClickCancel
    \/ \E t \in Tasks : CancelAnswered(t)
    \/ \E u \in Uploads :
          \/ \E n \in 1 .. MaxFiles : StartUpload(u, n)
          \/ UploadProgress(u)
          \/ FileSent(u)

CardNext == Server \/ Page

CardSpec == CardInit /\ [][CardNext]_pageVars

\* Tasks, requests and files come to an end, each once.
Settle ==
    \/ \E t \in Tasks : Ends(t)
    \/ \E t \in Own : Answers(t) \/ RequestAnswered(t)
    \/ \E u \in Uploads : FileSent(u)

CancelSettles == \E t \in Tasks : ServeCancel(t) \/ CancelAnswered(t)

EndIsPolled == \E t \in Own : \E s \in Ended : PollAnswered(t, s)

\* Timers fire and what was begun ends; when polls are made again and again, some
\* are answered with the end of the task.  Nothing says that a message of the
\* WebSocket arrives.
CardFairness ==
    /\ WF_pageVars(HideFires)
    /\ WF_pageVars(PollTick)
    /\ WF_pageVars(Settle)
    /\ WF_pageVars(CancelSettles)
    /\ SF_pageVars(EndIsPolled)

CardFairSpec == CardSpec /\ CardFairness

-----------------------------------------------------------------------------

\* A task that is polled is the one on the card, and no timer of an earlier task
\* is about to take the card away; a hidden card has no task left to cancel.
CardAndTaskAgree ==
    /\ poll # NoTask => active = poll /\ card /\ ~hide
    /\ ~card => active = NoTask

\* The card goes away once what it shows is over.  It stays for three reasons
\* only: its task was picked up from a message, so nobody polls it; the answer to
\* a cancellation came after the card was hidden; or the last poll of an earlier
\* task stopped the timer of this one.
OnlyThreeThingsKeepTheCard == card ~> (~card \/ why # "none")
=============================================================================
