---------------------------- MODULE MediaDownload ----------------------------
(***************************************************************************)
(* The media downloader (app/services/youtube_downloader.py) and the       *)
(* routes that reach it: a dictionary of tasks, a worker thread per        *)
(* download, and a copy of each task in the youtube_tasks table.           *)
(*                                                                         *)
(* Requests run on the event loop one at a time, but cancel_task and       *)
(* delete_task share the tasks with the worker threads, so their steps     *)
(* interleave with the workers'.  Persisting a task is two steps: its      *)
(* status is read for the statement's parameters, then the statement is    *)
(* committed, and another thread may run between them.  A worker keeps its *)
(* reference to a task that delete_task has taken out of the dictionary.   *)
(*                                                                         *)
(* Titles, percentages, speeds and output files are left out.  "gone" is   *)
(* the status of a task the restarted server no longer knows.              *)
(***************************************************************************)
EXTENDS Naturals

CONSTANTS
    Gids,          \* the downloads; each gid is a fresh uuid, used once
    NoGid,         \* no download
    SameDir,       \* SameDir[g]: the downloads that go to g's directory
    LostWrites,    \* whether _persist_task may fail, which it swallows
    MaxRestarts    \* bound: how often the server restarts

ASSUME DirAssumption ==
    /\ NoGid \notin Gids
    /\ SameDir \in [Gids -> SUBSET Gids]
    /\ \A g \in Gids : g \in SameDir[g]
ASSUME BoundAssumption == LostWrites \in BOOLEAN /\ MaxRestarts \in Nat

VARIABLES
    record,     \* gid -> the "status" of its task, in memory
    listed,     \* the gids in _tasks
    events,     \* the gids in _cancel_events
    flag,       \* the gids whose cancel event is set
    row,        \* gid -> the status column of its row, "none" without a row
    pc,         \* gid -> where its worker is
    verdict,    \* gid -> the status its worker is about to store or stored
    snap,       \* gid -> the status its worker read to persist it
    call,       \* the cancel or delete call on the event loop
    part,       \* the downloads with a partial file on disk
    deleted,    \* history: the gids whose deletion was answered
    outlived,   \* history: those whose worker was still at work then
    unclean,    \* history: the gids whose worker could not clean up
    restarts    \* how often the server has restarted

memVars    == <<record, listed, events, flag>>
workerVars == <<pc, verdict, snap>>
histVars   == <<deleted, outlived, unclean, restarts>>
vars       == <<memVars, row, workerVars, call, part, histVars>>

Statuses == {"none", "active", "complete", "cancelled", "error", "gone"}
Stored   == Statuses \ {"gone"}
PCs      == {"none", "queued", "probing", "probed", "loading", "hook", "settling",
             "settled", "saving", "cleanup", "done", "crashed"}
Steps    == {"flag", "check", "mark", "read", "write", "pop", "drop"}

\* The worker's thread has work left.
Working(g) == pc[g] \notin {"none", "done", "crashed"}

Idle == [op |-> "none", gid |-> NoGid, step |-> "flag", snap |-> "none"]

Init ==
    /\ record = [g \in Gids |-> "none"]
    /\ listed = {}
    /\ events = {}
    /\ flag = {}
    /\ row = [g \in Gids |-> "none"]
    /\ pc = [g \in Gids |-> "none"]
    /\ verdict = [g \in Gids |-> "none"]
    /\ snap = [g \in Gids |-> "none"]
    /\ call = Idle
    /\ part = {}
    /\ deleted = {}
    /\ outlived = {}
    /\ unclean = {}
    /\ restarts = 0

\* The commit of a _persist_task that read status s.
Persist(g, s) == \/ row' = [row EXCEPT ![g] = s]
                 \/ LostWrites /\ UNCHANGED row

-----------------------------------------------------------------------------
(* The worker thread: _execute_yt_dlp *)

To(g, p) == pc' = [pc EXCEPT ![g] = p]

\* The thread starts.  A task deleted meanwhile ends it at once; when the
\* directory cannot be made the exception leaves the task as it is.
Begin(g) ==
    /\ pc[g] = "queued"
    /\ \/ g \notin listed /\ To(g, "done")
       \/ g \in listed /\ (To(g, "probing") \/ To(g, "crashed"))
    /\ UNCHANGED <<memVars, row, verdict, snap, call, part, histVars>>

\* extract_info, and the read for persisting the title; or it failed.
Probe(g) ==
    /\ pc[g] = "probing"
    /\ \/ To(g, "probed") /\ snap' = [snap EXCEPT ![g] = record[g]]
       \/ To(g, "loading") /\ UNCHANGED snap
    /\ UNCHANGED <<memVars, row, verdict, call, part, histVars>>

ProbeSave(g) ==
    /\ pc[g] = "probed"
    /\ Persist(g, snap[g])
    /\ To(g, "loading")
    /\ UNCHANGED <<memVars, verdict, snap, call, part, histVars>>

\* progress_hook of a download in progress: the event is not set ...
HookCheck(g) ==
    /\ pc[g] = "loading"
    /\ g \notin flag
    /\ To(g, "hook")
    /\ UNCHANGED <<memVars, row, verdict, snap, call, part, histVars>>

\* ... so the status is "active", whatever has been stored since.
HookStore(g) ==
    /\ pc[g] = "hook"
    /\ record' = [record EXCEPT ![g] = "active"]
    /\ part' = part \cup {g}
    /\ To(g, "loading")
    /\ UNCHANGED <<listed, events, flag, row, verdict, snap, call, histVars>>

Ends(g, v) ==
    /\ verdict' = [verdict EXCEPT ![g] = v]
    /\ To(g, "settling")
    /\ UNCHANGED <<memVars, row, snap, call, histVars>>

\* A hook finds the event set and raises.
HookRaises(g) == /\ pc[g] = "loading"
                 /\ g \in flag
                 /\ Ends(g, "cancelled")
                 /\ UNCHANGED part

\* ydl.download returns, whether or not the event was set after the last hook.
Returns(g) == /\ pc[g] = "loading"
              /\ Ends(g, "complete")
              /\ part' = part \ {g}

\* Mutant: the exception ends the thread.
Fails_Uncaught(g) == /\ pc[g] \in {"probing", "loading"}
                     /\ To(g, "done")
                     /\ UNCHANGED <<memVars, row, verdict, snap, call, part, histVars>>

\* yt-dlp raises: is_cancelled is read as the exception is handled.
Fails(g) == /\ pc[g] \in {"probing", "loading"}
            /\ Ends(g, IF g \in flag THEN "cancelled" ELSE "error")
            /\ UNCHANGED part

Finishes(g) == HookRaises(g) \/ Returns(g) \/ Fails(g)

\* Mutant: cancel_task has already stored "cancelled", so only others are stored.
Settle_SkipsCancelled(g) ==
    /\ pc[g] = "settling"
    /\ record' = [record EXCEPT ![g] = IF verdict[g] = "cancelled" THEN @ ELSE verdict[g]]
    /\ To(g, "settled")
    /\ UNCHANGED <<listed, events, flag, row, verdict, snap, call, part, histVars>>

Settle(g) ==
    /\ pc[g] = "settling"
    /\ record' = [record EXCEPT ![g] = verdict[g]]
    /\ To(g, "settled")
    /\ UNCHANGED <<listed, events, flag, row, verdict, snap, call, part, histVars>>

EndRead(g) ==
    /\ pc[g] = "settled"
    /\ snap' = [snap EXCEPT ![g] = record[g]]
    /\ To(g, "saving")
    /\ UNCHANGED <<memVars, row, verdict, call, part, histVars>>

\* Mutant: only a completed download is persisted at its end.
EndSave_CompleteOnly(g) ==
    /\ pc[g] = "saving"
    /\ IF verdict[g] = "complete" THEN Persist(g, snap[g]) ELSE UNCHANGED row
    /\ \/ verdict[g] = "cancelled" /\ To(g, "cleanup") /\ UNCHANGED events
       \/ verdict[g] # "cancelled" /\ To(g, "done") /\ events' = events \ {g}
    /\ UNCHANGED <<record, listed, flag, verdict, snap, call, part, histVars>>

\* Mutant: the cleanup is skipped.
EndSave_NoCleanup(g) ==
    /\ pc[g] = "saving"
    /\ Persist(g, snap[g])
    /\ To(g, "done")
    /\ events' = events \ {g}
    /\ UNCHANGED <<record, listed, flag, verdict, snap, call, part, histVars>>

EndSave(g) ==
    /\ pc[g] = "saving"
    /\ Persist(g, snap[g])
    /\ \/ verdict[g] = "cancelled" /\ To(g, "cleanup") /\ UNCHANGED events
       \/ verdict[g] # "cancelled" /\ To(g, "done") /\ events' = events \ {g}
    /\ UNCHANGED <<record, listed, flag, verdict, snap, call, part, histVars>>

\* A cancelled download removes every *.part of its directory, one after the
\* other; the first that cannot be removed ends it, and the error is swallowed.
Cleanup(g) ==
    /\ pc[g] = "cleanup"
    /\ \/ /\ part' = part \ SameDir[g]
          /\ UNCHANGED unclean
       \/ /\ \E removed \in SUBSET SameDir[g] : part' = part \ removed
          /\ unclean' = unclean \cup {g}
    /\ events' = events \ {g}
    /\ To(g, "done")
    /\ UNCHANGED <<record, listed, flag, row, verdict, snap, call, deleted, outlived, restarts>>

Worker(g) ==
    \/ Begin(g) \/ Probe(g) \/ ProbeSave(g) \/ HookCheck(g) \/ HookStore(g)
    \/ Finishes(g) \/ Settle(g) \/ EndRead(g) \/ EndSave(g) \/ Cleanup(g)

-----------------------------------------------------------------------------
(* The event loop *)

\* start_download.  No thread knows the task yet: its persist is one step.
Add(g) ==
    /\ call = Idle
    /\ record[g] = "none"
    /\ record' = [record EXCEPT ![g] = "active"]
    /\ listed' = listed \cup {g}
    /\ events' = events \cup {g}
    /\ Persist(g, "active")
    /\ To(g, "queued")
    /\ UNCHANGED <<flag, verdict, snap, call, part, histVars>>

\* Mutant: delete_task does not cancel first.
Request_JustDeletes(g, op) ==
    /\ call = Idle
    /\ record[g] # "none"
    /\ call' = [op |-> op, gid |-> g, snap |-> "none",
                step |-> IF op = "delete" THEN "pop" ELSE "flag"]
    /\ UNCHANGED <<memVars, row, workerVars, part, histVars>>

\* POST pause, remove (cancel_task) and delete (delete_task).  Unpause answers
\* "OK" and changes nothing: it is no action.
Request(g, op) ==
    /\ call = Idle
    /\ record[g] # "none"
    /\ call' = [op |-> op, gid |-> g, step |-> "flag", snap |-> "none"]
    /\ UNCHANGED <<memVars, row, workerVars, part, histVars>>

At(s) == call.op # "none" /\ call.step = s

GoTo(s) == call' = [call EXCEPT !.step = s]

\* cancel_task returns: delete_task goes on, the other routes answer.
Back == IF call.op = "delete" THEN GoTo("pop") ELSE call' = Idle

CancelFlag ==
    /\ At("flag")
    /\ flag' = IF call.gid \in events THEN flag \cup {call.gid} ELSE flag
    /\ GoTo("check")
    /\ UNCHANGED <<record, listed, events, row, workerVars, part, histVars>>

CancelCheck ==
    /\ At("check")
    /\ IF call.gid \in listed /\ record[call.gid] = "active" THEN GoTo("mark") ELSE Back
    /\ UNCHANGED <<memVars, row, workerVars, part, histVars>>

CancelMark ==
    /\ At("mark")
    /\ record' = [record EXCEPT ![call.gid] = "cancelled"]
    /\ GoTo("read")
    /\ UNCHANGED <<listed, events, flag, row, workerVars, part, histVars>>

CancelRead ==
    /\ At("read")
    /\ call' = [call EXCEPT !.step = "write", !.snap = record[call.gid]]
    /\ UNCHANGED <<memVars, row, workerVars, part, histVars>>

CancelWrite ==
    /\ At("write")
    /\ Persist(call.gid, call.snap)
    /\ Back
    /\ UNCHANGED <<memVars, workerVars, part, histVars>>

\* delete_task after its cancel_task: the task is taken out of _tasks, and with
\* delete_files the files with its title, partial ones included, are unlinked.
DeletePop ==
    /\ At("pop")
    /\ IF call.gid \in listed
       THEN /\ listed' = listed \ {call.gid}
            /\ part' \in {part, part \ {call.gid}}
            /\ GoTo("drop")
       ELSE /\ call' = Idle
            /\ UNCHANGED <<listed, part>>
    /\ UNCHANGED <<record, events, flag, row, workerVars, histVars>>

DeleteRow ==
    /\ At("drop")
    /\ Persist(call.gid, "none")
    /\ deleted' = deleted \cup {call.gid}
    /\ outlived' = IF Working(call.gid) THEN outlived \cup {call.gid} ELSE outlived
    /\ call' = Idle
    /\ UNCHANGED <<memVars, workerVars, part, unclean, restarts>>

Step == \/ CancelFlag \/ CancelCheck \/ CancelMark \/ CancelRead \/ CancelWrite
        \/ DeletePop \/ DeleteRow

-----------------------------------------------------------------------------
\* Mutant: the stored status is believed.
Loaded_AsStored(g) ==
    IF record[g] = "none" THEN "none" ELSE IF row[g] = "none" THEN "gone" ELSE row[g]

\* _load_tasks_from_db: nothing is downloading in a server that just started.
Loaded(g) ==
    IF record[g] = "none" THEN "none"
    ELSE IF row[g] = "none" THEN "gone"
    ELSE IF row[g] = "active" THEN "error" ELSE row[g]

\* The server stops, with its threads, wherever it is, and starts again.
Restart ==
    /\ restarts < MaxRestarts
    /\ restarts' = restarts + 1
    /\ listed' = {g \in Gids : row[g] # "none"}
    /\ record' = [g \in Gids |-> Loaded(g)]
    /\ events' = {}
    /\ flag' = {}
    /\ pc' = [g \in Gids |-> "none"]
    /\ verdict' = [g \in Gids |-> "none"]
    /\ snap' = [g \in Gids |-> "none"]
    /\ call' = Idle
    /\ UNCHANGED <<row, part, deleted, outlived, unclean>>

Next ==
    \/ \E g \in Gids : Worker(g) \/ Add(g)
    \/ \E g \in Gids, op \in {"cancel", "delete"} : Request(g, op)
    \/ Step
    \/ Restart

SafetySpec == Init /\ [][Next]_vars

(***************************************************************************)
(* Threads are scheduled, a call on the event loop runs to its end, and a  *)
(* download ends: what is left to fetch is finite and yt-dlp's requests    *)
(* time out (strong fairness, since reporting progress interrupts the      *)
(* loading).  Nobody has to add, cancel or delete anything.                *)
(***************************************************************************)
Fairness ==
    /\ \A g \in Gids : WF_vars(Worker(g)) /\ SF_vars(Finishes(g))
    /\ WF_vars(Step)

Spec == SafetySpec /\ Fairness

-----------------------------------------------------------------------------
(* Properties *)

\* Every variable stays in its range, and a worker exists only for a download
\* that was added.
TypeOK ==
    /\ record \in [Gids -> Statuses]
    /\ listed \subseteq Gids
    /\ events \subseteq Gids
    /\ flag \subseteq Gids
    /\ row \in [Gids -> Stored]
    /\ pc \in [Gids -> PCs]
    /\ verdict \in [Gids -> Stored]
    /\ snap \in [Gids -> Stored]
    /\ call \in [op : {"none", "cancel", "delete"}, gid : Gids \cup {NoGid},
                 step : Steps, snap : Stored]
    /\ part \subseteq Gids
    /\ deleted \subseteq Gids
    /\ outlived \subseteq Gids
    /\ unclean \subseteq Gids
    /\ restarts \in 0 .. MaxRestarts

\* A download shown as active has a thread that will settle it, also after a
\* restart; the one exception is a worker that could not make its directory.
ActiveIsAttended ==
    \A g \in listed : record[g] = "active" => Working(g) \/ pc[g] = "crashed"

\* As long as a worker is at work cancel_task finds the event that stops it.
WorkerCanBeStopped == \A g \in Gids : Working(g) => g \in events

\* A download that ended and was never asked to stop is in the table with the
\* status the list shows, when no write was lost.
TableAgrees ==
    \A g \in listed \ flag : pc[g] = "done" /\ ~LostWrites => row[g] = record[g]

\* A deletion is undone by nothing but the download's own worker, if that was
\* still at work when the deletion was answered.  Such a worker has been told to
\* stop, and the row it brings back does not say "active" when it is through.
\* (A restart lists what has a row, and a deletion under way is not yet one.)
OnlyALateWorkerUndoesADeletion ==
    \A g \in deleted \ listed :
        /\ Working(g) => g \in flag
        /\ row[g] # "none" /\ ~LostWrites => g \in outlived
        /\ row[g] = "active" /\ ~LostWrites => Working(g) \/ call.gid = g

\* A worker that ended a download as cancelled leaves no partial file behind,
\* unless its clean-up failed: nothing of it writes after the clean-up.
OnlyAFailedCleanUpLeavesAPartial ==
    \A g \in Gids :
        pc[g] = "done" /\ verdict[g] = "cancelled" => g \notin part \/ g \in unclean

\* Once the cancel event of a download is set it does not stay active: a
\* progress report under way may show it active again, but not for good.
CancelTakesEffect == \A g \in Gids : g \in flag ~> [](record[g] # "active")

\* Every download leaves the active state, unless its directory could not be
\* made.
EveryDownloadSettles ==
    \A g \in Gids : pc[g] = "queued" ~> record[g] # "active" \/ pc[g] = "crashed"
=============================================================================
