------------------------- MODULE MediaDownloadProofs -------------------------
(***************************************************************************)
(* The media downloader, for any number of downloads, any directories, any *)
(* number of restarts and writes that may be lost.                         *)
(*                                                                         *)
(* The properties are not inductive: a worker about to store a status must *)
(* be known to store a final one (Verdicts), a call to have found its task *)
(* alive and its event set (Calls), and a status read to be persisted must *)
(* still be the task's when it is written (Saves).                         *)
(***************************************************************************)
EXTENDS MediaDownload, TLAPS

\* A download not added has no worker; one the restarted server does not know
\* has none either, and is not listed.
Unknown ==
    \A g \in Gids : /\ record[g] = "none" => pc[g] = "none"
                    /\ record[g] = "gone" => pc[g] = "none" /\ g \notin listed

\* A worker has no verdict before its end, a final one when it settles, and
\* has stored it from then on.
Verdicts ==
    \A g \in Gids :
        /\ pc[g] \in {"none", "queued"} => verdict[g] = "none"
        /\ pc[g] = "settling" => verdict[g] \in {"complete", "cancelled", "error"}
        /\ pc[g] \in {"settled", "saving", "cleanup"} => record[g] # "active"
        /\ pc[g] = "saving" => snap[g] # "active"

\* A call is about a download that was added.  Past its first step the event is
\* set or no worker is left, and it writes a status only to a listed task.
Calls ==
    call.op # "none" =>
        /\ call.gid \in Gids
        /\ record[call.gid] # "none"
        /\ call.step \in {"mark", "read", "write"} => call.gid \in listed
        /\ call.step = "drop" => call.gid \notin listed
        /\ call.step # "flag" /\ call.gid \notin flag => ~Working(call.gid)
        /\ call.step \in {"mark", "read", "write"} /\ call.gid \notin flag
              => pc[call.gid] = "crashed"

\* Of a download never asked to stop, the status read at the end is the task's,
\* and so is the one written then.
Saves ==
    \A g \in listed \ flag :
        /\ pc[g] = "saving" => snap[g] = record[g]
        /\ pc[g] \in {"cleanup", "done"} /\ ~LostWrites => row[g] = record[g]

\* A deleted download was added.
Deletions == \A g \in deleted : record[g] # "none"

\* The worker of a deleted download outlived the deletion and knows of it; what
\* such a worker stores is all that makes the download known again, and it does
\* not leave it active.
LateWorker(g) ==
    /\ Working(g) => g \in flag /\ g \in outlived /\ g \notin listed
    /\ pc[g] \in {"queued", "cleanup"} /\ ~LostWrites => row[g] # "active"
    /\ (g \in listed \/ row[g] # "none") /\ ~LostWrites => g \in outlived
    /\ g \notin listed /\ row[g] = "active" /\ ~LostWrites
          => Working(g) \/ (call.gid = g /\ call.step = "drop")

LateWorkers == \A g \in deleted : LateWorker(g)

IInv ==
    /\ TypeOK /\ Unknown /\ Verdicts /\ Calls /\ Saves /\ Deletions /\ LateWorkers
    /\ ActiveIsAttended /\ WorkerCanBeStopped /\ OnlyAFailedCleanUpLeavesAPartial

LEMMA InitIInv == Init => IInv
  BY DirAssumption, BoundAssumption
     DEF Init, IInv, TypeOK, Unknown, Verdicts, Calls, Saves, Deletions, LateWorkers, Idle,
         ActiveIsAttended, WorkerCanBeStopped, OnlyAFailedCleanUpLeavesAPartial, Working,
         Statuses, Stored, PCs, Steps

-----------------------------------------------------------------------------
(* Types *)

LEMMA TypeStep == IInv /\ [Next]_vars => TypeOK'
<1> SUFFICES ASSUME IInv, [Next]_vars PROVE TypeOK'
  OBVIOUS
<1> USE DirAssumption, BoundAssumption
    DEF IInv, TypeOK, memVars, workerVars, histVars, To, Persist
<1>1. ASSUME NEW g \in Gids, Begin(g) PROVE TypeOK'
  BY <1>1 DEF Begin, PCs
<1>2. ASSUME NEW g \in Gids, Probe(g) PROVE TypeOK'
  BY <1>2 DEF Probe, PCs, Unknown, Stored
<1>3. ASSUME NEW g \in Gids, ProbeSave(g) PROVE TypeOK'
  BY <1>3 DEF ProbeSave, PCs
<1>4. ASSUME NEW g \in Gids, HookCheck(g) PROVE TypeOK'
  BY <1>4 DEF HookCheck, PCs
<1>5. ASSUME NEW g \in Gids, HookStore(g) PROVE TypeOK'
  BY <1>5 DEF HookStore, PCs, Statuses
<1>6. ASSUME NEW g \in Gids, Finishes(g) PROVE TypeOK'
  BY <1>6 DEF Finishes, HookRaises, Returns, Fails, Ends, PCs, Statuses, Stored
<1>7. ASSUME NEW g \in Gids, Settle(g) PROVE TypeOK'
  BY <1>7 DEF Settle, PCs, Stored
<1>8. ASSUME NEW g \in Gids, EndRead(g) PROVE TypeOK'
  BY <1>8 DEF EndRead, PCs, Unknown, Stored
<1>9. ASSUME NEW g \in Gids, EndSave(g) PROVE TypeOK'
  BY <1>9 DEF EndSave, PCs
<1>10. ASSUME NEW g \in Gids, Cleanup(g) PROVE TypeOK'
  BY <1>10 DEF Cleanup, PCs
<1>11. ASSUME NEW g \in Gids, Add(g) PROVE TypeOK'
  BY <1>11 DEF Add, PCs, Statuses, Stored
<1>12. ASSUME NEW g \in Gids, NEW op \in {"cancel", "delete"}, Request(g, op)
       PROVE  TypeOK'
  BY <1>12 DEF Request, Steps, Stored, Statuses
<1>13. CASE Step
  <2> USE DEF At, GoTo, Back, Idle, Steps
  <2>1. CASE CancelFlag
    BY <2>1 DEF CancelFlag, Calls
  <2>2. CASE CancelCheck
    BY <2>2 DEF CancelCheck, Stored, Statuses
  <2>3. CASE CancelMark
    BY <2>3 DEF CancelMark, Statuses
  <2>4. CASE CancelRead
    BY <2>4 DEF CancelRead, Calls, Unknown, Stored
  <2>5. CASE CancelWrite
    BY <2>5 DEF CancelWrite, Calls, Stored, Statuses
  <2>6. CASE DeletePop
    BY <2>6 DEF DeletePop, Stored, Statuses
  <2>7. CASE DeleteRow
    BY <2>7 DEF DeleteRow, Calls, Stored, Statuses
  <2> QED
    BY <1>13, <2>1, <2>2, <2>3, <2>4, <2>5, <2>6, <2>7 DEF Step
<1>14. CASE Restart
  BY <1>14 DEF Restart, Loaded, Idle, Steps, Statuses, Stored, PCs
<1>15. CASE UNCHANGED vars
  BY <1>15 DEF vars
<1> QED
  BY <1>1, <1>2, <1>3, <1>4, <1>5, <1>6, <1>7, <1>8, <1>9, <1>10, <1>11, <1>12,
     <1>13, <1>14, <1>15 DEF Next, Worker
-----------------------------------------------------------------------------
(* The invariant is inductive *)

\* No step starts a worker for a download that is not known.
LEMMA UnknownStep == IInv /\ [Next]_vars => Unknown'
<1> SUFFICES ASSUME IInv, [Next]_vars PROVE Unknown'
  OBVIOUS
<1> USE DirAssumption, BoundAssumption, TypeStep
    DEF IInv, TypeOK, memVars, workerVars, histVars, To, Persist, Working, At, GoTo,
        Back, Idle, Unknown, Verdicts, Calls
<1>1. ASSUME NEW g \in Gids, Begin(g) PROVE Unknown'
  BY <1>1 DEF Begin
<1>2. ASSUME NEW g \in Gids, Probe(g) PROVE Unknown'
  BY <1>2 DEF Probe
<1>3. ASSUME NEW g \in Gids, ProbeSave(g) PROVE Unknown'
  BY <1>3 DEF ProbeSave
<1>4. ASSUME NEW g \in Gids, HookCheck(g) PROVE Unknown'
  BY <1>4 DEF HookCheck
<1>5. ASSUME NEW g \in Gids, HookStore(g) PROVE Unknown'
  BY <1>5 DEF HookStore
<1>6. ASSUME NEW g \in Gids, Finishes(g) PROVE Unknown'
  BY <1>6 DEF Finishes, HookRaises, Returns, Fails, Ends
<1>7. ASSUME NEW g \in Gids, Settle(g) PROVE Unknown'
  BY <1>7 DEF Settle
<1>8. ASSUME NEW g \in Gids, EndRead(g) PROVE Unknown'
  BY <1>8 DEF EndRead
<1>9. ASSUME NEW g \in Gids, EndSave(g) PROVE Unknown'
  BY <1>9 DEF EndSave
<1>10. ASSUME NEW g \in Gids, Cleanup(g) PROVE Unknown'
  BY <1>10 DEF Cleanup
<1>11. ASSUME NEW g \in Gids, Add(g) PROVE Unknown'
  BY <1>11 DEF Add
<1>12. ASSUME NEW g \in Gids, NEW op \in {"cancel", "delete"}, Request(g, op)
       PROVE  Unknown'
  BY <1>12 DEF Request
<1>13. CASE CancelFlag
  BY <1>13 DEF CancelFlag
<1>14. CASE CancelCheck
  BY <1>14 DEF CancelCheck
<1>15. CASE CancelMark
  BY <1>15 DEF CancelMark
<1>16. CASE CancelRead
  BY <1>16 DEF CancelRead
<1>17. CASE CancelWrite
  BY <1>17 DEF CancelWrite
<1>18. CASE DeletePop
  BY <1>18 DEF DeletePop
<1>19. CASE DeleteRow
  BY <1>19 DEF DeleteRow
<1>20. CASE Restart
  BY <1>20 DEF Restart, Loaded, Stored
<1>21. CASE UNCHANGED vars
  BY <1>21 DEF vars
<1> QED
  BY <1>1, <1>2, <1>3, <1>4, <1>5, <1>6, <1>7, <1>8, <1>9, <1>10, <1>11,
     <1>12, <1>13, <1>14, <1>15, <1>16, <1>17, <1>18, <1>19, <1>20, <1>21
     DEF Next, Worker, Step

\* A worker stores the verdict it reached, and nothing undoes it.
LEMMA VerdictsStep == IInv /\ [Next]_vars => Verdicts'
<1> SUFFICES ASSUME IInv, [Next]_vars PROVE Verdicts'
  OBVIOUS
<1> USE DirAssumption, BoundAssumption, TypeStep
    DEF IInv, TypeOK, memVars, workerVars, histVars, To, Persist, Working, At, GoTo,
        Back, Idle, Verdicts, Unknown, Calls
<1>1. ASSUME NEW g \in Gids, Begin(g) PROVE Verdicts'
  BY <1>1 DEF Begin
<1>2. ASSUME NEW g \in Gids, Probe(g) PROVE Verdicts'
  BY <1>2 DEF Probe
<1>3. ASSUME NEW g \in Gids, ProbeSave(g) PROVE Verdicts'
  BY <1>3 DEF ProbeSave
<1>4. ASSUME NEW g \in Gids, HookCheck(g) PROVE Verdicts'
  BY <1>4 DEF HookCheck
<1>5. ASSUME NEW g \in Gids, HookStore(g) PROVE Verdicts'
  BY <1>5 DEF HookStore
<1>6. ASSUME NEW g \in Gids, Finishes(g) PROVE Verdicts'
  BY <1>6 DEF Finishes, HookRaises, Returns, Fails, Ends
<1>7. ASSUME NEW g \in Gids, Settle(g) PROVE Verdicts'
  BY <1>7 DEF Settle
<1>8. ASSUME NEW g \in Gids, EndRead(g) PROVE Verdicts'
  BY <1>8 DEF EndRead
<1>9. ASSUME NEW g \in Gids, EndSave(g) PROVE Verdicts'
  BY <1>9 DEF EndSave
<1>10. ASSUME NEW g \in Gids, Cleanup(g) PROVE Verdicts'
  BY <1>10 DEF Cleanup
<1>11. ASSUME NEW g \in Gids, Add(g) PROVE Verdicts'
  BY <1>11 DEF Add
<1>12. ASSUME NEW g \in Gids, NEW op \in {"cancel", "delete"}, Request(g, op)
       PROVE  Verdicts'
  BY <1>12 DEF Request
<1>13. CASE CancelFlag
  BY <1>13 DEF CancelFlag
<1>14. CASE CancelCheck
  BY <1>14 DEF CancelCheck
<1>15. CASE CancelMark
  BY <1>15 DEF CancelMark
<1>16. CASE CancelRead
  BY <1>16 DEF CancelRead
<1>17. CASE CancelWrite
  BY <1>17 DEF CancelWrite
<1>18. CASE DeletePop
  BY <1>18 DEF DeletePop
<1>19. CASE DeleteRow
  BY <1>19 DEF DeleteRow
<1>20. CASE Restart
  BY <1>20 DEF Restart, Loaded
<1>21. CASE UNCHANGED vars
  BY <1>21 DEF vars
<1> QED
  BY <1>1, <1>2, <1>3, <1>4, <1>5, <1>6, <1>7, <1>8, <1>9, <1>10, <1>11,
     <1>12, <1>13, <1>14, <1>15, <1>16, <1>17, <1>18, <1>19, <1>20, <1>21
     DEF Next, Worker, Step

\* Who shows a download as active has a worker for it.
LEMMA AttendedStep == IInv /\ [Next]_vars => (ActiveIsAttended /\ WorkerCanBeStopped)'
<1> SUFFICES ASSUME IInv, [Next]_vars PROVE (ActiveIsAttended /\ WorkerCanBeStopped)'
  OBVIOUS
<1> USE DirAssumption, BoundAssumption, TypeStep
    DEF IInv, TypeOK, memVars, workerVars, histVars, To, Persist, Working, At, GoTo,
        Back, Idle, ActiveIsAttended, WorkerCanBeStopped, Verdicts, Stored
<1>1. ASSUME NEW g \in Gids, Begin(g) PROVE (ActiveIsAttended /\ WorkerCanBeStopped)'
  BY <1>1 DEF Begin
<1>2. ASSUME NEW g \in Gids, Probe(g) PROVE (ActiveIsAttended /\ WorkerCanBeStopped)'
  BY <1>2 DEF Probe
<1>3. ASSUME NEW g \in Gids, ProbeSave(g) PROVE (ActiveIsAttended /\ WorkerCanBeStopped)'
  BY <1>3 DEF ProbeSave
<1>4. ASSUME NEW g \in Gids, HookCheck(g) PROVE (ActiveIsAttended /\ WorkerCanBeStopped)'
  BY <1>4 DEF HookCheck
<1>5. ASSUME NEW g \in Gids, HookStore(g) PROVE (ActiveIsAttended /\ WorkerCanBeStopped)'
  BY <1>5 DEF HookStore
<1>6. ASSUME NEW g \in Gids, Finishes(g) PROVE (ActiveIsAttended /\ WorkerCanBeStopped)'
  BY <1>6 DEF Finishes, HookRaises, Returns, Fails, Ends
<1>7. ASSUME NEW g \in Gids, Settle(g) PROVE (ActiveIsAttended /\ WorkerCanBeStopped)'
  BY <1>7 DEF Settle
<1>8. ASSUME NEW g \in Gids, EndRead(g) PROVE (ActiveIsAttended /\ WorkerCanBeStopped)'
  BY <1>8 DEF EndRead
<1>9. ASSUME NEW g \in Gids, EndSave(g) PROVE (ActiveIsAttended /\ WorkerCanBeStopped)'
  BY <1>9 DEF EndSave
<1>10. ASSUME NEW g \in Gids, Cleanup(g) PROVE (ActiveIsAttended /\ WorkerCanBeStopped)'
  BY <1>10 DEF Cleanup
<1>11. ASSUME NEW g \in Gids, Add(g) PROVE (ActiveIsAttended /\ WorkerCanBeStopped)'
  BY <1>11 DEF Add
<1>12. ASSUME NEW g \in Gids, NEW op \in {"cancel", "delete"}, Request(g, op)
       PROVE  (ActiveIsAttended /\ WorkerCanBeStopped)'
  BY <1>12 DEF Request
<1>13. CASE CancelFlag
  BY <1>13 DEF CancelFlag
<1>14. CASE CancelCheck
  BY <1>14 DEF CancelCheck
<1>15. CASE CancelMark
  BY <1>15 DEF CancelMark
<1>16. CASE CancelRead
  BY <1>16 DEF CancelRead
<1>17. CASE CancelWrite
  BY <1>17 DEF CancelWrite
<1>18. CASE DeletePop
  BY <1>18 DEF DeletePop
<1>19. CASE DeleteRow
  BY <1>19 DEF DeleteRow
<1>20. CASE Restart
  BY <1>20 DEF Restart, Loaded
<1>21. CASE UNCHANGED vars
  BY <1>21 DEF vars
<1> QED
  BY <1>1, <1>2, <1>3, <1>4, <1>5, <1>6, <1>7, <1>8, <1>9, <1>10, <1>11,
     <1>12, <1>13, <1>14, <1>15, <1>16, <1>17, <1>18, <1>19, <1>20, <1>21
     DEF Next, Worker, Step

\* A call does its steps in order, on one download.
LEMMA CallsStep == IInv /\ [Next]_vars => Calls'
<1> SUFFICES ASSUME IInv, [Next]_vars PROVE Calls'
  OBVIOUS
<1> USE DirAssumption, BoundAssumption, TypeStep
    DEF IInv, TypeOK, memVars, workerVars, histVars, To, Persist, Working, At, GoTo,
        Back, Idle, Calls, ActiveIsAttended, WorkerCanBeStopped, Unknown,
        Verdicts
<1>1. ASSUME NEW g \in Gids, Begin(g) PROVE Calls'
  BY <1>1 DEF Begin
<1>2. ASSUME NEW g \in Gids, Probe(g) PROVE Calls'
  BY <1>2 DEF Probe
<1>3. ASSUME NEW g \in Gids, ProbeSave(g) PROVE Calls'
  BY <1>3 DEF ProbeSave
<1>4. ASSUME NEW g \in Gids, HookCheck(g) PROVE Calls'
  BY <1>4 DEF HookCheck
<1>5. ASSUME NEW g \in Gids, HookStore(g) PROVE Calls'
  BY <1>5 DEF HookStore
<1>6. ASSUME NEW g \in Gids, Finishes(g) PROVE Calls'
  BY <1>6 DEF Finishes, HookRaises, Returns, Fails, Ends
<1>7. ASSUME NEW g \in Gids, Settle(g) PROVE Calls'
  BY <1>7 DEF Settle
<1>8. ASSUME NEW g \in Gids, EndRead(g) PROVE Calls'
  BY <1>8 DEF EndRead
<1>9. ASSUME NEW g \in Gids, EndSave(g) PROVE Calls'
  BY <1>9 DEF EndSave
<1>10. ASSUME NEW g \in Gids, Cleanup(g) PROVE Calls'
  BY <1>10 DEF Cleanup
<1>11. ASSUME NEW g \in Gids, Add(g) PROVE Calls'
  BY <1>11 DEF Add
<1>12. ASSUME NEW g \in Gids, NEW op \in {"cancel", "delete"}, Request(g, op)
       PROVE  Calls'
  BY <1>12 DEF Request
<1>13. CASE CancelFlag
  BY <1>13 DEF CancelFlag
<1>14. CASE CancelCheck
  BY <1>14 DEF CancelCheck
<1>15. CASE CancelMark
  BY <1>15 DEF CancelMark
<1>16. CASE CancelRead
  BY <1>16 DEF CancelRead
<1>17. CASE CancelWrite
  BY <1>17 DEF CancelWrite
<1>18. CASE DeletePop
  BY <1>18 DEF DeletePop
<1>19. CASE DeleteRow
  BY <1>19 DEF DeleteRow
<1>20. CASE Restart
  BY <1>20 DEF Restart, Loaded
<1>21. CASE UNCHANGED vars
  BY <1>21 DEF vars
<1> QED
  BY <1>1, <1>2, <1>3, <1>4, <1>5, <1>6, <1>7, <1>8, <1>9, <1>10, <1>11,
     <1>12, <1>13, <1>14, <1>15, <1>16, <1>17, <1>18, <1>19, <1>20, <1>21
     DEF Next, Worker, Step

\* What a worker persists at its end is what the list shows.
LEMMA SavesStep == IInv /\ [Next]_vars => Saves'
<1> SUFFICES ASSUME IInv, [Next]_vars PROVE Saves'
  OBVIOUS
<1> USE DirAssumption, BoundAssumption, TypeStep
    DEF IInv, TypeOK, memVars, workerVars, histVars, To, Persist, Working, At, GoTo,
        Back, Idle, Saves, Calls, Unknown, ActiveIsAttended
<1>1. ASSUME NEW g \in Gids, Begin(g) PROVE Saves'
  BY <1>1 DEF Begin
<1>2. ASSUME NEW g \in Gids, Probe(g) PROVE Saves'
  BY <1>2 DEF Probe
<1>3. ASSUME NEW g \in Gids, ProbeSave(g) PROVE Saves'
  BY <1>3 DEF ProbeSave
<1>4. ASSUME NEW g \in Gids, HookCheck(g) PROVE Saves'
  BY <1>4 DEF HookCheck
<1>5. ASSUME NEW g \in Gids, HookStore(g) PROVE Saves'
  BY <1>5 DEF HookStore
<1>6. ASSUME NEW g \in Gids, Finishes(g) PROVE Saves'
  BY <1>6 DEF Finishes, HookRaises, Returns, Fails, Ends
<1>7. ASSUME NEW g \in Gids, Settle(g) PROVE Saves'
  BY <1>7 DEF Settle
<1>8. ASSUME NEW g \in Gids, EndRead(g) PROVE Saves'
  BY <1>8 DEF EndRead
<1>9. ASSUME NEW g \in Gids, EndSave(g) PROVE Saves'
  BY <1>9 DEF EndSave
<1>10. ASSUME NEW g \in Gids, Cleanup(g) PROVE Saves'
  BY <1>10 DEF Cleanup
<1>11. ASSUME NEW g \in Gids, Add(g) PROVE Saves'
  BY <1>11 DEF Add
<1>12. ASSUME NEW g \in Gids, NEW op \in {"cancel", "delete"}, Request(g, op)
       PROVE  Saves'
  BY <1>12 DEF Request
<1>13. CASE CancelFlag
  BY <1>13 DEF CancelFlag
<1>14. CASE CancelCheck
  BY <1>14 DEF CancelCheck
<1>15. CASE CancelMark
  BY <1>15 DEF CancelMark
<1>16. CASE CancelRead
  BY <1>16 DEF CancelRead
<1>17. CASE CancelWrite
  BY <1>17 DEF CancelWrite
<1>18. CASE DeletePop
  BY <1>18 DEF DeletePop
<1>19. CASE DeleteRow
  BY <1>19 DEF DeleteRow
<1>20. CASE Restart
  BY <1>20 DEF Restart, Loaded
<1>21. CASE UNCHANGED vars
  BY <1>21 DEF vars
<1> QED
  BY <1>1, <1>2, <1>3, <1>4, <1>5, <1>6, <1>7, <1>8, <1>9, <1>10, <1>11,
     <1>12, <1>13, <1>14, <1>15, <1>16, <1>17, <1>18, <1>19, <1>20, <1>21
     DEF Next, Worker, Step

\* Only a worker that is loading makes a partial file.
LEMMA PartialStep == IInv /\ [Next]_vars => OnlyAFailedCleanUpLeavesAPartial'
<1> SUFFICES ASSUME IInv, [Next]_vars PROVE OnlyAFailedCleanUpLeavesAPartial'
  OBVIOUS
<1> USE DirAssumption, BoundAssumption, TypeStep
    DEF IInv, TypeOK, memVars, workerVars, histVars, To, Persist, Working, At, GoTo,
        Back, Idle, OnlyAFailedCleanUpLeavesAPartial, Verdicts
<1>1. ASSUME NEW g \in Gids, Begin(g) PROVE OnlyAFailedCleanUpLeavesAPartial'
  BY <1>1 DEF Begin
<1>2. ASSUME NEW g \in Gids, Probe(g) PROVE OnlyAFailedCleanUpLeavesAPartial'
  BY <1>2 DEF Probe
<1>3. ASSUME NEW g \in Gids, ProbeSave(g) PROVE OnlyAFailedCleanUpLeavesAPartial'
  BY <1>3 DEF ProbeSave
<1>4. ASSUME NEW g \in Gids, HookCheck(g) PROVE OnlyAFailedCleanUpLeavesAPartial'
  BY <1>4 DEF HookCheck
<1>5. ASSUME NEW g \in Gids, HookStore(g) PROVE OnlyAFailedCleanUpLeavesAPartial'
  BY <1>5 DEF HookStore
<1>6. ASSUME NEW g \in Gids, Finishes(g) PROVE OnlyAFailedCleanUpLeavesAPartial'
  BY <1>6 DEF Finishes, HookRaises, Returns, Fails, Ends
<1>7. ASSUME NEW g \in Gids, Settle(g) PROVE OnlyAFailedCleanUpLeavesAPartial'
  BY <1>7 DEF Settle
<1>8. ASSUME NEW g \in Gids, EndRead(g) PROVE OnlyAFailedCleanUpLeavesAPartial'
  BY <1>8 DEF EndRead
<1>9. ASSUME NEW g \in Gids, EndSave(g) PROVE OnlyAFailedCleanUpLeavesAPartial'
  BY <1>9 DEF EndSave
<1>10. ASSUME NEW g \in Gids, Cleanup(g) PROVE OnlyAFailedCleanUpLeavesAPartial'
  BY <1>10 DEF Cleanup
<1>11. ASSUME NEW g \in Gids, Add(g) PROVE OnlyAFailedCleanUpLeavesAPartial'
  BY <1>11 DEF Add
<1>12. ASSUME NEW g \in Gids, NEW op \in {"cancel", "delete"}, Request(g, op)
       PROVE  OnlyAFailedCleanUpLeavesAPartial'
  BY <1>12 DEF Request
<1>13. CASE CancelFlag
  BY <1>13 DEF CancelFlag
<1>14. CASE CancelCheck
  BY <1>14 DEF CancelCheck
<1>15. CASE CancelMark
  BY <1>15 DEF CancelMark
<1>16. CASE CancelRead
  BY <1>16 DEF CancelRead
<1>17. CASE CancelWrite
  BY <1>17 DEF CancelWrite
<1>18. CASE DeletePop
  BY <1>18 DEF DeletePop
<1>19. CASE DeleteRow
  BY <1>19 DEF DeleteRow
<1>20. CASE Restart
  BY <1>20 DEF Restart, Loaded
<1>21. CASE UNCHANGED vars
  BY <1>21 DEF vars
<1> QED
  BY <1>1, <1>2, <1>3, <1>4, <1>5, <1>6, <1>7, <1>8, <1>9, <1>10, <1>11,
     <1>12, <1>13, <1>14, <1>15, <1>16, <1>17, <1>18, <1>19, <1>20, <1>21
     DEF Next, Worker, Step

\* A download that was added stays known as such.
LEMMA DeletionsStep == IInv /\ [Next]_vars => Deletions'
<1> SUFFICES ASSUME IInv, [Next]_vars PROVE Deletions'
  OBVIOUS
<1> USE DirAssumption, BoundAssumption, TypeStep
    DEF IInv, TypeOK, memVars, workerVars, histVars, To, Persist, Working, At, GoTo,
        Back, Idle, Deletions, Calls, Unknown, Verdicts
<1>1. ASSUME NEW g \in Gids, Begin(g) PROVE Deletions'
  BY <1>1 DEF Begin
<1>2. ASSUME NEW g \in Gids, Probe(g) PROVE Deletions'
  BY <1>2 DEF Probe
<1>3. ASSUME NEW g \in Gids, ProbeSave(g) PROVE Deletions'
  BY <1>3 DEF ProbeSave
<1>4. ASSUME NEW g \in Gids, HookCheck(g) PROVE Deletions'
  BY <1>4 DEF HookCheck
<1>5. ASSUME NEW g \in Gids, HookStore(g) PROVE Deletions'
  BY <1>5 DEF HookStore
<1>6. ASSUME NEW g \in Gids, Finishes(g) PROVE Deletions'
  BY <1>6 DEF Finishes, HookRaises, Returns, Fails, Ends
<1>7. ASSUME NEW g \in Gids, Settle(g) PROVE Deletions'
  BY <1>7 DEF Settle
<1>8. ASSUME NEW g \in Gids, EndRead(g) PROVE Deletions'
  BY <1>8 DEF EndRead
<1>9. ASSUME NEW g \in Gids, EndSave(g) PROVE Deletions'
  BY <1>9 DEF EndSave
<1>10. ASSUME NEW g \in Gids, Cleanup(g) PROVE Deletions'
  BY <1>10 DEF Cleanup
<1>11. ASSUME NEW g \in Gids, Add(g) PROVE Deletions'
  BY <1>11 DEF Add
<1>12. ASSUME NEW g \in Gids, NEW op \in {"cancel", "delete"}, Request(g, op)
       PROVE  Deletions'
  BY <1>12 DEF Request
<1>13. CASE CancelFlag
  BY <1>13 DEF CancelFlag
<1>14. CASE CancelCheck
  BY <1>14 DEF CancelCheck
<1>15. CASE CancelMark
  BY <1>15 DEF CancelMark
<1>16. CASE CancelRead
  BY <1>16 DEF CancelRead
<1>17. CASE CancelWrite
  BY <1>17 DEF CancelWrite
<1>18. CASE DeletePop
  BY <1>18 DEF DeletePop
<1>19. CASE DeleteRow
  BY <1>19 DEF DeleteRow
<1>20. CASE Restart
  BY <1>20 DEF Restart, Loaded
<1>21. CASE UNCHANGED vars
  BY <1>21 DEF vars
<1> QED
  BY <1>1, <1>2, <1>3, <1>4, <1>5, <1>6, <1>7, <1>8, <1>9, <1>10, <1>11,
     <1>12, <1>13, <1>14, <1>15, <1>16, <1>17, <1>18, <1>19, <1>20, <1>21
     DEF Next, Worker, Step

\* Who brings a deleted row back is its worker, and it ends.
LEMMA LateWorkersStep == IInv /\ [Next]_vars => LateWorkers'
<1> SUFFICES ASSUME IInv, [Next]_vars PROVE LateWorkers'
  OBVIOUS
<1> USE DirAssumption, BoundAssumption, TypeStep
    DEF IInv, TypeOK, memVars, workerVars, histVars, To, Persist, Working, At, GoTo,
        Back, Idle, LateWorkers, LateWorker, Deletions, Calls, Unknown, Verdicts
<1>1. ASSUME NEW g \in Gids, Begin(g) PROVE LateWorkers'
  BY <1>1 DEF Begin
<1>2. ASSUME NEW g \in Gids, Probe(g) PROVE LateWorkers'
  BY <1>2 DEF Probe
<1>3. ASSUME NEW g \in Gids, ProbeSave(g) PROVE LateWorkers'
  <2>1. /\ Working(g) /\ Working(g)' /\ pc[g] # "queued" /\ pc'[g] \notin {"queued", "cleanup"}
        /\ \A d \in Gids \ {g} : pc'[d] = pc[d] /\ row'[d] = row[d]
    BY <1>3 DEF ProbeSave
  <2>2. UNCHANGED <<deleted, outlived, flag, listed, call>>
    BY <1>3 DEF ProbeSave
  <2>3. ASSUME NEW d \in deleted, d = g PROVE LateWorker(d)'
    BY <2>1, <2>2, <2>3
  <2>4. ASSUME NEW d \in deleted, d # g PROVE LateWorker(d)'
    BY <2>1, <2>2, <2>4
  <2> QED
    BY <2>2, <2>3, <2>4
<1>4. ASSUME NEW g \in Gids, HookCheck(g) PROVE LateWorkers'
  BY <1>4 DEF HookCheck
<1>5. ASSUME NEW g \in Gids, HookStore(g) PROVE LateWorkers'
  BY <1>5 DEF HookStore
<1>6. ASSUME NEW g \in Gids, Finishes(g) PROVE LateWorkers'
  BY <1>6 DEF Finishes, HookRaises, Returns, Fails, Ends
<1>7. ASSUME NEW g \in Gids, Settle(g) PROVE LateWorkers'
  BY <1>7 DEF Settle
<1>8. ASSUME NEW g \in Gids, EndRead(g) PROVE LateWorkers'
  BY <1>8 DEF EndRead
<1>9. ASSUME NEW g \in Gids, EndSave(g) PROVE LateWorkers'
  BY <1>9 DEF EndSave
<1>10. ASSUME NEW g \in Gids, Cleanup(g) PROVE LateWorkers'
  BY <1>10 DEF Cleanup
<1>11. ASSUME NEW g \in Gids, Add(g) PROVE LateWorkers'
  BY <1>11 DEF Add
<1>12. ASSUME NEW g \in Gids, NEW op \in {"cancel", "delete"}, Request(g, op)
       PROVE  LateWorkers'
  BY <1>12 DEF Request
<1>13. CASE CancelFlag
  BY <1>13 DEF CancelFlag
<1>14. CASE CancelCheck
  BY <1>14 DEF CancelCheck
<1>15. CASE CancelMark
  BY <1>15 DEF CancelMark
<1>16. CASE CancelRead
  BY <1>16 DEF CancelRead
<1>17. CASE CancelWrite
  BY <1>17 DEF CancelWrite
<1>18. CASE DeletePop
  BY <1>18 DEF DeletePop
<1>19. CASE DeleteRow
  <2>1. /\ call.gid \in Gids /\ call.gid \notin listed
        /\ Working(call.gid) => call.gid \in flag
    BY <1>19 DEF DeleteRow
  <2>2. ~LostWrites => row'[call.gid] = "none"
    BY <1>19, <2>1 DEF DeleteRow
  <2>3. /\ deleted' = deleted \cup {call.gid} /\ outlived \subseteq outlived'
        /\ Working(call.gid) => call.gid \in outlived'
        /\ UNCHANGED <<pc, flag, listed>>
    BY <1>19 DEF DeleteRow
  <2>4. \A d \in Gids \ {call.gid} : row'[d] = row[d]
    BY <1>19 DEF DeleteRow
  <2>5. ASSUME NEW d \in deleted', d = call.gid PROVE LateWorker(d)'
    BY <2>1, <2>2, <2>3, <2>5
  <2>6. ASSUME NEW d \in deleted', d # call.gid PROVE LateWorker(d)'
    BY <2>1, <2>3, <2>4, <2>6
  <2> QED
    BY <2>5, <2>6
<1>20. CASE Restart
  BY <1>20 DEF Restart, Loaded
<1>21. CASE UNCHANGED vars
  BY <1>21 DEF vars
<1> QED
  BY <1>1, <1>2, <1>3, <1>4, <1>5, <1>6, <1>7, <1>8, <1>9, <1>10, <1>11,
     <1>12, <1>13, <1>14, <1>15, <1>16, <1>17, <1>18, <1>19, <1>20, <1>21
     DEF Next, Worker, Step

LEMMA IInvStep == IInv /\ [Next]_vars => IInv'
  BY TypeStep, UnknownStep, VerdictsStep, AttendedStep, CallsStep, SavesStep,
     PartialStep, DeletionsStep, LateWorkersStep DEF IInv

LEMMA Inductive == SafetySpec => []IInv
  BY InitIInv, IInvStep, PTL DEF SafetySpec

-----------------------------------------------------------------------------
(* The theorems *)

\* Every variable keeps its type; in particular nothing stores or reads a
\* status for a download the server does not know.
THEOREM TypeCorrect == SafetySpec => []TypeOK
<1>1. IInv => TypeOK
  BY DEF IInv
<1> QED
  BY <1>1, Inductive, PTL

\* A download the list shows as active has a thread at work on it, whatever is
\* cancelled, deleted or restarted, but for the one whose directory failed.
THEOREM ActiveDownloadsAreAttended == SafetySpec => []ActiveIsAttended
<1>1. IInv => ActiveIsAttended
  BY DEF IInv
<1> QED
  BY <1>1, Inductive, PTL

\* cancel_task reaches every worker that is at work.
THEOREM WorkersCanBeStopped == SafetySpec => []WorkerCanBeStopped
<1>1. IInv => WorkerCanBeStopped
  BY DEF IInv
<1> QED
  BY <1>1, Inductive, PTL

\* A download that ended undisturbed is in the table as the list shows it.
THEOREM TableIsTrue == SafetySpec => []TableAgrees
<1>1. IInv => TableAgrees
  BY DEF IInv, Saves, TableAgrees
<1> QED
  BY <1>1, Inductive, PTL

\* The end of a cancelled download leaves no partial file of it, unless its
\* clean-up failed.
THEOREM PartialsAreCleanedUp == SafetySpec => []OnlyAFailedCleanUpLeavesAPartial
<1>1. IInv => OnlyAFailedCleanUpLeavesAPartial
  BY DEF IInv
<1> QED
  BY <1>1, Inductive, PTL

\* A deletion is undone only by the download's own worker that outlived it,
\* which has been told to stop and does not leave the row active.
THEOREM OnlyLateWorkersUndoDeletions == SafetySpec => []OnlyALateWorkerUndoesADeletion
<1>1. IInv => OnlyALateWorkerUndoesADeletion
  BY DEF IInv, LateWorkers, LateWorker, OnlyALateWorkerUndoesADeletion
<1> QED
  BY <1>1, Inductive, PTL
=============================================================================
