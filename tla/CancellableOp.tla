---------------------------- MODULE CancellableOp ----------------------------
(***************************************************************************)
(* What POST /api/files/{copy,move,extract} promise their caller, with the *)
(* task record, the worker thread and the progress feed abstracted away:   *)
(* an operation that was started is answered exactly once, it is answered  *)
(* "success" only when nobody asked to cancel it before the answer, and    *)
(* "cancelled" only when somebody did.  A failure of the file system may   *)
(* be answered at any time.                                                *)
(***************************************************************************)
CONSTANT Ops

VARIABLES phase,   \* operation -> how far its request is
          asked    \* the operations whose cancellation was accepted

vars == <<phase, asked>>

Answers == {"success", "cancelled", "error"}

Init == /\ phase = [o \in Ops |-> "idle"]
        /\ asked = {}

Start(o) == /\ phase[o] = "idle"
            /\ phase' = [phase EXCEPT ![o] = "running"]
            /\ UNCHANGED asked

\* Cancelling an operation already answered is accepted too.
Ask(o) == /\ phase[o] # "idle"
          /\ asked' = asked \cup {o}
          /\ UNCHANGED phase

Answer(o) == /\ phase[o] = "running"
             /\ \E a \in Answers :
                   /\ a = "success" => o \notin asked
                   /\ a = "cancelled" => o \in asked
                   /\ phase' = [phase EXCEPT ![o] = a]
             /\ UNCHANGED asked

Next == \E o \in Ops : Start(o) \/ Ask(o) \/ Answer(o)

SafetySpec == Init /\ [][Next]_vars

Spec == SafetySpec /\ \A o \in Ops : WF_vars(Answer(o))
=============================================================================
