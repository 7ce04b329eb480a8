----------------------------- MODULE MCFileTasks -----------------------------
(* Two requests that carry task ids of their own, or the same one. *)
EXTENDS FileTasks, TLC

CONSTANTS o1, o2, t1, t2

OwnIds   == (o1 :> t1) @@ (o2 :> t2)
OneId    == (o1 :> t1) @@ (o2 :> t1)
SomeIds  == {OwnIds, OneId}
=============================================================================
