--------------------------- MODULE MCMediaDownload ---------------------------
(* Instances of MediaDownload for TLC. *)
EXTENDS MediaDownload, TLC

\* Every download goes to the same directory, as with the default one.
OneDir == [g \in Gids |-> Gids]

AnyGid == Permutations(Gids)
=============================================================================
