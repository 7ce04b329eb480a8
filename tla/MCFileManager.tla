----------------------------- MODULE MCFileManager -----------------------------
EXTENDS FileManager, TLC

\* Directories and operations are alike; no liveness is checked.
Alike == Permutations(Dirs) \cup Permutations(Ops)
=============================================================================
